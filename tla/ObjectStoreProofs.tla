-------------------------- MODULE ObjectStoreProofs --------------------------
(***************************************************************************)
(* The server implements the metadata store's specification, for every set *)
(* of clients, buckets, keys, ids, hashes and part numbers, every workload *)
(* and every number of faults: each await of each handler, of either       *)
(* collector, each disconnect and each crash is a transaction that the     *)
(* store allows, or leaves the tables alone.  What is proved of the store  *)
(* under any sequence of calls therefore holds of the server.              *)
(***************************************************************************)
EXTENDS ObjectStore, MetaStoreProofs

------------------------------------------------------------------------------
(* The inductive invariant.                                                *)

\* What resolve_source finds, and a copy commits later: an object with parts.
IsSource(m) ==
  m \in Manifests /\ m.state = "Committed" /\ m.kind = "Object" /\ m.parts # NoParts

\* A committed object has parts, and a row under a uuid has an id that was
\* handed out.
RowsOK ==
  /\ NullVersion \notin used
  /\ \A k \in ManifestKeys :
       objects[k] # Absent
         => /\ objects[k].state = "Committed" /\ objects[k].kind = "Object"
                 => objects[k].parts # NoParts
            /\ IsUploadKey(k) => k.version_id \in used

\* What a worker that is to commit holds.
Commits(r) ==
  /\ r.op \in {"put", "uploadPart", "uploadPartCopy"} => r.hash \in Hashes
  /\ r.op = "copy" => IsSource(r.snap)
  /\ r.op = "create" => r.fresh
  /\ r.op = "complete" => /\ IsSource(r.snap)
                          /\ r.snap.upload_mode = "Multipart"
                          /\ IsUploadKey(r.key)
                          /\ r.key.version_id \in used

\* The object a completion has built still has the tags and the lock of its
\* upload, if the upload is still there: nothing changes those two, and no other
\* row ever takes its place.
SnapshotFits(r) ==
  r.op = "complete" /\ r.pc = "commit" /\ objects[r.key] # Absent
    => /\ r.snap.tags = objects[r.key].tags
       /\ r.snap.object_lock = objects[r.key].object_lock

\* What every worker holds at each place of its handler.
Holds(r) ==
  /\ r.pc \in {"write", "resolve", "read", "commit"} => r.key \in ManifestKeys
  /\ r.pc \in {"write", "resolve", "read", "commit"}
       /\ r.op \in {"put", "marker", "copy", "create"} => r.key.version_id = NullVersion
  /\ r.pc \in {"write", "resolve", "read", "commit"}
       /\ r.op \in {"uploadPart", "uploadPartCopy"} => r.number \in PartNumbers
  /\ r.pc = "write" => r.op \in {"put", "uploadPart", "uploadPartCopy"} /\ r.hash \in Hashes
  /\ r.pc = "resolve" => r.op \in {"copy", "uploadPartCopy"}
  /\ r.pc = "read" => r.op = "uploadPartCopy"
  /\ r.pc = "commit" => Commits(r)
  /\ r.pc \in {"unlink", "remove"} => r.cur \in Hashes

WorkersOK == \A w \in Workers : Holds(work[w]) /\ SnapshotFits(work[w])

ServerInv == TypeOK /\ UploadsHaveIds /\ RowsOK /\ WorkersOK

------------------------------------------------------------------------------
(* What every step does.                                                   *)

\* No row comes back under an id that was handed out, and a row that stays keeps
\* its tags and its lock.
Kept ==
  /\ used \subseteq used'
  /\ \A k \in ManifestKeys :
       k.version_id \in used /\ objects'[k] # Absent
         => /\ objects[k] # Absent
            /\ objects'[k].tags = objects[k].tags
            /\ objects'[k].object_lock = objects[k].object_lock

\* The tables change by an operation of the actor, remove_part only where a
\* collector is at that place.
StoreStep == [CommonStep]_metaVars \/ \E w \in Workers : GcRemove(w)

StepOK == StoreStep /\ Kept /\ RowsOK'

\* A step of worker w.
Good(w) ==
  /\ StepOK
  /\ files' \subseteq Hashes /\ used' \subseteq VersionIds /\ faults' \in 0..MaxFaults
  /\ work' = [work EXCEPT ![w] = work'[w]]
  /\ work'[w] \in Work /\ Holds(work[w])' /\ SnapshotFits(work[w])'

\* The tables after a step of the store have their types again.
LEMMA StoreTypes ==
  ASSUME MetaTypeOK, UploadsHaveIds, [MetaNext]_metaVars
  PROVE  MetaTypeOK' /\ UploadsHaveIds'
<1>1. CASE UNCHANGED metaVars
  BY <1>1 DEF metaVars, MetaTypeOK, UploadsHaveIds
<1>2. CASE CommonStep
  BY <1>2, CommonTypeOK, CommonUploads
<1>3. ASSUME NEW h \in Hashes, RemovePart(h)
      PROVE  MetaTypeOK' /\ UploadsHaveIds'
  BY <1>3, RemoveTypeOK DEF RemovePart, UploadsHaveIds
<1> QED
  BY <1>1, <1>2, <1>3 DEF MetaNext

\* A step of the server on the tables is a step of the store.
LEMMA StoreStepIsStep ==
  ASSUME ServerInv, StoreStep
  PROVE  [MetaNext]_metaVars
<1>1. CASE [CommonStep]_metaVars
  BY <1>1 DEF MetaNext
<1>2. ASSUME NEW w \in Workers, GcRemove(w)
      PROVE  MetaNext
  <2>1. work[w].cur \in Hashes
    BY <1>2 DEF GcRemove, ServerInv, WorkersOK, Holds
  <2> QED
    BY <1>2, <2>1 DEF GcRemove, MetaNext
<1> QED
  BY <1>1, <1>2 DEF StoreStep

\* What a worker holds stays valid while others step.
LEMMA HoldsStays ==
  ASSUME Kept, NEW r, r \in Work, Holds(r), SnapshotFits(r)
  PROVE  Holds(r)' /\ SnapshotFits(r)'
<1>1. Holds(r)'
  BY DEF Kept, Holds, Commits
<1>2. ASSUME r.op = "complete", r.pc = "commit", objects'[r.key] # Absent
      PROVE  /\ r.snap.tags = objects'[r.key].tags
             /\ r.snap.object_lock = objects'[r.key].object_lock
  <2>1. r.key \in ManifestKeys /\ r.key.version_id \in used
    BY <1>2 DEF Holds, Commits
  <2> QED
    BY <1>2, <2>1 DEF Kept, SnapshotFits
<1> QED
  BY <1>1, <1>2 DEF SnapshotFits

\* The invariant survives the step of a worker.
LEMMA GoodInv ==
  ASSUME ServerInv, NEW w \in Workers, Good(w)
  PROVE  ServerInv'
<1>1. MetaTypeOK' /\ UploadsHaveIds'
  BY StoreTypes, StoreStepIsStep DEF ServerInv, TypeOK, Good, StepOK
<1>2. work' \in [Workers -> Work]
  BY DEF ServerInv, TypeOK, Good
<1>3. ASSUME NEW v \in Workers
      PROVE  Holds(work[v])' /\ SnapshotFits(work[v])'
  <2>1. CASE v = w
    BY <2>1 DEF Good
  <2>2. CASE v # w
    <3>1. work'[v] = work[v]
      BY <2>2 DEF Good, ServerInv, TypeOK
    <3>2. work[v] \in Work /\ Holds(work[v]) /\ SnapshotFits(work[v])
      BY DEF ServerInv, TypeOK, WorkersOK
    <3>3. Kept
      BY DEF Good, StepOK
    <3> QED
      BY <3>1, <3>2, <3>3, HoldsStays DEF Holds, SnapshotFits, Commits
  <2> QED
    BY <2>1, <2>2
<1> QED
  BY <1>1, <1>2, <1>3 DEF ServerInv, TypeOK, Good, StepOK, WorkersOK

\* A step that leaves the tables and the ids alone.
LEMMA QuietStep ==
  ASSUME ServerInv, UNCHANGED <<buckets, objects, parts, used>>
  PROVE  StepOK
BY DEF StepOK, StoreStep, Kept, metaVars, ServerInv, RowsOK

------------------------------------------------------------------------------
(* Requests arrive.                                                        *)

\* A worker takes up a request that is in order.
LEMMA StartOK ==
  ASSUME ServerInv, NEW w \in Workers, NEW r \in Work, Holds(r), SnapshotFits(r),
         Start(w, r)
  PROVE  Good(w)
<1>1. StepOK
  BY QuietStep DEF Start
<1>2. work' = [work EXCEPT ![w] = r] /\ work'[w] = r
  BY DEF Start, ServerInv, TypeOK
<1>3. Holds(work[w])' /\ SnapshotFits(work[w])'
  BY <1>2 DEF Start, Holds, SnapshotFits, Commits
<1> QED
  BY <1>1, <1>2, <1>3 DEF Good, Start, ServerInv, TypeOK

\* The null version of a key is a manifest key.
LEMMA NullKeyType ==
  ASSUME NEW b \in Buckets, NEW key \in Keys
  PROVE  NullKey(b, key) \in ManifestKeys
BY MetaAssumption DEF NullKey, ManifestKeys

\* Every request starts in order.
LEMMA BeginOK ==
  ASSUME ServerInv, NEW c \in Clients, Begin(c)
  PROVE  Good(c)
<1>0. c \in Workers
  BY DEF Workers
<1>1. CASE BeginPut(c)
  <2>1. PICK b \in Buckets, key \in Keys, h \in Hashes :
          Start(c, [Request("put", "write", NullKey(b, key)) EXCEPT
                      !.hash = h, !.fresh = NeedsId(b)])
    BY <1>1 DEF BeginPut
  <2> DEFINE r == [Request("put", "write", NullKey(b, key)) EXCEPT
                     !.hash = h, !.fresh = NeedsId(b)]
  <2>2. r \in Work /\ Holds(r) /\ SnapshotFits(r)
    BY NullKeyType DEF Work, Requests, Pcs, Request, Idle, NeedsId, NullKey, Holds,
         SnapshotFits
  <2> QED
    BY <1>0, <2>1, <2>2, StartOK
<1>2. CASE BeginDelete(c)
  <2>1. PICK b \in Buckets, key \in Keys :
          Start(c, [Request(IF buckets[b].versioning = "Off" THEN "delete" ELSE "marker",
                            "commit", NullKey(b, key)) EXCEPT !.fresh = NeedsId(b)])
    BY <1>2 DEF BeginDelete
  <2> DEFINE r == [Request(IF buckets[b].versioning = "Off" THEN "delete" ELSE "marker",
                           "commit", NullKey(b, key)) EXCEPT !.fresh = NeedsId(b)]
  <2>2. r \in Work /\ Holds(r) /\ SnapshotFits(r)
    BY NullKeyType DEF Work, Requests, Pcs, Request, Idle, NeedsId, NullKey, Holds, SnapshotFits,
         Commits
  <2> QED
    BY <1>0, <2>1, <2>2, StartOK
<1>3. CASE BeginDeleteVersion(c)
  <2>1. PICK k \in ManifestKeys : Start(c, Request("deleteVersion", "commit", k))
    BY <1>3 DEF BeginDeleteVersion
  <2> DEFINE r == Request("deleteVersion", "commit", k)
  <2>2. r \in Work /\ Holds(r) /\ SnapshotFits(r)
    BY DEF Work, Requests, Pcs, Request, Idle, Holds, SnapshotFits, Commits
  <2> QED
    BY <1>0, <2>1, <2>2, StartOK
<1>4. CASE BeginCopy(c)
  <2>1. PICK b \in Buckets, key \in Keys :
          Start(c, [Request("copy", "resolve", NullKey(b, key)) EXCEPT
                      !.fresh = NeedsId(b)])
    BY <1>4 DEF BeginCopy
  <2> DEFINE r == [Request("copy", "resolve", NullKey(b, key)) EXCEPT !.fresh = NeedsId(b)]
  <2>2. r \in Work /\ Holds(r) /\ SnapshotFits(r)
    BY NullKeyType DEF Work, Requests, Pcs, Request, Idle, NeedsId, NullKey, Holds,
         SnapshotFits
  <2> QED
    BY <1>0, <2>1, <2>2, StartOK
<1>5. CASE BeginCreate(c)
  <2>1. PICK b \in Buckets, key \in Keys :
          Start(c, [Request("create", "commit", NullKey(b, key)) EXCEPT !.fresh = TRUE])
    BY <1>5 DEF BeginCreate
  <2> DEFINE r == [Request("create", "commit", NullKey(b, key)) EXCEPT !.fresh = TRUE]
  <2>2. r \in Work /\ Holds(r) /\ SnapshotFits(r)
    BY NullKeyType DEF Work, Requests, Pcs, Request, Idle, NullKey, Holds, SnapshotFits,
         Commits
  <2> QED
    BY <1>0, <2>1, <2>2, StartOK
<1>6. CASE BeginUploadPart(c)
  <2>1. PICK k \in ManifestKeys, n \in PartNumbers, h \in Hashes :
          Start(c, [Request("uploadPart", "write", k) EXCEPT !.number = n, !.hash = h])
    BY <1>6 DEF BeginUploadPart
  <2> DEFINE r == [Request("uploadPart", "write", k) EXCEPT !.number = n, !.hash = h]
  <2>2. r \in Work /\ Holds(r) /\ SnapshotFits(r)
    BY DEF Work, Requests, Pcs, Request, Idle, Holds, SnapshotFits
  <2> QED
    BY <1>0, <2>1, <2>2, StartOK
<1>7. CASE BeginUploadPartCopy(c)
  <2>1. PICK k \in ManifestKeys, n \in PartNumbers :
          Start(c, [Request("uploadPartCopy", "resolve", k) EXCEPT !.number = n])
    BY <1>7 DEF BeginUploadPartCopy
  <2> DEFINE r == [Request("uploadPartCopy", "resolve", k) EXCEPT !.number = n]
  <2>2. r \in Work /\ Holds(r) /\ SnapshotFits(r)
    BY DEF Work, Requests, Pcs, Request, Idle, Holds, SnapshotFits
  <2> QED
    BY <1>0, <2>1, <2>2, StartOK
<1>8. CASE BeginComplete(c)
  <2>1. PICK k \in ManifestKeys, now \in Times :
          /\ objects[k] # Absent /\ objects[k].state = "InProgress"
          /\ \E sel \in Selections(objects[k].parts) :
               Start(c, [Request("complete", "commit", k) EXCEPT
                           !.snap = Completed(objects[k], sel, now)])
    BY <1>8 DEF BeginComplete
  <2>2. PICK sel \in Selections(objects[k].parts) :
          Start(c, [Request("complete", "commit", k) EXCEPT
                      !.snap = Completed(objects[k], sel, now)])
    BY <2>1
  <2> DEFINE m == Completed(objects[k], sel, now)
             r == [Request("complete", "commit", k) EXCEPT !.snap = m]
  <2>3. sel \in PartLists /\ sel # NoParts
    BY DEF Selections
  <2>4. objects[k] \in Manifests
    BY <2>1 DEF ServerInv, TypeOK, MetaTypeOK
  <2>5. /\ m \in Manifests /\ m.state = "Committed" /\ m.kind = "Object"
        /\ m.parts = sel /\ m.upload_mode = "Multipart"
        /\ m.tags = objects[k].tags /\ m.object_lock = objects[k].object_lock
    BY <2>3, <2>4 DEF Completed, Manifests, ManifestStates
  <2>6. IsUploadKey(k) /\ k.version_id \in used
    BY <2>1 DEF ServerInv, UploadsHaveIds, RowsOK
  <2>7. r \in Work /\ r.op = "complete" /\ r.pc = "commit" /\ r.key = k /\ r.snap = m
    BY <2>5 DEF Work, Requests, Pcs, Request, Idle
  <2> HIDE DEF m, r
  <2>8. Holds(r) /\ SnapshotFits(r)
    BY <2>3, <2>5, <2>6, <2>7 DEF Holds, SnapshotFits, Commits, IsSource
  <2>9. Start(c, r)
    BY <2>2 DEF r, m
  <2> QED
    BY <1>0, <2>7, <2>8, <2>9, StartOK
<1>9. CASE BeginAbort(c)
  <2>1. PICK k \in ManifestKeys : Start(c, Request("abort", "commit", k))
    BY <1>9 DEF BeginAbort
  <2> DEFINE r == Request("abort", "commit", k)
  <2>2. r \in Work /\ Holds(r) /\ SnapshotFits(r)
    BY DEF Work, Requests, Pcs, Request, Idle, Holds, SnapshotFits, Commits
  <2> QED
    BY <1>0, <2>1, <2>2, StartOK
<1> QED
  BY <1>1, <1>2, <1>3, <1>4, <1>5, <1>6, <1>7, <1>8, <1>9 DEF Begin

------------------------------------------------------------------------------
(* Steps that leave the tables alone.                                      *)

\* Such a step of w is in order if what w holds afterwards is.
LEMMA QuietGood ==
  ASSUME ServerInv, NEW w \in Workers, NEW r \in Work, Holds(r), SnapshotFits(r),
         work' = [work EXCEPT ![w] = r], files' \subseteq Hashes,
         faults' \in 0..MaxFaults, UNCHANGED <<buckets, objects, parts, used>>
  PROVE  Good(w)
<1>1. StepOK
  BY QuietStep
<1>2. work'[w] = r
  BY DEF ServerInv, TypeOK
<1>3. Holds(work[w])' /\ SnapshotFits(work[w])'
  BY <1>2 DEF Holds, SnapshotFits, Commits
<1> QED
  BY <1>1, <1>2, <1>3 DEF Good, ServerInv, TypeOK

\* A worker that is done, or that goes on with a set of freed parts.
LEMMA CollectingOK ==
  ASSUME NEW r \in Work, NEW freed \in SUBSET Hashes
  PROVE  /\ Collecting(r, freed) \in Work
         /\ Holds(Collecting(r, freed)) /\ SnapshotFits(Collecting(r, freed))
         /\ Idle \in Work /\ Holds(Idle) /\ SnapshotFits(Idle)
<1>1. Idle \in Work /\ Idle.pc = "idle"
  BY DEF Idle, Work, Pcs
<1>2. Collecting(r, freed) \in Work /\ Collecting(r, freed).pc \in {"idle", "gc"}
  BY <1>1 DEF Collecting, Work, Pcs, Idle
<1> QED
  BY <1>1, <1>2 DEF Holds, SnapshotFits

\* In particular a worker that is done.
LEMMA IdleOK == Idle \in Work /\ Holds(Idle) /\ SnapshotFits(Idle)
BY DEF Idle, Work, Pcs, Holds, SnapshotFits

\* The steps between the first await and the transaction.
LEMMA MiddleOK ==
  ASSUME ServerInv, NEW c \in Workers,
         Resolve(c) \/ ResolveFails(c) \/ ReadSource(c) \/ WriteBytes(c)
  PROVE  Good(c)
<1>0. work[c] \in Work /\ Holds(work[c]) /\ SnapshotFits(work[c])
      /\ work \in [Workers -> Work]
      /\ files \subseteq Hashes /\ faults \in 0..MaxFaults
  BY DEF ServerInv, TypeOK, WorkersOK
<1>1. CASE Resolve(c)
  <2>1. PICK k \in Sources :
          work' = [work EXCEPT ![c].snap = objects[k],
                               ![c].pc = IF work[c].op = "copy" THEN "commit" ELSE "read"]
    BY <1>1 DEF Resolve
  <2> DEFINE r == [work[c] EXCEPT !.snap = objects[k],
                                  !.pc = IF work[c].op = "copy" THEN "commit" ELSE "read"]
  <2>11. k \in ManifestKeys /\ objects[k] # Absent /\ objects[k].state = "Committed"
        /\ objects[k].kind = "Object"
    BY DEF Sources
  <2>12. objects[k] \in Manifests /\ objects[k].parts # NoParts
    BY <2>11 DEF ServerInv, TypeOK, MetaTypeOK, RowsOK
  <2>2. IsSource(objects[k])
    BY <2>11, <2>12 DEF IsSource
  <2>3. /\ r \in Work /\ r.op = work[c].op /\ r.key = work[c].key
        /\ r.number = work[c].number /\ r.snap = objects[k]
        /\ r.pc = IF work[c].op = "copy" THEN "commit" ELSE "read"
    <3>1. CASE work[c].op = "copy"
      <4>1. r = [work[c] EXCEPT !.snap = objects[k], !.pc = "commit"]
        BY <3>1
      <4> HIDE DEF r
      <4> QED
        BY <1>0, <2>12, <3>1, <4>1 DEF Work, Pcs
    <3>2. CASE work[c].op # "copy"
      <4>1. r = [work[c] EXCEPT !.snap = objects[k], !.pc = "read"]
        BY <3>2
      <4> HIDE DEF r
      <4> QED
        BY <1>0, <2>12, <3>2, <4>1 DEF Work, Pcs
    <3> QED
      BY <3>1, <3>2
  <2>4. work' = [work EXCEPT ![c] = r]
    BY <1>0, <2>1
  <2> HIDE DEF r
  <2>5. Holds(r) /\ SnapshotFits(r)
    BY <1>0, <1>1, <2>2, <2>3 DEF Resolve, Holds, SnapshotFits, Commits
  <2> QED
    BY <1>0, <1>1, <2>3, <2>4, <2>5, QuietGood DEF Resolve
<1>2. CASE ResolveFails(c)
  BY <1>0, <1>2, IdleOK, QuietGood DEF ResolveFails
<1>3. CASE ReadSource(c)
  <2>1. PICK n \in PartNumbers, h \in Hashes :
          work' = [work EXCEPT ![c] =
                     IF work[c].snap.parts[n] \in files
                     THEN [@ EXCEPT !.pc = "write", !.hash = h, !.snap = Absent]
                     ELSE Idle]
    BY <1>3 DEF ReadSource
  <2> DEFINE r == [work[c] EXCEPT !.pc = "write", !.hash = h, !.snap = Absent]
  <2>2. /\ r \in Work /\ r.op = work[c].op /\ r.key = work[c].key
        /\ r.number = work[c].number /\ r.hash = h /\ r.pc = "write"
    BY <1>0 DEF Work, Pcs
  <2>3. work' = [work EXCEPT ![c] = r] \/ work' = [work EXCEPT ![c] = Idle]
    BY <1>0, <2>1
  <2> HIDE DEF r
  <2>4. Holds(r) /\ SnapshotFits(r)
    BY <1>0, <1>3, <2>2 DEF ReadSource, Holds, SnapshotFits
  <2> QED
    BY <1>0, <1>3, <2>2, <2>3, <2>4, IdleOK, QuietGood DEF ReadSource
<1>4. CASE WriteBytes(c)
  <2> DEFINE r == [work[c] EXCEPT !.pc = "commit"]
  <2>1. /\ r \in Work /\ r.op = work[c].op /\ r.key = work[c].key
        /\ r.number = work[c].number /\ r.hash = work[c].hash /\ r.pc = "commit"
    BY <1>0 DEF Work, Pcs
  <2>2. work' = [work EXCEPT ![c] = r]
    BY <1>0, <1>4 DEF WriteBytes
  <2> HIDE DEF r
  <2>3. Holds(r) /\ SnapshotFits(r)
    BY <1>0, <1>4, <2>1 DEF WriteBytes, Holds, SnapshotFits, Commits
  <2>4. files' \subseteq Hashes
    BY <1>0, <1>4 DEF WriteBytes, Holds
  <2> QED
    BY <1>0, <1>4, <2>1, <2>2, <2>3, <2>4, QuietGood DEF WriteBytes
<1> QED
  BY <1>1, <1>2, <1>3, <1>4

------------------------------------------------------------------------------
(* Transactions.                                                           *)

\* A transaction of w is in order if the tables are afterwards: w is then done, or
\* collects what the transaction freed.
LEMMA CommitGood ==
  ASSUME ServerInv, NEW w \in Workers, NEW freed \in SUBSET Hashes,
         work' = [work EXCEPT ![w] = Collecting(work[w], freed)],
         CommonStep \/ GcRemove(w), Kept, RowsOK', used' \subseteq VersionIds,
         UNCHANGED <<files, faults>>
  PROVE  Good(w)
<1> DEFINE r == Collecting(work[w], freed)
<1>1. work[w] \in Work /\ work \in [Workers -> Work] /\ files \subseteq Hashes
      /\ faults \in 0..MaxFaults
  BY DEF ServerInv, TypeOK
<1>2. r \in Work /\ Holds(r) /\ SnapshotFits(r)
  BY <1>1, CollectingOK
<1>3. work'[w] = r
  BY <1>1
<1>4. r.pc \in {"idle", "gc"}
  BY DEF Collecting, Idle
<1> HIDE DEF r
<1>5. Holds(work[w])' /\ SnapshotFits(work[w])'
  BY <1>3, <1>4 DEF Holds, SnapshotFits
<1>6. work' = [work EXCEPT ![w] = work'[w]]
  BY <1>3 DEF r
<1> QED
  BY <1>1, <1>2, <1>3, <1>5, <1>6 DEF Good, StepOK, StoreStep

\* put_manifest under an id that has not been handed out, or under "null".
LEMMA PublishOK ==
  ASSUME ServerInv, NEW c \in Workers, NEW m \in SubmittedManifests, Publish(c, m),
         work[c].pc = "commit", work[c].op \in {"put", "marker", "copy", "create"},
         m.state = "Committed" /\ m.kind = "Object" => m.parts # NoParts,
         m.state = "InProgress" => work[c].fresh
  PROVE  Good(c)
<1>1. work[c].key \in ManifestKeys /\ work[c].key.version_id = NullVersion
  BY DEF ServerInv, WorkersOK, Holds
<1>2. PICK k \in TargetKeys(work[c]) :
        /\ PutManifest(k, m)
        /\ used' = used \cup ({k.version_id} \ {NullVersion})
        /\ work' = [work EXCEPT ![c] = Collecting(@, PutManifestFreed(k, m))]
        /\ UNCHANGED <<files, faults>>
  BY DEF Publish
<1>3. /\ k \in ManifestKeys
      /\ k.version_id \notin used
      /\ k.version_id \in VersionIds
      /\ work[c].fresh => IsUploadKey(k)
  <2>1. CASE work[c].fresh
    <3>1. PICK v \in FreshIds : k = [work[c].key EXCEPT !.version_id = v]
      BY <2>1, <1>2 DEF TargetKeys
    <3>2. v \in VersionIds /\ v \notin used /\ v # NullVersion
      BY DEF FreshIds
    <3> QED
      BY <1>1, <3>1, <3>2 DEF ManifestKeys, IsUploadKey
  <2>2. CASE ~ work[c].fresh
    <3>1. k = work[c].key
      BY <2>2, <1>2 DEF TargetKeys
    <3> QED
      BY <1>1, <2>2, <3>1 DEF ManifestKeys, ServerInv, RowsOK
  <2> QED
    BY <2>1, <2>2
<1>4. objects' = [objects EXCEPT ![k] = m] 
      /\ objects \in [ManifestKeys -> Manifests \cup {Absent}]
  BY <1>2 DEF PutManifest, ServerInv, TypeOK, MetaTypeOK
<1>5. CommonStep
  BY <1>2, <1>3 DEF CommonStep, PutStep
<1>6. Kept
  BY <1>2, <1>3, <1>4 DEF Kept
<1>7. RowsOK'
  <2>1. NullVersion \notin used'
    BY <1>2 DEF ServerInv, RowsOK
  <2>2. ASSUME NEW i \in ManifestKeys, objects'[i] # Absent
        PROVE  /\ objects'[i].state = "Committed" /\ objects'[i].kind = "Object"
                    => objects'[i].parts # NoParts
               /\ IsUploadKey(i) => i.version_id \in used'
    <3>1. CASE i = k
      BY <1>2, <1>3, <1>4, <3>1 DEF IsUploadKey
    <3>2. CASE i # k
      BY <1>2, <1>4, <2>2, <3>2 DEF ServerInv, RowsOK
    <3> QED
      BY <3>1, <3>2
  <2> QED
    BY <2>1, <2>2 DEF RowsOK, IsUploadKey
<1>8. PutManifestFreed(k, m) \in SUBSET Hashes
  BY DEF PutManifestFreed, AtZero
<1>9. used' \subseteq VersionIds
  BY <1>2, <1>3 DEF ServerInv, TypeOK
<1> QED
  BY <1>2, <1>5, <1>6, <1>7, <1>8, <1>9, CommitGood

\* A part list that names a hash is not the empty one.
LEMMA SingleNotEmpty ==
  ASSUME NEW n \in PartNumbers, NEW h \in Hashes
  PROVE  Single(n, h) # NoParts
<1>1. Single(n, h)[n] = h /\ NoParts[n] = Absent
  BY DEF Single, NoParts
<1> QED
  BY <1>1, MetaAssumption

\* What a copy writes, field by field.
LEMMA CopyForm ==
  ASSUME NEW s \in Manifests, IsSource(s), NEW tags \in Tags, NEW now \in Times
  PROVE  CopyOf(s, tags, now) =
           [state |-> "Committed", kind |-> "Object", upload_mode |-> s.upload_mode,
            parts |-> s.parts, tags |-> tags, object_lock |-> NoLock,
            last_modified |-> now]
<1> DEFINE m == CopyOf(s, tags, now)
<1>1. NoLock \in Locks
  BY MetaAssumption
<1>2. /\ m \in Manifests /\ m.state = s.state /\ m.kind = s.kind
      /\ m.upload_mode = s.upload_mode /\ m.parts = s.parts /\ m.tags = tags
      /\ m.object_lock = NoLock /\ m.last_modified = now
  BY <1>1 DEF CopyOf, Manifests
<1> HIDE DEF m
<1>3. m.state = "Committed" /\ m.kind = "Object"
  BY <1>2 DEF IsSource
<1>4. m = [state |-> m.state, kind |-> m.kind, upload_mode |-> m.upload_mode,
           parts |-> m.parts, tags |-> m.tags, object_lock |-> m.object_lock,
           last_modified |-> m.last_modified]
  BY <1>2 DEF Manifests
<1> QED
  BY <1>2, <1>3, <1>4 DEF m

\* The four handlers that end in put_manifest.
LEMMA CommitManifestOK ==
  ASSUME ServerInv, NEW c \in Workers,
         CommitPut(c) \/ CommitMarker(c) \/ CommitCopy(c) \/ CommitCreate(c)
  PROVE  Good(c)
<1>0. work[c] \in Work /\ Holds(work[c])
  BY DEF ServerInv, TypeOK, WorkersOK
<1>1. CASE CommitPut(c)
  <2>1. PICK lock \in Locks, tags \in Tags, now \in Times :
          Publish(c, NewObject(work[c].hash, lock, tags, now))
    BY <1>1 DEF CommitPut
  <2>2. work[c].hash \in Hashes
    BY <1>0, <1>1 DEF CommitPut, Holds, Commits
  <2> DEFINE m == NewObject(work[c].hash, lock, tags, now)
  <2>3. m \in SubmittedManifests
    BY <2>2 DEF SubmittedManifests
  <2>4. m.state = "Committed" /\ m.parts # NoParts
    BY <2>2, SingleNotEmpty, MetaAssumption DEF NewObject
  <2> HIDE DEF m
  <2> QED
    BY <1>1, <2>1, <2>3, <2>4, PublishOK DEF CommitPut, m
<1>2. CASE CommitMarker(c)
  <2>1. PICK now \in Times : Publish(c, Tombstone(now))
    BY <1>2 DEF CommitMarker
  <2>2. Tombstone(now) \in SubmittedManifests
    BY DEF SubmittedManifests
  <2>3. Tombstone(now).state = "Committed" /\ Tombstone(now).kind = "Tombstone"
    BY DEF Tombstone
  <2> QED
    BY <1>2, <2>1, <2>2, <2>3, PublishOK DEF CommitMarker
<1>3. CASE CommitCopy(c)
  <2>1. PICK tags \in {work[c].snap.tags, NoTags}, now \in Times :
          Publish(c, CopyOf(work[c].snap, tags, now))
    BY <1>3 DEF CommitCopy
  <2> DEFINE s == work[c].snap
             m == CopyOf(work[c].snap, tags, now)
  <2>2. IsSource(s)
    BY <1>0, <1>3 DEF CommitCopy, Holds, Commits
  <2>3. s \in Manifests /\ tags \in Tags
    BY <2>2, MetaAssumption DEF IsSource, Manifests
  <2>4. m = [state |-> "Committed", kind |-> "Object", upload_mode |-> s.upload_mode,
             parts |-> s.parts, tags |-> tags, object_lock |-> NoLock,
             last_modified |-> now]
    BY <2>2, <2>3, CopyForm
  <2>5. s.upload_mode \in {"SinglePut", "Multipart"} /\ s.parts \in PartLists \ {NoParts}
    BY <2>2, <2>3 DEF IsSource, Manifests
  <2> HIDE DEF m, s
  <2>6. m \in SubmittedManifests
    BY <2>3, <2>4, <2>5 DEF SubmittedManifests
  <2>7. m.state = "Committed" /\ m.parts # NoParts
    BY <2>4, <2>5
  <2> QED
    BY <1>3, <2>1, <2>6, <2>7, PublishOK DEF CommitCopy, m
<1>4. CASE CommitCreate(c)
  <2>1. PICK now \in Times : Publish(c, NewUpload(now))
    BY <1>4 DEF CommitCreate
  <2>2. NewUpload(now) \in SubmittedManifests
    BY DEF SubmittedManifests
  <2>3. NewUpload(now).state = "InProgress"
    BY DEF NewUpload
  <2>4. work[c].fresh
    BY <1>0, <1>4 DEF CommitCreate, Holds, Commits
  <2> QED
    BY <1>4, <2>1, <2>2, <2>3, <2>4, PublishOK DEF CommitCreate
<1> QED
  BY <1>1, <1>2, <1>3, <1>4

\* The three handlers that end in delete_manifest.
LEMMA CommitDeleteOK ==
  ASSUME ServerInv, NEW c \in Workers, CommitDelete(c)
  PROVE  Good(c)
<1> DEFINE k == work[c].key
<1>1. k \in ManifestKeys
  BY DEF CommitDelete, ServerInv, WorkersOK, Holds
<1>2. objects' = [objects EXCEPT ![k] = Absent]
      /\ objects \in [ManifestKeys -> Manifests \cup {Absent}]
  BY DEF CommitDelete, DeleteManifest, ServerInv, TypeOK, MetaTypeOK
<1>3. CommonStep
  BY <1>1 DEF CommitDelete, CommonStep, DeleteStep
<1>4. Kept /\ RowsOK'
  BY <1>1, <1>2 DEF Kept, RowsOK, ServerInv, CommitDelete, IsUploadKey
<1>5. DeleteManifestFreed(k) \in SUBSET Hashes
  BY DEF DeleteManifestFreed, AtZero
<1> QED
  BY <1>3, <1>4, <1>5, CommitGood DEF CommitDelete, ServerInv, TypeOK

\* upload_part and upload_part_copy.
LEMMA CommitUploadPartOK ==
  ASSUME ServerInv, NEW c \in Workers, CommitUploadPart(c)
  PROVE  Good(c)
<1> DEFINE k == work[c].key
           n == work[c].number
           h == work[c].hash
<1>1. k \in ManifestKeys /\ n \in PartNumbers /\ h \in Hashes
  BY DEF CommitUploadPart, ServerInv, WorkersOK, Holds, Commits
<1>2. PICK now \in Times : AppendPart(k, n, h, now)
  BY DEF CommitUploadPart
<1>3. /\ objects' = [objects EXCEPT ![k].parts[n] = h, ![k].last_modified = now]
      /\ objects \in [ManifestKeys -> Manifests \cup {Absent}]
      /\ objects[k] \in Manifests
  BY <1>1, <1>2 DEF AppendPart, ServerInv, TypeOK, MetaTypeOK
<1>4. CommonStep
  BY <1>1, <1>2 DEF CommonStep, AppendStep
<1>5. /\ objects'[k].tags = objects[k].tags
      /\ objects'[k].object_lock = objects[k].object_lock
      /\ objects'[k].parts[n] = h
      /\ \A i \in ManifestKeys : i # k => objects'[i] = objects[i]
  BY <1>1, <1>3 DEF Manifests, PartLists
<1>6. objects'[k].parts # NoParts
  <2>1. NoParts[n] = Absent
    BY <1>1 DEF NoParts
  <2> QED
    BY <1>1, <1>5, <2>1, MetaAssumption
<1>7. objects[k] # Absent
  BY <1>2 DEF AppendPart
<1>8. UNCHANGED used /\ used \subseteq VersionIds
  BY DEF CommitUploadPart, ServerInv, TypeOK
<1>9. AppendPartFreed(k, n, h) \in SUBSET Hashes
  BY DEF AppendPartFreed, AtZero
<1>10. /\ work' = [work EXCEPT ![c] = Collecting(work[c], AppendPartFreed(k, n, h))]
       /\ UNCHANGED <<files, faults>>
  BY DEF CommitUploadPart
<1> HIDE DEF k, n, h
<1>11. Kept
  BY <1>1, <1>5, <1>7, <1>8 DEF Kept
<1>12. RowsOK'
  BY <1>1, <1>5, <1>6, <1>7, <1>8 DEF RowsOK, ServerInv, IsUploadKey
<1> QED
  BY <1>4, <1>8, <1>9, <1>10, <1>11, <1>12, CommitGood

\* complete_multipart_upload: what it commits is the upload, completed, because
\* tags and lock have not changed since it was read.
LEMMA CommitCompleteOK ==
  ASSUME ServerInv, NEW c \in Workers, CommitComplete(c)
  PROVE  Good(c)
<1> DEFINE k == work[c].key
           m == work[c].snap
           ck == CompletedKey(k)
<1>1. k \in ManifestKeys /\ IsSource(m) /\ m.upload_mode = "Multipart" /\ IsUploadKey(k)
  BY DEF CommitComplete, ServerInv, WorkersOK, Holds, Commits
<1>2. CompleteMultipart(k, ck, m)
  BY DEF CommitComplete
<1>3. /\ objects' = [objects EXCEPT ![ck] = m, ![k] = Absent]
      /\ objects \in [ManifestKeys -> Manifests \cup {Absent}]
      /\ objects[k] \in Manifests
  BY <1>1, <1>2 DEF CompleteMultipart, ServerInv, TypeOK, MetaTypeOK
<1>4. m.tags = objects[k].tags /\ m.object_lock = objects[k].object_lock
  BY <1>2 DEF CommitComplete, CompleteMultipart, ServerInv, WorkersOK, SnapshotFits
<1>5. ck \in ManifestKeys /\ ck.version_id = NullVersion /\ ck # k
  BY <1>1, MetaAssumption DEF CompletedKey, ManifestKeys, IsUploadKey
<1>6. UNCHANGED used /\ used \subseteq VersionIds
  BY DEF CommitComplete, ServerInv, TypeOK
<1>7. CompleteMultipartFreed(k, ck, m) \in SUBSET Hashes
  BY DEF CompleteMultipartFreed, AtZero
<1>8. /\ work' = [work EXCEPT ![c] = Collecting(work[c], CompleteMultipartFreed(k, ck, m))]
      /\ UNCHANGED <<files, faults>>
  BY DEF CommitComplete
<1> HIDE DEF k, m, ck
<1>9. CommonStep
  <2>1. m \in Manifests /\ m.state = "Committed" /\ m.kind = "Object" /\ m.parts # NoParts
    BY <1>1 DEF IsSource
  <2>2. m.parts \in PartLists \ {NoParts} /\ m.last_modified \in Times
    BY <2>1 DEF Manifests
  <2>3. Completed(objects[k], m.parts, m.last_modified) = m
    BY <1>1, <1>3, <1>4, <2>1 DEF Completed, Manifests
  <2>4. CompleteMultipart(k, CompletedKey(k), Completed(objects[k], m.parts, m.last_modified))
    BY <1>2, <2>3 DEF ck
  <2> QED
    BY <1>1, <2>2, <2>4 DEF CommonStep, CompleteStep
<1>10. /\ objects'[k] = Absent /\ objects'[ck] = m
       /\ \A i \in ManifestKeys : i # k /\ i # ck => objects'[i] = objects[i]
  BY <1>1, <1>3, <1>5
<1>11. Kept
  BY <1>5, <1>6, <1>10 DEF Kept, ServerInv, RowsOK
<1>12. RowsOK'
  BY <1>1, <1>5, <1>6, <1>10 DEF RowsOK, ServerInv, IsUploadKey, IsSource
<1> QED
  BY <1>6, <1>7, <1>8, <1>9, <1>11, <1>12, CommitGood

------------------------------------------------------------------------------
(* Garbage collection and faults.                                          *)

\* The collectors mark, skip, unlink and remove.
LEMMA CollectOK ==
  ASSUME ServerInv, NEW w \in Workers, Collect(w)
  PROVE  Good(w)
<1>0. /\ work[w] \in Work /\ Holds(work[w]) /\ work \in [Workers -> Work]
      /\ files \subseteq Hashes /\ faults \in 0..MaxFaults /\ used \subseteq VersionIds
      /\ work[w].freed \in SUBSET Hashes
  BY DEF ServerInv, TypeOK, WorkersOK, Work
<1>1. CASE GcMark(w)
  <2>1. PICK h \in work[w].freed :
          /\ MarkGcPending(h)
          /\ work' = [work EXCEPT ![w].pc = "unlink", ![w].cur = h, ![w].freed = @ \ {h}]
    BY <1>1 DEF GcMark
  <2> DEFINE r == [work[w] EXCEPT !.pc = "unlink", !.cur = h, !.freed = @ \ {h}]
  <2>2. h \in Hashes
    BY <1>0
  <2>3. r \in Work /\ r.pc = "unlink" /\ r.cur = h
    BY <1>0, <2>2 DEF Work, Pcs
  <2>4. work' = [work EXCEPT ![w] = r] /\ work'[w] = r
    BY <1>0, <2>1
  <2> HIDE DEF r
  <2>5. Holds(work[w])' /\ SnapshotFits(work[w])'
    BY <2>2, <2>3, <2>4 DEF Holds, SnapshotFits
  <2>6. CommonStep
    BY <2>1, <2>2 DEF CommonStep, MarkStep
  <2>7. UNCHANGED <<objects, used, files, faults>>
    BY <1>1, <2>1 DEF GcMark, MarkGcPending
  <2>8. Kept /\ RowsOK'
    BY <2>7 DEF Kept, RowsOK, ServerInv
  <2>9. work' = [work EXCEPT ![w] = work'[w]]
    BY <2>4
  <2> QED
    BY <1>0, <2>3, <2>4, <2>5, <2>6, <2>7, <2>8, <2>9 DEF Good, StepOK, StoreStep
<1>2. CASE GcSkip(w)
  <2>1. PICK h \in work[w].freed :
          work' = [work EXCEPT ![w] = Collecting(work[w], work[w].freed \ {h})]
    BY <1>2 DEF GcSkip
  <2> DEFINE r == Collecting(work[w], work[w].freed \ {h})
  <2>2. r \in Work /\ Holds(r) /\ SnapshotFits(r)
    BY <1>0, CollectingOK
  <2> HIDE DEF r
  <2> QED
    BY <1>0, <1>2, <2>1, <2>2, QuietGood DEF GcSkip, r
<1>3. CASE GcUnlink(w)
  <2> DEFINE r == [work[w] EXCEPT !.pc = "remove"]
  <2>1. r \in Work /\ r.pc = "remove" /\ r.cur = work[w].cur
    BY <1>0 DEF Work, Pcs
  <2>2. work' = [work EXCEPT ![w] = r]
    BY <1>0, <1>3 DEF GcUnlink
  <2> HIDE DEF r
  <2>3. Holds(r) /\ SnapshotFits(r)
    BY <1>0, <1>3, <2>1 DEF GcUnlink, Holds, SnapshotFits
  <2> QED
    BY <1>0, <1>3, <2>1, <2>2, <2>3, QuietGood DEF GcUnlink
<1>4. CASE GcRemove(w)
  <2>1. UNCHANGED <<objects, used, files, faults>>
    BY <1>4 DEF GcRemove, RemovePart
  <2>2. Kept /\ RowsOK'
    BY <2>1 DEF Kept, RowsOK, ServerInv
  <2>3. work' = [work EXCEPT ![w] = Collecting(work[w], work[w].freed)]
    BY <1>4 DEF GcRemove
  <2> QED
    BY <1>0, <1>4, <2>1, <2>2, <2>3, CommitGood
<1> QED
  BY <1>1, <1>2, <1>3, <1>4 DEF Collect

\* A step of one worker: it starts, goes on, is refused, fails or is dropped.
LEMMA WorkerOK ==
  ASSUME ServerInv, NEW w \in Workers,
         Continue(w) \/ GcUnlinkFails(w) \/ Disconnect(w)
  PROVE  Good(w)
<1>0. /\ work[w] \in Work /\ Holds(work[w]) /\ work \in [Workers -> Work]
      /\ files \subseteq Hashes /\ faults \in 0..MaxFaults
      /\ work[w].freed \in SUBSET Hashes
  BY DEF ServerInv, TypeOK, WorkersOK, Work
<1>1. CASE Continue(w)
  <2>1. CASE CommitRefused(w)
    BY <1>0, <2>1, IdleOK, QuietGood DEF CommitRefused
  <2> QED
    BY <1>1, <2>1, MiddleOK, CommitManifestOK, CommitDeleteOK, CommitUploadPartOK,
       CommitCompleteOK, CollectOK DEF Continue, Commit
<1>2. CASE GcUnlinkFails(w)
  <2> DEFINE r == [work[w] EXCEPT !.pc = "remove"]
             s == Collecting(work[w], work[w].freed)
  <2>1. r \in Work /\ r.pc = "remove" /\ r.cur = work[w].cur
    BY <1>0 DEF Work, Pcs
  <2>2. s \in Work /\ Holds(s) /\ SnapshotFits(s)
    BY <1>0, CollectingOK
  <2>3. work' = [work EXCEPT ![w] = r] \/ work' = [work EXCEPT ![w] = s]
    BY <1>0, <1>2 DEF GcUnlinkFails
  <2>4. faults' \in 0..MaxFaults
    BY <1>0, <1>2, ObjectAssumption DEF GcUnlinkFails
  <2> HIDE DEF r, s
  <2>5. Holds(r) /\ SnapshotFits(r)
    BY <1>0, <1>2, <2>1 DEF GcUnlinkFails, Holds, SnapshotFits
  <2> QED
    BY <1>0, <1>2, <2>1, <2>2, <2>3, <2>4, <2>5, QuietGood DEF GcUnlinkFails
<1>3. CASE Disconnect(w)
  <2>1. faults' \in 0..MaxFaults
    BY <1>0, <1>3, ObjectAssumption DEF Disconnect
  <2> QED
    BY <1>0, <1>3, <2>1, IdleOK, QuietGood DEF Disconnect
<1> QED
  BY <1>1, <1>2, <1>3

\* The maintenance task takes up the orphans it has been given.
LEMMA SweepStartOK ==
  ASSUME ServerInv, SweepStart
  PROVE  Good(Sweeper)
<1> DEFINE r == [Idle EXCEPT !.op = "sweep", !.pc = "gc", !.freed = ListOrphanParts]
<1>1. r \in Work /\ r.pc = "gc" /\ r.op = "sweep"
  BY DEF Work, Idle, Pcs, ListOrphanParts
<1>2. Start(Sweeper, r) /\ Sweeper \in Workers
  BY DEF SweepStart, Workers
<1> HIDE DEF r
<1>3. Holds(r) /\ SnapshotFits(r)
  BY <1>1 DEF Holds, SnapshotFits
<1> QED
  BY <1>1, <1>2, <1>3, StartOK

\* A bucket request changes no object.
LEMMA BucketRequestOK ==
  ASSUME ServerInv, BucketRequest
  PROVE  StepOK /\ ServerInv'
<1>1. UNCHANGED <<objects, files, used, work, faults>>
  BY DEF BucketRequest, CreateBucket, DeleteBucket, UpdateBucketVersioning
<1>2. CommonStep
  BY DEF BucketRequest, CommonStep, BucketStep, VersioningStates
<1>3. Kept /\ RowsOK'
  BY <1>1 DEF Kept, RowsOK, ServerInv
<1>4. MetaTypeOK' /\ UploadsHaveIds'
  BY <1>2, StoreTypes DEF ServerInv, TypeOK, MetaNext
<1>5. WorkersOK'
  BY <1>1 DEF ServerInv, WorkersOK, Holds, SnapshotFits, Commits
<1> QED
  BY <1>1, <1>2, <1>3, <1>4, <1>5 DEF ServerInv, TypeOK, StepOK, StoreStep

\* A crash forgets what every worker was doing, and nothing else.
LEMMA CrashOK ==
  ASSUME ServerInv, Crash
  PROVE  StepOK /\ ServerInv'
<1>1. UNCHANGED <<buckets, objects, parts, files, used>>
  BY DEF Crash
<1>2. StepOK
  BY <1>1, QuietStep
<1>3. MetaTypeOK' /\ UploadsHaveIds'
  BY <1>2, StoreTypes, StoreStepIsStep DEF StepOK, ServerInv, TypeOK
<1>4. \A w \in Workers : work'[w] = Idle
  BY DEF Crash
<1>5. Idle.pc = "idle"
  BY DEF Idle
<1>6. WorkersOK'
  BY <1>4, <1>5 DEF WorkersOK, Holds, SnapshotFits
<1>7. work' \in [Workers -> Work]
  BY IdleOK DEF Crash
<1>8. faults' \in 0..MaxFaults
  BY ObjectAssumption DEF Crash, ServerInv, TypeOK
<1> QED
  BY <1>1, <1>2, <1>3, <1>6, <1>7, <1>8 DEF ServerInv, TypeOK, StepOK

------------------------------------------------------------------------------
(* The theorems.                                                           *)

\* Initially nothing is stored and nobody is at work.
LEMMA InitOK ==
  ASSUME Init
  PROVE  MetaInit /\ ServerInv
<1>1. MetaInit /\ files = {} /\ used = {} /\ faults = 0
      /\ \A w \in Workers : work[w] = Idle
  BY DEF Init
<1>2. MetaTypeOK /\ UploadsHaveIds /\ RowsOK
  BY <1>1 DEF MetaInit, MetaTypeOK, UploadsHaveIds, RowsOK
<1>3. WorkersOK
  BY <1>1, IdleOK DEF WorkersOK
<1>4. work \in [Workers -> Work]
  BY IdleOK DEF Init
<1> QED
  BY <1>1, <1>2, <1>3, <1>4, ObjectAssumption DEF ServerInv, TypeOK

\* Every step keeps the invariant and is a step of the store.
LEMMA ServerStep ==
  ASSUME ServerInv, [Next]_vars
  PROVE  StepOK /\ ServerInv'
<1>1. ASSUME NEW w \in Workers, Good(w)
      PROVE  StepOK /\ ServerInv'
  BY <1>1, GoodInv DEF Good
<1>2. CASE UNCHANGED vars
  <2>1. StepOK
    BY <1>2, QuietStep DEF vars
  <2> QED
    BY <1>2, <2>1 DEF vars, ServerInv, TypeOK, MetaTypeOK, UploadsHaveIds, RowsOK, WorkersOK,
         Holds, SnapshotFits, Commits
<1>3. ASSUME NEW c \in Clients, Begin(c) \/ Disconnect(c)
      PROVE  StepOK /\ ServerInv'
  <2>1. c \in Workers
    BY DEF Workers
  <2> QED
    BY <1>1, <1>3, <2>1, BeginOK, WorkerOK
<1>4. ASSUME NEW w \in Workers, Continue(w) \/ GcUnlinkFails(w)
      PROVE  StepOK /\ ServerInv'
  BY <1>1, <1>4, WorkerOK
<1>5. CASE SweepStart
  <2>1. Sweeper \in Workers
    BY DEF Workers
  <2> QED
    BY <1>1, <1>5, <2>1, SweepStartOK
<1> QED
  BY <1>2, <1>3, <1>4, <1>5, BucketRequestOK, CrashOK DEF Next

\* The invariant holds in every behaviour of the server.
LEMMA ServerInvariant == Spec => []ServerInv
<1>1. Init => ServerInv
  BY InitOK
<1>2. ServerInv /\ [Next]_vars => ServerInv'
  BY ServerStep
<1> QED
  BY <1>1, <1>2, PTL DEF Spec

\* Every table and every worker always holds values of its type, whatever the
\* requests, the interleaving of their awaits and the faults.
THEOREM ServerTypeCorrect == Spec => []TypeOK
<1>1. ServerInv => TypeOK
  BY DEF ServerInv
<1> QED
  BY <1>1, ServerInvariant, PTL

\* The server with its handlers, collectors, disconnects and crashes implements
\* the metadata store under any sequence of calls: what handlers submit, after any
\* number of awaits, is always something that specification expects.
THEOREM ServerImplementsStore == Spec => MetaSpec
<1>1. Init => MetaInit
  BY InitOK
<1>2. ServerInv /\ [Next]_vars => [MetaNext]_metaVars
  BY ServerStep, StoreStepIsStep DEF StepOK
<1> QED
  BY <1>1, <1>2, ServerInvariant, PTL DEF Spec, MetaSpec

\* No deleted, aborted or completed version or upload comes back under the id
\* that was handed out for it, for every set of clients and every fault.
THEOREM NothingResurrected == Spec => NoResurrection
<1>1. ServerInv /\ [Next]_vars
        => [\A k \in ManifestKeys :
              k.version_id \in used /\ objects[k] = Absent => objects'[k] = Absent]_vars
  BY ServerStep DEF StepOK, Kept
<1> QED
  BY <1>1, ServerInvariant, PTL DEF Spec, NoResurrection

\* Hence no refcount of the server exceeds the number of references.
THEOREM ServerRefcountBound == Spec => []RefcountNeverOverstates
BY ServerImplementsStore, RefcountBound, PTL

\* And no step of the server, of any worker, adds a reference to a part that GC
\* has marked.
THEOREM ServerInterlock == Spec => NoNewReferenceToPending
BY ServerImplementsStore, InterlockHolds, PTL

------------------------------------------------------------------------------
(* The server with one worker at a time: the order in which one request,   *)
(* or one sweep, does its steps keeps every object's data on disk, through *)
(* every fault, and follows the GC protocol.  With two workers it does not *)
(* (the run lost_data), so MaxInFlight <= 1 is a hypothesis here.          *)

\* Every entry of a list has its file.
OnDisk(list) == \A n \in PartNumbers : list[n] # Absent => list[n] \in files

RowsOnDisk == \A k \in ManifestKeys : OnDisk(PartsOf(objects[k]))

\* At most one worker is active.
Solo == \A v, w \in Workers : work[v].pc # "idle" /\ work[w].pc # "idle" => v = w

\* Everything that the transaction of r will name has its file.
HasData(r) ==
  r.pc = "commit"
    => /\ r.op \in {"put", "uploadPart", "uploadPartCopy"} => r.hash \in files
       /\ r.op \in {"copy", "complete"} => OnDisk(r.snap.parts)

\* A part whose file is being deleted is marked; once the file is gone only its
\* row is left, unless the unlink has failed.
Deleting(r) ==
  /\ r.pc \in {"unlink", "remove"} => GcPending(r.cur)
  /\ r.pc = "remove" => r.cur \notin files \/ faults > 0

\* A worker names a part only while it stores or deletes it.
Tidy(r) ==
  /\ r.cur # Absent => r.pc \in {"unlink", "remove"}
  /\ r.hash # Absent => /\ r.pc \in {"write", "commit"}
                        /\ r.op \in {"put", "uploadPart", "uploadPartCopy"}

SoloOK == \A w \in Workers : HasData(work[w]) /\ Deleting(work[w]) /\ Tidy(work[w])

\* The maintenance task only collects.
SweeperCollects == work[Sweeper].pc \in {"idle", "gc", "unlink", "remove"}

SeqInv == ServerInv /\ ProtocolInv /\ Solo /\ SoloOK /\ SweeperCollects /\ RowsOnDisk

------------------------------------------------------------------------------
(* What a step of the only active worker has to do.                        *)

Alone(w) == \A v \in Workers : v # w => work[v].pc = "idle"

\* The step leaves no file that nobody will take care of, but by a fault or by
\* the refusal of a part upload.
NoLeak ==
  \A h \in Hashes :
    Accounted(h) /\ ~ Accounted(h)' /\ h \in files'
      => faults' > 0 \/ \E c \in Clients : UploadRefused(c)

Fine(w) ==
  /\ HasData(work[w])' /\ Deleting(work[w])' /\ Tidy(work[w])'
  /\ w = Sweeper => work'[w].pc \in {"idle", "gc", "unlink", "remove"}
  /\ RowsOnDisk' /\ NoLeak

\* Every step on the tables follows the GC protocol: the row that remove_part drops
\* is still marked, because nobody else has done anything since.
LEMMA StepIsDisciplined ==
  ASSUME SeqInv, StoreStep
  PROVE  [DisciplinedNext]_metaVars
<1>1. CASE [CommonStep]_metaVars
  BY <1>1 DEF DisciplinedNext
<1>2. ASSUME NEW w \in Workers, GcRemove(w)
      PROVE  DisciplinedNext
  <2>1. work[w].cur \in Hashes /\ GcPending(work[w].cur)
    BY <1>2 DEF GcRemove, SeqInv, ServerInv, WorkersOK, Holds, SoloOK, Deleting
  <2> QED
    BY <1>2, <2>1 DEF GcRemove, DisciplinedNext, DisciplinedRemove, GcPending
<1> QED
  BY <1>1, <1>2 DEF StoreStep

\* A worker that is not idle is the only one.
LEMMA ActiveIsAlone ==
  ASSUME Solo, NEW w \in Workers, work[w].pc # "idle"
  PROVE  Alone(w)
BY DEF Solo, Alone

\* A worker starts only when all are idle.
LEMMA StartIsAlone ==
  ASSUME MaxInFlight <= 1, Solo, NEW w \in Workers, NEW r, Start(w, r)
  PROVE  \A v \in Workers : work[v].pc = "idle"
<1> SUFFICES ASSUME NEW v \in Workers, work[v].pc # "idle"
             PROVE  FALSE
  OBVIOUS
<1>1. Active = {v}
  BY DEF Active, Solo
<1>2. Cardinality(Active) = 1
  BY <1>1, FS_Singleton
<1> QED
  BY <1>2, ObjectAssumption DEF Start

\* The invariant after such a step.
LEMMA FineInv ==
  ASSUME SeqInv, ProtocolInv', NEW w \in Workers, Alone(w), Good(w), Fine(w)
  PROVE  SeqInv'
<1>1. ServerInv'
  BY GoodInv DEF SeqInv
<1>2. \A v \in Workers : v # w => work'[v] = work[v] /\ work[v].pc = "idle"
  BY DEF Good, Alone, SeqInv, ServerInv, TypeOK
<1>3. Solo'
  BY <1>2 DEF Solo
<1>4. SoloOK'
  <2> SUFFICES ASSUME NEW v \in Workers
               PROVE  HasData(work[v])' /\ Deleting(work[v])' /\ Tidy(work[v])'
    BY DEF SoloOK
  <2>1. CASE v = w
    BY <2>1 DEF Fine
  <2>2. CASE v # w
    BY <1>2, <2>2 DEF HasData, Deleting, Tidy, SeqInv, SoloOK
  <2> QED
    BY <2>1, <2>2
<1>5. SweeperCollects'
  <2>1. Sweeper \in Workers
    BY DEF Workers
  <2> QED
    BY <1>2, <2>1 DEF Fine, SweeperCollects
<1> QED
  BY <1>1, <1>3, <1>4, <1>5 DEF SeqInv, Fine

\* With one worker active, only it can account for a file without a row.
LEMMA AccountedAlone ==
  ASSUME SeqInv, NEW w \in Workers, Alone(w), NEW h \in Hashes
  PROVE  Accounted(h) <=> parts[h] # Absent \/ work[w].hash = h \/ work[w].cur = h
<1>1. ASSUME NEW v \in Workers, v # w
      PROVE  work[v].hash = Absent /\ work[v].cur = Absent
  BY <1>1 DEF Alone, SeqInv, SoloOK, Tidy
<1> QED
  BY <1>1, MetaAssumption DEF Accounted

\* A worker that has nothing in hand any more.
Settled(r) == r.pc \in {"idle", "gc"} /\ r.hash = Absent /\ r.cur = Absent

\* Such is one that is done or goes on collecting.
LEMMA CollectingSettled ==
  ASSUME NEW r, NEW freed
  PROVE  Settled(Collecting(r, freed)) /\ Settled(Idle)
BY DEF Settled, Collecting, Idle

\* A step that leaves the tables and the files alone, from and to a place where the
\* worker names no part.
LEMMA QuietFine ==
  ASSUME SeqInv, NEW w \in Workers, Alone(w), NEW r, work' = [work EXCEPT ![w] = r],
         work[w].hash = Absent, work[w].cur = Absent,
         HasData(r), Tidy(r), r.pc \notin {"unlink", "remove"},
         w = Sweeper => r.pc \in {"idle", "gc"},
         UNCHANGED <<objects, parts, files>>
  PROVE  Fine(w)
<1>1. work'[w] = r
  BY DEF SeqInv, ServerInv, TypeOK
<1>2. HasData(work[w])' /\ Deleting(work[w])' /\ Tidy(work[w])'
  BY <1>1 DEF HasData, Deleting, Tidy, OnDisk
<1>3. RowsOnDisk'
  BY DEF SeqInv, RowsOnDisk, OnDisk
<1>4. ASSUME NEW h \in Hashes, Accounted(h)
      PROVE  Accounted(h)'
  BY <1>4, AccountedAlone, MetaAssumption DEF Accounted
<1> QED
  BY <1>1, <1>2, <1>3, <1>4 DEF Fine, NoLeak

------------------------------------------------------------------------------
(* Requests, copies and bodies.                                            *)

\* A request that starts has nothing on disk to lose.
LEMMA StartFine ==
  ASSUME SeqInv, NEW w \in Workers, Alone(w), NEW r, Start(w, r), HasData(r), Tidy(r),
         r.pc \notin {"unlink", "remove"}, w = Sweeper => r.pc \in {"idle", "gc"}
  PROVE  Fine(w)
<1>1. work[w].hash = Absent /\ work[w].cur = Absent
  BY DEF Start, SeqInv, SoloOK, Tidy
<1> QED
  BY <1>1, QuietFine DEF Start

\* Every request.  A completion selects from the parts of its upload, whose files
\* are there.
LEMMA BeginFine ==
  ASSUME MaxInFlight <= 1, SeqInv, NEW c \in Clients, Begin(c)
  PROVE  Fine(c) /\ Alone(c)
<1>0. c \in Workers /\ c # Sweeper
  BY ObjectAssumption DEF Workers
<1>1. ASSUME NEW r, Start(c, r), HasData(r), Tidy(r), r.pc \notin {"unlink", "remove"}
      PROVE  Fine(c) /\ Alone(c)
  <2>1. Alone(c)
    BY <1>0, <1>1, StartIsAlone DEF SeqInv, Alone
  <2> QED
    BY <1>0, <1>1, <2>1, StartFine
<1>2. CASE BeginPut(c)
  <2>1. PICK b \in Buckets, key \in Keys, h \in Hashes :
          Start(c, [Request("put", "write", NullKey(b, key)) EXCEPT
                      !.hash = h, !.fresh = NeedsId(b)])
    BY <1>2 DEF BeginPut
  <2> DEFINE r == [Request("put", "write", NullKey(b, key)) EXCEPT
                     !.hash = h, !.fresh = NeedsId(b)]
  <2>2. HasData(r) /\ Tidy(r) /\ r.pc \notin {"unlink", "remove"}
    BY DEF HasData, Tidy, Request, Idle
  <2> HIDE DEF r
  <2> QED
    BY <1>1, <2>1, <2>2 DEF r
<1>3. CASE BeginDelete(c)
  <2>1. PICK b \in Buckets, key \in Keys :
          Start(c, [Request(IF buckets[b].versioning = "Off" THEN "delete" ELSE "marker",
                            "commit", NullKey(b, key)) EXCEPT !.fresh = NeedsId(b)])
    BY <1>3 DEF BeginDelete
  <2> DEFINE r == [Request(IF buckets[b].versioning = "Off" THEN "delete" ELSE "marker",
                           "commit", NullKey(b, key)) EXCEPT !.fresh = NeedsId(b)]
  <2>2. HasData(r) /\ Tidy(r) /\ r.pc \notin {"unlink", "remove"}
    BY DEF HasData, Tidy, Request, Idle
  <2> HIDE DEF r
  <2> QED
    BY <1>1, <2>1, <2>2 DEF r
<1>4. CASE BeginDeleteVersion(c)
  <2>1. PICK k \in ManifestKeys : Start(c, Request("deleteVersion", "commit", k))
    BY <1>4 DEF BeginDeleteVersion
  <2> DEFINE r == Request("deleteVersion", "commit", k)
  <2>2. HasData(r) /\ Tidy(r) /\ r.pc \notin {"unlink", "remove"}
    BY DEF HasData, Tidy, Request, Idle
  <2> HIDE DEF r
  <2> QED
    BY <1>1, <2>1, <2>2 DEF r
<1>5. CASE BeginCopy(c)
  <2>1. PICK b \in Buckets, key \in Keys :
          Start(c, [Request("copy", "resolve", NullKey(b, key)) EXCEPT
                      !.fresh = NeedsId(b)])
    BY <1>5 DEF BeginCopy
  <2> DEFINE r == [Request("copy", "resolve", NullKey(b, key)) EXCEPT !.fresh = NeedsId(b)]
  <2>2. HasData(r) /\ Tidy(r) /\ r.pc \notin {"unlink", "remove"}
    BY DEF HasData, Tidy, Request, Idle
  <2> HIDE DEF r
  <2> QED
    BY <1>1, <2>1, <2>2 DEF r
<1>6. CASE BeginCreate(c)
  <2>1. PICK b \in Buckets, key \in Keys :
          Start(c, [Request("create", "commit", NullKey(b, key)) EXCEPT !.fresh = TRUE])
    BY <1>6 DEF BeginCreate
  <2> DEFINE r == [Request("create", "commit", NullKey(b, key)) EXCEPT !.fresh = TRUE]
  <2>2. HasData(r) /\ Tidy(r) /\ r.pc \notin {"unlink", "remove"}
    BY DEF HasData, Tidy, Request, Idle
  <2> HIDE DEF r
  <2> QED
    BY <1>1, <2>1, <2>2 DEF r
<1>7. CASE BeginUploadPart(c)
  <2>1. PICK k \in ManifestKeys, n \in PartNumbers, h \in Hashes :
          Start(c, [Request("uploadPart", "write", k) EXCEPT !.number = n, !.hash = h])
    BY <1>7 DEF BeginUploadPart
  <2> DEFINE r == [Request("uploadPart", "write", k) EXCEPT !.number = n, !.hash = h]
  <2>2. HasData(r) /\ Tidy(r) /\ r.pc \notin {"unlink", "remove"}
    BY DEF HasData, Tidy, Request, Idle
  <2> HIDE DEF r
  <2> QED
    BY <1>1, <2>1, <2>2 DEF r
<1>8. CASE BeginUploadPartCopy(c)
  <2>1. PICK k \in ManifestKeys, n \in PartNumbers :
          Start(c, [Request("uploadPartCopy", "resolve", k) EXCEPT !.number = n])
    BY <1>8 DEF BeginUploadPartCopy
  <2> DEFINE r == [Request("uploadPartCopy", "resolve", k) EXCEPT !.number = n]
  <2>2. HasData(r) /\ Tidy(r) /\ r.pc \notin {"unlink", "remove"}
    BY DEF HasData, Tidy, Request, Idle
  <2> HIDE DEF r
  <2> QED
    BY <1>1, <2>1, <2>2 DEF r
<1>9. CASE BeginComplete(c)
  <2>1. PICK k \in ManifestKeys, now \in Times :
          /\ objects[k] # Absent
          /\ \E sel \in Selections(objects[k].parts) :
               Start(c, [Request("complete", "commit", k) EXCEPT
                           !.snap = Completed(objects[k], sel, now)])
    BY <1>9 DEF BeginComplete
  <2>2. PICK sel \in Selections(objects[k].parts) :
          Start(c, [Request("complete", "commit", k) EXCEPT
                      !.snap = Completed(objects[k], sel, now)])
    BY <2>1
  <2> DEFINE m == Completed(objects[k], sel, now)
             r == [Request("complete", "commit", k) EXCEPT !.snap = m]
  <2>3. objects[k] \in Manifests /\ sel \in PartLists
    BY <2>1 DEF SeqInv, ServerInv, TypeOK, MetaTypeOK, Selections
  <2>4. m.parts = sel
    BY <2>3 DEF Completed, Manifests
  <2>5. OnDisk(sel)
    <3>1. OnDisk(objects[k].parts)
      BY <2>1 DEF SeqInv, RowsOnDisk, PartsOf
    <3> QED
      BY <3>1 DEF OnDisk, Selections
  <2>6. /\ r.pc = "commit" /\ r.op = "complete" /\ r.snap = m
        /\ r.hash = Absent /\ r.cur = Absent
    BY DEF Request, Idle
  <2>7. Start(c, r)
    BY <2>2
  <2> HIDE DEF m, r
  <2> QED
    BY <1>1, <2>4, <2>5, <2>6, <2>7 DEF HasData, Tidy
<1>10. CASE BeginAbort(c)
  <2>1. PICK k \in ManifestKeys : Start(c, Request("abort", "commit", k))
    BY <1>10 DEF BeginAbort
  <2> DEFINE r == Request("abort", "commit", k)
  <2>2. HasData(r) /\ Tidy(r) /\ r.pc \notin {"unlink", "remove"}
    BY DEF HasData, Tidy, Request, Idle
  <2> HIDE DEF r
  <2> QED
    BY <1>1, <2>1, <2>2 DEF r
<1> QED
  BY <1>2, <1>3, <1>4, <1>5, <1>6, <1>7, <1>8, <1>9, <1>10 DEF Begin

\* What follows from the place a worker is at, for the one that takes a step.
LEMMA AtPlace ==
  ASSUME SeqInv, NEW w \in Workers
  PROVE  /\ work[w] \in Work /\ work \in [Workers -> Work] /\ Holds(work[w])
         /\ HasData(work[w]) /\ Deleting(work[w]) /\ Tidy(work[w])
         /\ files \subseteq Hashes /\ faults \in 0..MaxFaults
         /\ objects \in ObjectTables /\ parts \in PartTables
         /\ work[w].pc \in {"write", "resolve", "read", "commit"} => w # Sweeper
         /\ work[w].pc # "idle" => Alone(w)
BY ActiveIsAlone DEF SeqInv, ServerInv, TypeOK, MetaTypeOK, WorkersOK, SoloOK, ObjectTables,
     PartTables, SweeperCollects

\* The steps between the first await and the transaction.
LEMMA MiddleFine ==
  ASSUME SeqInv, NEW c \in Workers,
         Resolve(c) \/ ResolveFails(c) \/ ReadSource(c) \/ WriteBytes(c)
  PROVE  Fine(c) /\ Alone(c)
<1>0. /\ work[c] \in Work /\ work \in [Workers -> Work] /\ Holds(work[c]) /\ Tidy(work[c])
      /\ work[c].pc \in {"write", "resolve", "read"} /\ c # Sweeper /\ Alone(c)
  BY AtPlace DEF Resolve, ResolveFails, ReadSource, WriteBytes
<1>1. CASE Resolve(c)
  <2>1. PICK k \in Sources :
          work' = [work EXCEPT ![c].snap = objects[k],
                               ![c].pc = IF work[c].op = "copy" THEN "commit" ELSE "read"]
    BY <1>1 DEF Resolve
  <2> DEFINE pc == IF work[c].op = "copy" THEN "commit" ELSE "read"
             r == [work[c] EXCEPT !.snap = objects[k], !.pc = pc]
  <2>2. k \in ManifestKeys /\ objects[k] # Absent
    BY DEF Sources
  <2>3. OnDisk(objects[k].parts)
    BY <2>2 DEF SeqInv, RowsOnDisk, PartsOf
  <2>4. pc \in {"commit", "read"} /\ (pc = "commit" <=> work[c].op = "copy")
    OBVIOUS
  <2> HIDE DEF pc
  <2>5. r.op = work[c].op /\ r.snap = objects[k] /\ r.pc = pc /\ r.hash = work[c].hash
        /\ r.cur = work[c].cur
    BY <1>0 DEF Work
  <2>6. work' = [work EXCEPT ![c] = r]
    BY <1>0, <2>1 DEF pc
  <2>7. work[c].hash = Absent /\ work[c].cur = Absent
    BY <1>0, <1>1 DEF Resolve, Tidy
  <2> HIDE DEF r
  <2>8. HasData(r) /\ Tidy(r) /\ r.pc \notin {"unlink", "remove"}
    BY <2>3, <2>4, <2>5, <2>7 DEF HasData, Tidy
  <2> QED
    BY <1>0, <1>1, <2>6, <2>7, <2>8, QuietFine DEF Resolve
<1>2. ASSUME work[c].pc # "write", work' = [work EXCEPT ![c] = Idle],
             UNCHANGED <<objects, parts, files>>
      PROVE  Fine(c)
  <2>1. work[c].hash = Absent /\ work[c].cur = Absent
    BY <1>0, <1>2 DEF Tidy
  <2>2. HasData(Idle) /\ Tidy(Idle) /\ Idle.pc \notin {"unlink", "remove"}
    BY CollectingSettled DEF HasData, Tidy, Settled
  <2> QED
    BY <1>0, <1>2, <2>1, <2>2, QuietFine
<1>3. CASE ResolveFails(c)
  BY <1>0, <1>2, <1>3 DEF ResolveFails
<1>4. CASE ReadSource(c)
  <2>1. PICK n \in PartNumbers, h \in Hashes :
          work' = [work EXCEPT ![c] =
                     IF work[c].snap.parts[n] \in files
                     THEN [@ EXCEPT !.pc = "write", !.hash = h, !.snap = Absent]
                     ELSE Idle]
    BY <1>4 DEF ReadSource
  <2> DEFINE r == [work[c] EXCEPT !.pc = "write", !.hash = h, !.snap = Absent]
  <2>2. r.op = work[c].op /\ r.pc = "write" /\ r.hash = h /\ r.cur = work[c].cur
    BY <1>0 DEF Work
  <2>3. work' = [work EXCEPT ![c] = r] \/ work' = [work EXCEPT ![c] = Idle]
    BY <1>0, <2>1
  <2>4. work[c].hash = Absent /\ work[c].cur = Absent /\ work[c].op = "uploadPartCopy"
    BY <1>0, <1>4 DEF ReadSource, Tidy, Holds
  <2> HIDE DEF r
  <2>5. HasData(r) /\ Tidy(r) /\ r.pc \notin {"unlink", "remove"}
    BY <2>2, <2>4 DEF HasData, Tidy
  <2> QED
    BY <1>0, <1>2, <1>4, <2>3, <2>4, <2>5, QuietFine DEF ReadSource
<1>5. CASE WriteBytes(c)
  <2> DEFINE r == [work[c] EXCEPT !.pc = "commit"]
  <2>1. /\ r.op = work[c].op /\ r.hash = work[c].hash /\ r.cur = work[c].cur
        /\ r.pc = "commit"
    BY <1>0 DEF Work
  <2>2. work'[c] = r
    BY <1>0, <1>5 DEF WriteBytes
  <2> HIDE DEF r
  <2>3. work[c].cur = Absent /\ work[c].op \in {"put", "uploadPart", "uploadPartCopy"}
    BY <1>0, <1>5 DEF WriteBytes, Tidy, Holds
  <2>4. files' = files \cup {work[c].hash} /\ UNCHANGED <<objects, parts>>
    BY <1>5 DEF WriteBytes
  <2>5. HasData(work[c])' /\ Deleting(work[c])' /\ Tidy(work[c])'
    BY <2>1, <2>2, <2>3, <2>4 DEF HasData, Deleting, Tidy
  <2>6. RowsOnDisk'
    BY <2>4 DEF SeqInv, RowsOnDisk, OnDisk
  <2>7. ASSUME NEW h \in Hashes, Accounted(h)
        PROVE  Accounted(h)'
    BY <1>0, <2>1, <2>2, <2>3, <2>4, <2>7, AccountedAlone, MetaAssumption DEF Accounted
  <2> QED
    BY <1>0, <2>5, <2>6, <2>7 DEF Fine, NoLeak
<1> QED
  BY <1>0, <1>1, <1>3, <1>4, <1>5

------------------------------------------------------------------------------
(* Transactions.                                                           *)

\* A part that some row names after the step has a row of its own: its refcount is
\* not zero.
LEMMA NamedHasRow ==
  ASSUME ProtocolInv, ProtocolInv', NEW k \in ManifestKeys, NEW n \in PartNumbers,
         NEW h \in Hashes, PartsOf(objects'[k])[n] = h
  PROVE  parts'[h] # Absent
<1>1. <<k, n>> \in References(h)'
  BY DEF References, ReferencesIn
<1>2. Refcount(h)' # 0
  BY <1>1, ZeroIsUnreferenced
<1> QED
  BY <1>2 DEF Refcount, RefcountIn

\* A transaction is fine if every row has its data afterwards and no row of PARTS
\* is lost, that of the new content included.
LEMMA CommitFine ==
  ASSUME SeqInv, NEW c \in Workers, work[c].pc = "commit", NEW freed,
         work' = [work EXCEPT ![c] = Collecting(work[c], freed)],
         RowsOnDisk', UNCHANGED <<files, faults>>,
         \A h \in Hashes : parts[h] # Absent => parts'[h] # Absent,
         work[c].hash # Absent => parts'[work[c].hash] # Absent
  PROVE  Fine(c) /\ Alone(c)
<1> DEFINE r == Collecting(work[c], freed)
<1>0. work \in [Workers -> Work] /\ Tidy(work[c]) /\ c # Sweeper /\ Alone(c)
  BY AtPlace
<1>1. work'[c] = r /\ Settled(r)
  BY <1>0, CollectingSettled
<1> HIDE DEF r
<1>2. HasData(work[c])' /\ Deleting(work[c])' /\ Tidy(work[c])'
  BY <1>1 DEF HasData, Deleting, Tidy, Settled
<1>3. ASSUME NEW h \in Hashes, Accounted(h)
      PROVE  Accounted(h)'
  <2>1. parts[h] # Absent \/ work[c].hash = h \/ work[c].cur = h
    BY <1>0, <1>3, AccountedAlone
  <2>2. work[c].cur = Absent
    BY <1>0 DEF Tidy
  <2>3. parts'[h] # Absent
    BY <2>1, <2>2, MetaAssumption
  <2> QED
    BY <2>3 DEF Accounted
<1> QED
  BY <1>0, <1>2, <1>3 DEF Fine, NoLeak

\* put_manifest, of a manifest whose parts are on disk.
LEMMA PublishFine ==
  ASSUME SeqInv, ProtocolInv', NEW c \in Workers, work[c].pc = "commit",
         work[c].op \in {"put", "marker", "copy", "create"},
         NEW m, m # Absent, Publish(c, m), OnDisk(m.parts),
         work[c].hash # Absent => m.parts[1] = work[c].hash
  PROVE  Fine(c) /\ Alone(c)
<1>0. /\ work[c] \in Work /\ Holds(work[c])
      /\ objects \in ObjectTables /\ parts \in PartTables
  BY AtPlace
<1>1. PICK k \in TargetKeys(work[c]) :
        /\ PutManifest(k, m)
        /\ work' = [work EXCEPT ![c] = Collecting(@, PutManifestFreed(k, m))]
        /\ UNCHANGED <<files, faults>>
  BY DEF Publish
<1>2. k \in ManifestKeys
  BY <1>0 DEF TargetKeys, FreshIds, Holds, ManifestKeys
<1>3. /\ objects'[k] = m
      /\ \A i \in ManifestKeys : i # k => objects'[i] = objects[i]
      /\ parts' = PutManifestParts(k, m)
  BY <1>0, <1>1, <1>2 DEF PutManifest, ObjectTables
<1>4. RowsOnDisk'
  <2> SUFFICES ASSUME NEW i \in ManifestKeys, NEW n \in PartNumbers,
                      PartsOf(objects'[i])[n] # Absent
               PROVE  PartsOf(objects'[i])[n] \in files'
    BY DEF RowsOnDisk, OnDisk
  <2>1. CASE i = k
    BY <1>1, <1>3, <2>1 DEF PartsOf, OnDisk
  <2>2. CASE i # k
    BY <1>1, <1>3, <2>2 DEF OnDisk, SeqInv, RowsOnDisk
  <2> QED
    BY <2>1, <2>2
<1>5. \A h \in Hashes : parts[h] # Absent => parts'[h] # Absent
  BY <1>0, <1>3, RowsStay, TableTypes DEF PutManifestParts
<1>6. ASSUME work[c].hash # Absent
      PROVE  parts'[work[c].hash] # Absent
  <2>1. work[c].hash \in Hashes
    BY <1>0, <1>6 DEF Work
  <2>2. PartsOf(objects'[k])[1] = work[c].hash
    BY <1>3, <1>6 DEF PartsOf
  <2> QED
    BY <1>2, <2>1, <2>2, NamedHasRow, MetaAssumption DEF SeqInv
<1> QED
  BY <1>1, <1>4, <1>5, <1>6, CommitFine

\* The four handlers that end in put_manifest: the content of a PUT has been stored
\* before, a copy names the parts of an object that is still there.
LEMMA CommitManifestFine ==
  ASSUME SeqInv, ProtocolInv', NEW c \in Workers,
         CommitPut(c) \/ CommitMarker(c) \/ CommitCopy(c) \/ CommitCreate(c)
  PROVE  Fine(c) /\ Alone(c)
<1>0. /\ work[c] \in Work /\ Holds(work[c]) /\ HasData(work[c]) /\ Tidy(work[c])
  BY AtPlace
<1>1. OnDisk(NoParts)
  BY DEF OnDisk, NoParts
<1>2. CASE CommitPut(c)
  <2>1. PICK lock \in Locks, tags \in Tags, now \in Times :
          Publish(c, NewObject(work[c].hash, lock, tags, now))
    BY <1>2 DEF CommitPut
  <2> DEFINE m == NewObject(work[c].hash, lock, tags, now)
  <2>2. work[c].hash \in files /\ work[c].hash \in Hashes
    BY <1>0, <1>2 DEF CommitPut, HasData, Holds, Commits
  <2>3. m \in SubmittedManifests
    BY <2>2 DEF SubmittedManifests
  <2>4. m # Absent
    BY <2>3, SubmittedTypes, AbsentAssumption
  <2>5. m.parts = Single(1, work[c].hash)
    BY DEF NewObject
  <2>6. OnDisk(m.parts) /\ m.parts[1] = work[c].hash
    BY <2>2, <2>5, MetaAssumption DEF OnDisk, Single
  <2> HIDE DEF m
  <2> QED
    BY <1>2, <2>1, <2>4, <2>6, PublishFine DEF CommitPut, m
<1>3. CASE CommitMarker(c)
  <2>1. PICK now \in Times : Publish(c, Tombstone(now))
    BY <1>3 DEF CommitMarker
  <2>2. Tombstone(now) \in SubmittedManifests
    BY DEF SubmittedManifests
  <2>3. Tombstone(now) # Absent
    BY <2>2, SubmittedTypes, AbsentAssumption
  <2>4. Tombstone(now).parts = NoParts
    BY DEF Tombstone
  <2>5. work[c].hash = Absent
    BY <1>0, <1>3 DEF CommitMarker, Tidy
  <2> QED
    BY <1>1, <1>3, <2>1, <2>3, <2>4, <2>5, PublishFine DEF CommitMarker
<1>4. CASE CommitCopy(c)
  <2>1. PICK tags \in {work[c].snap.tags, NoTags}, now \in Times :
          Publish(c, CopyOf(work[c].snap, tags, now))
    BY <1>4 DEF CommitCopy
  <2> DEFINE m == CopyOf(work[c].snap, tags, now)
  <2>2. IsSource(work[c].snap) /\ OnDisk(work[c].snap.parts) /\ work[c].hash = Absent
    BY <1>0, <1>4 DEF CommitCopy, Holds, Commits, HasData, Tidy
  <2>3. work[c].snap \in Manifests /\ tags \in Tags
    BY <2>2, MetaAssumption DEF IsSource, Manifests
  <2>4. m \in Manifests /\ m.parts = work[c].snap.parts
    BY <2>3, MetaAssumption DEF CopyOf, Manifests
  <2> HIDE DEF m
  <2> QED
    BY <1>4, <2>1, <2>2, <2>4, PublishFine, AbsentAssumption DEF CommitCopy, m
<1>5. CASE CommitCreate(c)
  <2>1. PICK now \in Times : Publish(c, NewUpload(now))
    BY <1>5 DEF CommitCreate
  <2>2. NewUpload(now) \in SubmittedManifests
    BY DEF SubmittedManifests
  <2>3. NewUpload(now) # Absent
    BY <2>2, SubmittedTypes, AbsentAssumption
  <2>4. NewUpload(now).parts = NoParts
    BY DEF NewUpload
  <2>5. work[c].hash = Absent
    BY <1>0, <1>5 DEF CommitCreate, Tidy
  <2> QED
    BY <1>1, <1>5, <2>1, <2>3, <2>4, <2>5, PublishFine DEF CommitCreate
<1> QED
  BY <1>2, <1>3, <1>4, <1>5

\* A deletion names nothing new.
LEMMA CommitDeleteFine ==
  ASSUME SeqInv, NEW c \in Workers, CommitDelete(c)
  PROVE  Fine(c) /\ Alone(c)
<1> DEFINE k == work[c].key
<1>0. /\ work[c] \in Work /\ Holds(work[c]) /\ Tidy(work[c])
      /\ objects \in ObjectTables /\ parts \in PartTables
  BY AtPlace
<1>1. /\ k \in ManifestKeys /\ work[c].hash = Absent /\ work[c].pc = "commit"
      /\ objects' = [objects EXCEPT ![k] = Absent]
      /\ parts' = DecParts(parts, PartsOf(objects[k]))
      /\ work' = [work EXCEPT ![c] = Collecting(work[c], DeleteManifestFreed(k))]
      /\ UNCHANGED <<files, faults>>
  BY <1>0 DEF CommitDelete, DeleteManifest, Holds, Tidy
<1> HIDE DEF k
<1>2. RowsOnDisk'
  <2> SUFFICES ASSUME NEW i \in ManifestKeys, NEW n \in PartNumbers,
                      PartsOf(objects'[i])[n] # Absent
               PROVE  PartsOf(objects'[i])[n] \in files'
    BY DEF RowsOnDisk, OnDisk
  <2>1. CASE i = k
    BY <1>0, <1>1, <2>1 DEF PartsOf, NoParts, ObjectTables
  <2>2. CASE i # k
    BY <1>0, <1>1, <2>2 DEF OnDisk, SeqInv, RowsOnDisk, ObjectTables
  <2> QED
    BY <2>1, <2>2
<1>3. \A h \in Hashes : parts[h] # Absent => parts'[h] # Absent
  BY <1>0, <1>1, RowsStay
<1> QED
  BY <1>1, <1>2, <1>3, CommitFine

\* A part upload names the content it has stored.
LEMMA CommitUploadPartFine ==
  ASSUME SeqInv, ProtocolInv', NEW c \in Workers, CommitUploadPart(c)
  PROVE  Fine(c) /\ Alone(c)
<1> DEFINE k == work[c].key
           n == work[c].number
           h == work[c].hash
<1>0. /\ work[c] \in Work /\ Holds(work[c]) /\ HasData(work[c])
      /\ objects \in ObjectTables /\ parts \in PartTables
  BY AtPlace
<1>1. k \in ManifestKeys /\ n \in PartNumbers /\ h \in Hashes /\ h \in files
      /\ work[c].pc = "commit"
  BY <1>0 DEF CommitUploadPart, Holds, Commits, HasData
<1>2. PICK now \in Times : AppendPart(k, n, h, now)
  BY DEF CommitUploadPart
<1>3. /\ work' = [work EXCEPT ![c] = Collecting(work[c], AppendPartFreed(k, n, h))]
      /\ UNCHANGED <<files, faults>>
  BY DEF CommitUploadPart
<1>4. /\ objects[k] \in Manifests
      /\ objects'[k] = Appended(objects[k], n, h, now)
      /\ \A i \in ManifestKeys : i # k => objects'[i] = objects[i]
      /\ parts' = AppendPartParts(k, n, h)
  BY <1>0, <1>1, <1>2 DEF AppendPart, Appended, ObjectTables
<1>5. /\ Appended(objects[k], n, h, now) \in Manifests
      /\ \A i \in PartNumbers : Appended(objects[k], n, h, now).parts[i]
                                = IF i = n THEN h ELSE objects[k].parts[i]
  BY <1>1, <1>4, AppendedRow
<1>6. \A i \in PartNumbers :
        PartsOf(objects'[k])[i] = IF i = n THEN h ELSE PartsOf(objects[k])[i]
  BY <1>4, <1>5, AbsentAssumption DEF PartsOf
<1>7. h = work[c].hash
  OBVIOUS
<1> HIDE DEF k, n, h
<1>8. RowsOnDisk'
  <2> SUFFICES ASSUME NEW i \in ManifestKeys, NEW j \in PartNumbers,
                      PartsOf(objects'[i])[j] # Absent
               PROVE  PartsOf(objects'[i])[j] \in files
    BY <1>3 DEF RowsOnDisk, OnDisk
  <2>1. OnDisk(PartsOf(objects[i]))
    BY DEF SeqInv, RowsOnDisk
  <2>2. CASE i = k
    BY <1>1, <1>6, <2>1, <2>2 DEF OnDisk
  <2>3. CASE i # k
    BY <1>4, <2>1, <2>3 DEF OnDisk
  <2> QED
    BY <2>2, <2>3
<1>9. \A g \in Hashes : parts[g] # Absent => parts'[g] # Absent
  BY <1>0, <1>4, RowsStay, TableTypes DEF AppendPartParts
<1>10. parts'[h] # Absent
  BY <1>1, <1>6, NamedHasRow DEF SeqInv
<1> QED
  BY <1>1, <1>3, <1>7, <1>8, <1>9, <1>10, CommitFine

\* A completion names parts of its upload, which nobody has touched since.
LEMMA CommitCompleteFine ==
  ASSUME SeqInv, NEW c \in Workers, CommitComplete(c)
  PROVE  Fine(c) /\ Alone(c)
<1> DEFINE k == work[c].key
           m == work[c].snap
           ck == CompletedKey(k)
<1>0. /\ work[c] \in Work /\ Holds(work[c]) /\ HasData(work[c]) /\ Tidy(work[c])
      /\ objects \in ObjectTables /\ parts \in PartTables
  BY AtPlace
<1>1. /\ k \in ManifestKeys /\ m \in Manifests /\ OnDisk(m.parts) /\ work[c].hash = Absent
      /\ work[c].pc = "commit"
  BY <1>0 DEF CommitComplete, Holds, Commits, HasData, Tidy, IsSource
<1>2. ck \in ManifestKeys
  BY <1>1, MetaAssumption DEF CompletedKey, ManifestKeys
<1>3. /\ objects' = [objects EXCEPT ![ck] = m, ![k] = Absent]
      /\ parts' = CompleteMultipartParts(k, ck, m)
      /\ work' = [work EXCEPT ![c] = Collecting(work[c], CompleteMultipartFreed(k, ck, m))]
      /\ UNCHANGED <<files, faults>>
  BY DEF CommitComplete, CompleteMultipart
<1> HIDE DEF k, m, ck
<1>4. RowsOnDisk'
  <2> SUFFICES ASSUME NEW i \in ManifestKeys, NEW n \in PartNumbers,
                      PartsOf(objects'[i])[n] # Absent
               PROVE  PartsOf(objects'[i])[n] \in files'
    BY DEF RowsOnDisk, OnDisk
  <2>1. CASE i = k
    BY <1>0, <1>3, <2>1 DEF PartsOf, NoParts, ObjectTables
  <2>2. CASE i # k /\ i = ck
    <3>1. objects'[i] = m
      BY <1>0, <1>3, <2>2 DEF ObjectTables
    <3> QED
      BY <1>1, <1>3, <3>1, AbsentAssumption DEF PartsOf, OnDisk
  <2>3. CASE i # k /\ i # ck
    BY <1>0, <1>3, <2>3 DEF OnDisk, SeqInv, RowsOnDisk, ObjectTables
  <2> QED
    BY <2>1, <2>2, <2>3
<1>5. \A h \in Hashes : parts[h] # Absent => parts'[h] # Absent
  BY <1>0, <1>3, RowsStay, TableTypes DEF CompleteMultipartParts
<1> QED
  BY <1>1, <1>3, <1>4, <1>5, CommitFine

\* A refused PUT leaves the row of a part that GC has marked; a refused part
\* upload is the one refusal that leaves a file behind.
LEMMA CommitRefusedFine ==
  ASSUME SeqInv, NEW c \in Workers, CommitRefused(c)
  PROVE  Fine(c) /\ Alone(c)
<1>0. /\ work[c] \in Work /\ work \in [Workers -> Work] /\ Holds(work[c]) /\ Tidy(work[c])
      /\ c # Sweeper /\ Alone(c) /\ work[c].pc = "commit"
  BY AtPlace DEF CommitRefused
<1>1. work'[c] = Idle /\ Settled(Idle) /\ Idle.pc = "idle"
      /\ UNCHANGED <<objects, parts, files>>
  BY <1>0, CollectingSettled DEF CommitRefused, Idle
<1>2. HasData(work[c])' /\ Deleting(work[c])' /\ Tidy(work[c])'
  BY <1>1 DEF HasData, Deleting, Tidy, Settled
<1>3. RowsOnDisk'
  BY <1>1 DEF SeqInv, RowsOnDisk, OnDisk
<1>4. ASSUME NEW h \in Hashes, Accounted(h), ~ Accounted(h)'
      PROVE  UploadRefused(c) /\ c \in Clients
  <2>1. parts[h] = Absent /\ work[c].hash = h
    BY <1>0, <1>1, <1>4, AccountedAlone, MetaAssumption DEF Accounted, Tidy
  <2>2. work[c].op # "put"
    <3> SUFFICES ASSUME work[c].op = "put"
                 PROVE  FALSE
      OBVIOUS
    <3>1. ~ Referenceable(parts, Single(1, h))
      BY <2>1 DEF CommitRefused, Referenced
    <3> QED
      BY <2>1, <3>1 DEF Referenceable, Single
  <2> QED
    BY <1>0, <1>1, <2>1, <2>2, MetaAssumption DEF Tidy, UploadRefused, Workers
<1> QED
  BY <1>0, <1>2, <1>3, <1>4 DEF Fine, NoLeak

------------------------------------------------------------------------------
(* Garbage collection.                                                     *)

\* The collectors delete only files of marked parts, which no row names.
LEMMA CollectFine ==
  ASSUME SeqInv, NEW w \in Workers, Collect(w)
  PROVE  Fine(w) /\ Alone(w)
<1>0. /\ work[w] \in Work /\ work \in [Workers -> Work] /\ Holds(work[w])
      /\ Deleting(work[w]) /\ Tidy(work[w]) /\ Alone(w) /\ parts \in PartTables
      /\ work[w].freed \in SUBSET Hashes /\ work[w].hash = Absent
  <2>1. work[w].pc \in {"gc", "unlink", "remove"}
    BY DEF Collect, GcMark, GcSkip, GcUnlink, GcRemove
  <2> QED
    BY <2>1, AtPlace DEF Tidy, Work
<1>1. CASE GcMark(w)
  <2>1. PICK h \in work[w].freed :
          /\ MarkGcPending(h)
          /\ work' = [work EXCEPT ![w].pc = "unlink", ![w].cur = h, ![w].freed = @ \ {h}]
    BY <1>1 DEF GcMark
  <2> DEFINE r == [work[w] EXCEPT !.pc = "unlink", !.cur = h, !.freed = @ \ {h}]
  <2>2. h \in Hashes /\ parts[h] # Absent /\ parts[h] \in PartEntries
    BY <1>0, <2>1 DEF MarkGcPending, Markable, PartTables
  <2>3. r.pc = "unlink" /\ r.cur = h /\ r.hash = Absent
    BY <1>0 DEF Work
  <2>4. work'[w] = r
    BY <1>0, <2>1
  <2> HIDE DEF r
  <2>5. /\ parts' = [parts EXCEPT ![h].state = "GcPending"]
        /\ UNCHANGED <<objects, files>>
    BY <1>1, <2>1 DEF MarkGcPending, GcMark
  <2>6. \A g \in Hashes : parts[g] # Absent => parts'[g] # Absent
    <3>1. [parts[h] EXCEPT !.state = "GcPending"] \in PartEntries
      BY <2>2 DEF PartEntries
    <3> QED
      BY <1>0, <2>5, <3>1, AbsentAssumption DEF PartTables
  <2>7. GcPending(h)'
    <3>1. parts'[h] = [parts[h] EXCEPT !.state = "GcPending"]
      BY <1>0, <2>2, <2>5 DEF PartTables
    <3>2. parts'[h].state = "GcPending"
      BY <2>2, <3>1 DEF PartEntries
    <3> QED
      BY <2>2, <2>6, <3>2 DEF GcPending
  <2>8. HasData(work[w])' /\ Deleting(work[w])' /\ Tidy(work[w])'
    BY <2>3, <2>4, <2>7 DEF HasData, Deleting, Tidy, GcPending
  <2>9. RowsOnDisk'
    BY <2>5 DEF SeqInv, RowsOnDisk, OnDisk
  <2>10. ASSUME NEW g \in Hashes, Accounted(g)
         PROVE  Accounted(g)'
    <3>1. work[w].cur = Absent
      BY <1>0, <1>1 DEF GcMark, Tidy
    <3> QED
      BY <1>0, <2>6, <2>10, <3>1, AccountedAlone, MetaAssumption DEF Accounted
  <2> QED
    BY <1>0, <2>3, <2>4, <2>8, <2>9, <2>10 DEF Fine, NoLeak
<1>2. CASE GcSkip(w)
  <2>1. PICK h \in work[w].freed :
          work' = [work EXCEPT ![w] = Collecting(work[w], work[w].freed \ {h})]
    BY <1>2 DEF GcSkip
  <2> DEFINE r == Collecting(work[w], work[w].freed \ {h})
  <2>2. Settled(r) /\ work[w].cur = Absent
    BY <1>0, <1>2, CollectingSettled DEF GcSkip, Tidy
  <2>3. work' = [work EXCEPT ![w] = r]
    BY <2>1
  <2> HIDE DEF r
  <2>4. HasData(r) /\ Tidy(r) /\ r.pc \in {"idle", "gc"}
    BY <2>2 DEF Settled, HasData, Tidy
  <2> QED
    BY <1>0, <1>2, <2>2, <2>3, <2>4, QuietFine DEF GcSkip
<1>3. CASE GcUnlink(w)
  <2> DEFINE r == [work[w] EXCEPT !.pc = "remove"]
  <2>1. r.pc = "remove" /\ r.cur = work[w].cur /\ r.hash = Absent
    BY <1>0 DEF Work
  <2>2. work'[w] = r
    BY <1>0, <1>3 DEF GcUnlink
  <2> HIDE DEF r
  <2>3. /\ GcPending(work[w].cur) /\ work[w].cur \in Hashes
        /\ files' = files \ {work[w].cur} /\ UNCHANGED <<objects, parts>>
    BY <1>0, <1>3 DEF GcUnlink, Deleting, Holds
  <2>4. HasData(work[w])' /\ Deleting(work[w])' /\ Tidy(work[w])'
    BY <2>1, <2>2, <2>3 DEF HasData, Deleting, Tidy, GcPending
  <2>5. References(work[w].cur) = {}
    BY <2>3, ProtocolUnreferenced DEF SeqInv, GcPendingUnreferenced
  <2>6. RowsOnDisk'
    <3> SUFFICES ASSUME NEW k \in ManifestKeys, NEW n \in PartNumbers,
                        PartsOf(objects[k])[n] # Absent
                 PROVE  PartsOf(objects[k])[n] \in files'
      BY <2>3 DEF RowsOnDisk, OnDisk
    <3>1. PartsOf(objects[k])[n] \in files
      BY DEF SeqInv, RowsOnDisk, OnDisk
    <3>2. PartsOf(objects[k])[n] # work[w].cur
      <4>1. <<k, n>> \notin References(work[w].cur)
        BY <2>5
      <4> QED
        BY <4>1 DEF References, ReferencesIn
    <3> QED
      BY <2>3, <3>1, <3>2
  <2>7. ASSUME NEW g \in Hashes, Accounted(g)
        PROVE  Accounted(g)'
    BY <1>0, <2>1, <2>2, <2>3, <2>7, AccountedAlone, MetaAssumption DEF Accounted
  <2> QED
    BY <1>0, <2>1, <2>2, <2>4, <2>6, <2>7 DEF Fine, NoLeak
<1>4. CASE GcRemove(w)
  <2> DEFINE r == Collecting(work[w], work[w].freed)
  <2>1. work'[w] = r /\ Settled(r)
    BY <1>0, <1>4, CollectingSettled DEF GcRemove
  <2> HIDE DEF r
  <2>2. /\ parts' = [parts EXCEPT ![work[w].cur] = Absent]
        /\ UNCHANGED <<objects, files, faults>>
        /\ work[w].cur \notin files \/ faults > 0
    BY <1>0, <1>4 DEF GcRemove, RemovePart, Deleting
  <2>3. HasData(work[w])' /\ Deleting(work[w])' /\ Tidy(work[w])'
    BY <2>1 DEF HasData, Deleting, Tidy, Settled
  <2>4. RowsOnDisk'
    BY <2>2 DEF SeqInv, RowsOnDisk, OnDisk
  <2>5. ASSUME NEW g \in Hashes, Accounted(g), ~ Accounted(g)'
        PROVE  g \notin files' \/ faults' > 0
    <3>1. CASE g = work[w].cur
      BY <2>2, <3>1
    <3>2. CASE g # work[w].cur
      <4>1. parts[g] # Absent
        BY <1>0, <2>5, <3>2, AccountedAlone, MetaAssumption
      <4>2. parts'[g] # Absent
        BY <1>0, <2>2, <3>2, <4>1 DEF PartTables
      <4> QED
        BY <2>5, <4>2 DEF Accounted
    <3> QED
      BY <3>1, <3>2
  <2> QED
    BY <1>0, <2>1, <2>3, <2>4, <2>5 DEF Fine, NoLeak, Settled
<1> QED
  BY <1>0, <1>1, <1>2, <1>3, <1>4 DEF Collect

\* A fault takes the worker to a place from which nothing is lost.
LEMMA FaultFine ==
  ASSUME SeqInv, NEW w \in Workers, GcUnlinkFails(w) \/ Disconnect(w)
  PROVE  Fine(w) /\ Alone(w)
<1>0. /\ work[w] \in Work /\ work \in [Workers -> Work] /\ faults \in 0..MaxFaults
      /\ Deleting(work[w]) /\ Tidy(work[w]) /\ Alone(w)
  BY AtPlace DEF GcUnlinkFails, Disconnect
<1>1. UNCHANGED <<objects, parts, files>> /\ faults' > 0
  BY <1>0, ObjectAssumption DEF GcUnlinkFails, Disconnect
<1>2. RowsOnDisk' /\ NoLeak
  BY <1>1 DEF SeqInv, RowsOnDisk, OnDisk, NoLeak
<1> DEFINE r == [work[w] EXCEPT !.pc = "remove"]
<1>3. r.pc = "remove" /\ r.cur = work[w].cur /\ r.hash = work[w].hash
  BY <1>0 DEF Work
<1>4. Settled(work'[w]) \/ (GcUnlinkFails(w) /\ work'[w] = r)
  <2>1. CASE Disconnect(w)
    <3>1. work'[w] = Idle /\ Settled(Idle)
      BY <1>0, <2>1, CollectingSettled DEF Disconnect
    <3> QED
      BY <3>1 DEF Settled
  <2>2. CASE GcUnlinkFails(w)
    <3>1. work'[w] = Collecting(work[w], work[w].freed) \/ work'[w] = r
      BY <1>0, <2>2 DEF GcUnlinkFails
    <3>2. Settled(Collecting(work[w], work[w].freed))
      BY CollectingSettled
    <3> QED
      BY <2>2, <3>1, <3>2 DEF Settled
  <2> QED
    BY <2>1, <2>2
<1> HIDE DEF r
<1>5. CASE Settled(work'[w])
  <2>1. HasData(work[w])' /\ Deleting(work[w])' /\ Tidy(work[w])'
    BY <1>5 DEF HasData, Deleting, Tidy, Settled
  <2> QED
    BY <1>0, <1>2, <1>5, <2>1 DEF Fine, Settled
<1>6. CASE GcUnlinkFails(w) /\ work'[w] = r
  <2>1. work[w].hash = Absent /\ GcPending(work[w].cur)
    BY <1>0, <1>6 DEF GcUnlinkFails, Tidy, Deleting
  <2>2. HasData(work[w])' /\ Deleting(work[w])' /\ Tidy(work[w])'
    BY <1>1, <1>3, <1>6, <2>1 DEF HasData, Deleting, Tidy, GcPending
  <2> QED
    BY <1>0, <1>2, <1>3, <1>6, <2>2 DEF Fine
<1> QED
  BY <1>4, <1>5, <1>6

------------------------------------------------------------------------------
(* The theorems.                                                           *)

\* Every step of the server keeps the invariant, follows the GC protocol and leaks
\* nothing.
LEMMA SeqStep ==
  ASSUME MaxInFlight <= 1, RefcountsFit, SeqInv, [Next]_vars
  PROVE  SeqInv' /\ [DisciplinedNext]_metaVars /\ [NoLeak]_vars
<1>1. StepOK /\ ServerInv'
  BY ServerStep DEF SeqInv
<1>2. [DisciplinedNext]_metaVars
  BY <1>1, StepIsDisciplined DEF StepOK
<1>3. ProtocolInv'
  BY <1>2, ProtocolStep DEF SeqInv
<1>4. ASSUME NEW w \in Workers, Good(w), Fine(w) /\ Alone(w)
      PROVE  SeqInv' /\ NoLeak
  BY <1>3, <1>4, FineInv DEF Fine
<1>5. CASE UNCHANGED vars
  <2>1. SeqInv'
    BY <1>1, <1>3, <1>5 DEF vars, SeqInv, Solo, SoloOK, HasData, Deleting, Tidy, GcPending,
         SweeperCollects, RowsOnDisk, OnDisk
  <2> QED
    BY <1>2, <1>5, <2>1
<1>6. ASSUME NEW c \in Clients, Begin(c) \/ Disconnect(c)
      PROVE  SeqInv' /\ NoLeak
  <2>1. c \in Workers /\ SeqInv /\ ServerInv
    BY DEF Workers, SeqInv
  <2>2. CASE Begin(c)
    BY <1>4, <2>1, <2>2, BeginOK, BeginFine
  <2>3. CASE Disconnect(c)
    BY <1>4, <2>1, <2>3, WorkerOK, FaultFine
  <2> QED
    BY <1>6, <2>2, <2>3
<1>7. ASSUME NEW w \in Workers, Continue(w) \/ GcUnlinkFails(w)
      PROVE  SeqInv' /\ NoLeak
  <2>1. Good(w)
    BY <1>7, WorkerOK DEF SeqInv
  <2>2. Fine(w) /\ Alone(w)
    BY <1>3, <1>7, MiddleFine, CommitManifestFine, CommitDeleteFine, CommitUploadPartFine,
       CommitCompleteFine, CommitRefusedFine, CollectFine, FaultFine DEF Continue, Commit
  <2> QED
    BY <1>4, <2>1, <2>2
<1>8. CASE SweepStart
  <2> DEFINE r == [Idle EXCEPT !.op = "sweep", !.pc = "gc", !.freed = ListOrphanParts]
  <2>1. Start(Sweeper, r) /\ Sweeper \in Workers
    BY <1>8 DEF SweepStart, Workers
  <2>2. HasData(r) /\ Tidy(r) /\ r.pc = "gc"
    BY DEF HasData, Tidy, Idle
  <2> HIDE DEF r
  <2>3. Alone(Sweeper)
    BY <2>1, StartIsAlone DEF SeqInv, Alone
  <2>4. Fine(Sweeper)
    BY <2>1, <2>2, <2>3, StartFine
  <2>5. Good(Sweeper)
    BY <1>8, SweepStartOK DEF SeqInv
  <2> QED
    BY <1>2, <1>4, <2>1, <2>3, <2>4, <2>5
<1>9. CASE BucketRequest
  <2>1. UNCHANGED <<objects, parts, files, work, faults>>
    BY <1>9 DEF BucketRequest, CreateBucket, DeleteBucket, UpdateBucketVersioning
  <2>2. SeqInv'
    BY <1>1, <1>3, <2>1 DEF SeqInv, Solo, SoloOK, HasData, Deleting, Tidy, GcPending,
         SweeperCollects, RowsOnDisk, OnDisk
  <2> QED
    BY <1>2, <2>1, <2>2 DEF NoLeak, Accounted
<1>10. CASE Crash
  <2>1. UNCHANGED <<objects, parts, files>> /\ faults' > 0
    BY <1>10, ObjectAssumption DEF Crash, SeqInv, ServerInv, TypeOK
  <2>2. \A w \in Workers : work'[w] = Idle
    BY <1>10 DEF Crash
  <2>3. Settled(Idle) /\ Idle.pc = "idle" /\ Sweeper \in Workers
    BY CollectingSettled DEF Idle, Workers
  <2>4. Solo' /\ SoloOK' /\ SweeperCollects' /\ RowsOnDisk'
    BY <2>1, <2>2, <2>3 DEF SeqInv, Solo, SoloOK, HasData, Deleting, Tidy, Settled,
         SweeperCollects, RowsOnDisk, OnDisk
  <2> QED
    BY <1>1, <1>2, <1>3, <2>1, <2>4 DEF SeqInv, NoLeak
<1> QED
  BY <1>2, <1>5, <1>6, <1>7, <1>8, <1>9, <1>10 DEF Next

\* The invariant holds in every behaviour of a server with one worker at a time.
LEMMA SeqInvariant ==
  ASSUME MaxInFlight <= 1, RefcountsFit
  PROVE  Spec => []SeqInv
<1>1. Init => SeqInv
  <2> SUFFICES ASSUME Init
               PROVE  SeqInv
    OBVIOUS
  <2>1. ServerInv /\ ProtocolInv
    BY InitOK, ProtocolInit
  <2>2. /\ \A w \in Workers : work[w] = Idle
        /\ \A k \in ManifestKeys : objects[k] = Absent
    BY DEF Init, MetaInit
  <2>3. Settled(Idle) /\ Idle.pc = "idle" /\ Sweeper \in Workers
    BY CollectingSettled DEF Idle, Workers
  <2> QED
    BY <2>1, <2>2, <2>3 DEF SeqInv, Solo, SoloOK, HasData, Deleting, Tidy, Settled,
         SweeperCollects, RowsOnDisk, OnDisk, PartsOf, NoParts
<1>2. SeqInv /\ [Next]_vars => SeqInv'
  BY SeqStep
<1> QED
  BY <1>1, <1>2, PTL DEF Spec

\* With one worker at a time and a refcount that is wide enough, no object and no
\* part of an upload ever loses its data, whatever the requests and wherever a
\* request, a sweep or the process is cut off.
THEOREM NothingLost ==
  ASSUME MaxInFlight <= 1, RefcountsFit
  PROVE  Spec => []ReferencedPartsOnDisk
<1>1. SeqInv => ReferencedPartsOnDisk
  <2> SUFFICES ASSUME SeqInv, NEW h \in Hashes, References(h) # {}
               PROVE  h \in files
    BY DEF ReferencedPartsOnDisk
  <2>1. PICK p \in ManifestKeys \X PartNumbers : PartsOf(objects[p[1]])[p[2]] = h
    BY DEF References, ReferencesIn
  <2> QED
    BY <2>1, MetaAssumption DEF SeqInv, RowsOnDisk, OnDisk
<1> QED
  BY <1>1, SeqInvariant, PTL

\* Such a server follows the GC protocol: remove_part only ever drops a row that is
\* still marked.
THEOREM ServerIsDisciplined ==
  ASSUME MaxInFlight <= 1, RefcountsFit
  PROVE  Spec => DisciplinedSpec
<1>1. Init => MetaInit
  BY DEF Init
<1>2. SeqInv /\ [Next]_vars => [DisciplinedNext]_metaVars
  BY SeqStep
<1> QED
  BY <1>1, <1>2, SeqInvariant, PTL DEF Spec, DisciplinedSpec

\* Hence its refcounts are exact, through every fault.
THEOREM ServerRefcountsExact ==
  ASSUME MaxInFlight <= 1, RefcountsFit
  PROVE  Spec => []RefcountExact
BY ServerIsDisciplined, RefcountsAreExact, PTL

\* No part that its collectors have marked is named anywhere.
THEOREM ServerPendingUnreferenced ==
  ASSUME MaxInFlight <= 1, RefcountsFit
  PROVE  Spec => []GcPendingUnreferenced
BY ServerIsDisciplined, PendingIsUnreferenced, PTL

\* Its transactions report exactly the parts that have lost their last reference.
THEOREM ServerEffectsExact ==
  ASSUME MaxInFlight <= 1, RefcountsFit
  PROVE  Spec => EffectIsExact
BY ServerIsDisciplined, EffectsAreExact, PTL

\* It leaves a file that nobody will collect only by a fault or by the refusal of a
\* part upload whose body it has stored.
THEOREM OnlyFaultsLeak ==
  ASSUME MaxInFlight <= 1, RefcountsFit
  PROVE  Spec => LeaksOnlyByFault
<1>1. SeqInv /\ [Next]_vars => [NoLeak]_vars
  BY SeqStep
<1>2. [][NoLeak]_vars => LeaksOnlyByFault
  BY PTL DEF NoLeak, LeaksOnlyByFault
<1> QED
  BY <1>1, <1>2, SeqInvariant, PTL DEF Spec
==============================================================================
