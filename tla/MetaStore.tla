------------------------------ MODULE MetaStore ------------------------------
(***************************************************************************)
(* The metadata store of s3lite: the redb tables BUCKETS, OBJECTS and      *)
(* PARTS, and the transactions of the actor thread that owns them          *)
(* (src/src/storage/db/actor.rs).                                          *)
(*                                                                         *)
(* The actor takes one operation at a time from a channel and runs it in   *)
(* one redb transaction, so every operation is one atomic step here.  An   *)
(* operation that returns an error drops its transaction: nothing changes, *)
(* which is a stuttering step, so an action states only the case in which  *)
(* the transaction commits, with the code's error conditions negated as    *)
(* its guards.                                                             *)
(*                                                                         *)
(* A table is a total function whose value is Absent where there is no     *)
(* row.  The list of parts of a manifest, whose part numbers are distinct, *)
(* is a function from part numbers to hashes, Absent where the list has no *)
(* such part.  Contents that no operation of the actor looks at (tags,     *)
(* locks, CORS and lifecycle rules) are members of opaque sets; sizes,     *)
(* digests and headers are left out.                                       *)
(***************************************************************************)
EXTENDS Integers, FiniteSets

CONSTANTS
  Buckets,         \* bucket names
  Keys,            \* object keys
  VersionIds,      \* version ids and upload ids: "null" and the uuids in use
  NullVersion,     \* the literal version id "null"
  Hashes,          \* content addresses (BLAKE3) of parts
  PartNumbers,     \* part numbers of a manifest; 1 is the number of a single PUT
  RefMax,          \* largest refcount the u32 of PartEntry can hold
  Times,           \* values of the wall clock (last_modified)
  Tags,            \* tag sets
  Locks,           \* values of Manifest.object_lock, NoLock for None
  NoLock,
  CorsRules,       \* values of BucketConfig.cors_rules
  LockConfigs,     \* values of BucketConfig.object_lock
  LifecycleRules,  \* values of BucketConfig.lifecycle_rules
  EmptyConfig,     \* the value those three have in a new bucket
  LockEnabled,     \* the lock configuration of a bucket created with object lock
  NoTags,          \* the empty tag set
  Absent           \* no row; no part with this number

ManifestKeys == [bucket : Buckets, key : Keys, version_id : VersionIds]

PartLists == [PartNumbers -> Hashes \cup {Absent}]

ManifestStates == {"InProgress", "Committed", "Aborted"}

Manifests == [state : ManifestStates,
              kind : {"Object", "Tombstone"},
              upload_mode : {"SinglePut", "Multipart"},
              parts : PartLists,
              tags : Tags,
              object_lock : Locks,
              last_modified : Times]

PartEntries == [refcount : 0..RefMax, state : {"Live", "GcPending"}]

VersioningStates == {"Off", "Enabled", "Suspended"}

BucketConfigs == [versioning : VersioningStates,
                  cors_rules : CorsRules,
                  object_lock : LockConfigs,
                  lifecycle_rules : LifecycleRules]

ASSUME MetaAssumption ==
  /\ IsFiniteSet(ManifestKeys)
  /\ IsFiniteSet(PartNumbers)
  /\ NullVersion \in VersionIds
  /\ 1 \in PartNumbers
  /\ RefMax \in Nat \ {0}
  /\ NoLock \in Locks
  /\ NoTags \in Tags
  /\ EmptyConfig \in CorsRules \cap LockConfigs \cap LifecycleRules
  /\ LockEnabled \in LockConfigs
  /\ Absent \notin Hashes

\* A row is not the mark for a missing row.
ASSUME AbsentAssumption ==
  /\ Absent \notin Manifests
  /\ Absent \notin PartEntries
  /\ Absent \notin BucketConfigs

VARIABLES
  buckets,  \* the BUCKETS table
  objects,  \* the OBJECTS table: every manifest, in progress or committed
  parts     \* the PARTS table: refcount and GC state of every known part

metaVars == <<buckets, objects, parts>>

------------------------------------------------------------------------------
(* Reference counts.                                                       *)

NoParts == [n \in PartNumbers |-> Absent]

PartsOf(row) == IF row = Absent THEN NoParts ELSE row.parts

\* How often a part list names a hash: the loops over manifest.parts call the
\* refcount helpers once per entry.
Occurrences(list, h) == Cardinality({n \in PartNumbers : list[n] = h})

Saturated(n) == IF n > RefMax THEN RefMax ELSE n

\* Mutant of IncParts: counts a hash once however often the list names it.
IncPartsOnce(table, list) ==
  [h \in Hashes |->
     IF Occurrences(list, h) = 0 THEN table[h]
     ELSE IF table[h] = Absent
          THEN [refcount |-> 1, state |-> "Live"]
          ELSE [table[h] EXCEPT !.refcount = Saturated(@ + 1)]]

\* inc_part_refcount for every entry of a list.  A missing row is created Live
\* with refcount 1, an existing one saturates at the width of its u32.
IncParts(table, list) ==
  [h \in Hashes |->
     LET n == Occurrences(list, h)
     IN  IF n = 0 THEN table[h]
         ELSE IF table[h] = Absent
              THEN [refcount |-> Saturated(n), state |-> "Live"]
              ELSE [table[h] EXCEPT !.refcount = Saturated(@ + n)]]

\* Mutant of DecParts: the check for zero before the subtraction is missing.
DecPartsUnchecked(table, list) ==
  [h \in Hashes |->
     IF table[h] = Absent THEN Absent
     ELSE [table[h] EXCEPT !.refcount = @ - Occurrences(list, h)]]

\* dec_part_refcount for every entry of a list.  A missing row stays missing
\* and a refcount never goes below zero.
DecParts(table, list) ==
  [h \in Hashes |->
     LET n == Occurrences(list, h)
     IN  IF table[h] = Absent THEN Absent
         ELSE [table[h] EXCEPT !.refcount = IF @ >= n THEN @ - n ELSE 0]]

\* Mutant of Referenceable: the interlock is missing.
AlwaysReferenceable(table, list) == TRUE

\* The interlock of inc_part_refcount: no entry of the list may be GcPending,
\* or the whole transaction fails with PartGcPending.
Referenceable(table, list) ==
  {n \in PartNumbers : /\ list[n] # Absent
                       /\ table[list[n]] # Absent
                       /\ table[list[n]].state = "GcPending"} = {}

\* The hashes of a list whose refcount a table holds at zero.
AtZero(table, list) ==
  {h \in Hashes : /\ Occurrences(list, h) > 0
                  /\ table[h] # Absent
                  /\ table[h].refcount = 0}

Single(n, h) == [i \in PartNumbers |-> IF i = n THEN h ELSE Absent]

------------------------------------------------------------------------------
(* Buckets.                                                                *)

CreateBucket(b, cfg) ==
  /\ buckets[b] = Absent
  /\ buckets' = [buckets EXCEPT ![b] = cfg]
  /\ UNCHANGED <<objects, parts>>

\* Fails while any manifest of the bucket is left, in progress or committed.
DeleteBucket(b) ==
  /\ buckets[b] # Absent
  /\ \A k \in ManifestKeys : k.bucket = b => objects[k] = Absent
  /\ buckets' = [buckets EXCEPT ![b] = Absent]
  /\ UNCHANGED <<objects, parts>>

UpdateBucketVersioning(b, v) ==
  /\ buckets[b] # Absent
  /\ buckets' = [buckets EXCEPT ![b].versioning = v]
  /\ UNCHANGED <<objects, parts>>

UpdateBucketCors(b, rules) ==
  /\ buckets[b] # Absent
  /\ buckets' = [buckets EXCEPT ![b].cors_rules = rules]
  /\ UNCHANGED <<objects, parts>>

UpdateBucketObjectLock(b, cfg) ==
  /\ buckets[b] # Absent
  /\ buckets' = [buckets EXCEPT ![b].object_lock = cfg]
  /\ UNCHANGED <<objects, parts>>

UpdateBucketLifecycle(b, rules) ==
  /\ buckets[b] # Absent
  /\ buckets' = [buckets EXCEPT ![b].lifecycle_rules = rules]
  /\ UNCHANGED <<objects, parts>>

------------------------------------------------------------------------------
(* The manifests that the request handlers submit.                         *)

NewObject(h, lock, tags, now) ==
  [state |-> "Committed", kind |-> "Object", upload_mode |-> "SinglePut",
   parts |-> Single(1, h), tags |-> tags, object_lock |-> lock,
   last_modified |-> now]

Tombstone(now) ==
  [state |-> "Committed", kind |-> "Tombstone", upload_mode |-> "SinglePut",
   parts |-> NoParts, tags |-> NoTags, object_lock |-> NoLock,
   last_modified |-> now]

NewUpload(now) ==
  [state |-> "InProgress", kind |-> "Object", upload_mode |-> "Multipart",
   parts |-> NoParts, tags |-> NoTags, object_lock |-> NoLock,
   last_modified |-> now]

\* The destination of a copy: the source's parts, tags or none, and no lock.
CopyOf(m, tags, now) ==
  [m EXCEPT !.object_lock = NoLock, !.tags = tags, !.last_modified = now]

\* The object an upload becomes, from the upload m and the parts selected.
Completed(m, selected, now) ==
  [m EXCEPT !.state = "Committed", !.kind = "Object",
            !.upload_mode = "Multipart", !.parts = selected,
            !.last_modified = now]

\* A new bucket's configuration; object lock at creation enables versioning.
NewBucket(lockEnabled) ==
  [versioning |-> IF lockEnabled THEN "Enabled" ELSE "Off",
   cors_rules |-> EmptyConfig,
   object_lock |-> IF lockEnabled THEN LockEnabled ELSE EmptyConfig,
   lifecycle_rules |-> EmptyConfig]

------------------------------------------------------------------------------
(* Manifests.                                                              *)

\* Mutant of PutManifestParts: the replaced manifest's parts are not given back.
PutManifestPartsKept(k, m) == IncParts(parts, m.parts)

\* The parts table after handle_put_manifest: increments first, so that a part
\* kept from the old manifest never passes through zero.
PutManifestParts(k, m) ==
  DecParts(IncParts(parts, m.parts), PartsOf(objects[k]))

\* DeletionEffect of put_manifest.
PutManifestFreed(k, m) ==
  AtZero(PutManifestParts(k, m), PartsOf(objects[k]))

\* The bucket is not looked up: callers check it in an operation of its own.
PutManifest(k, m) ==
  /\ Referenceable(parts, m.parts)
  /\ objects' = [objects EXCEPT ![k] = m]
  /\ parts' = PutManifestParts(k, m)
  /\ UNCHANGED buckets

DeleteManifestFreed(k) ==
  AtZero(DecParts(parts, PartsOf(objects[k])), PartsOf(objects[k]))

DeleteManifest(k) ==
  /\ objects[k] # Absent
  /\ objects' = [objects EXCEPT ![k] = Absent]
  /\ parts' = DecParts(parts, PartsOf(objects[k]))
  /\ UNCHANGED buckets

UpdateState(k, s, now) ==
  /\ objects[k] # Absent
  /\ objects' = [objects EXCEPT ![k].state = s, ![k].last_modified = now]
  /\ UNCHANGED <<buckets, parts>>

\* A re-upload of a part number gives the old part back before it takes the
\* new one; the same content under the same number is net zero.
AppendPartParts(k, n, h) ==
  IncParts(DecParts(parts, Single(n, PartsOf(objects[k])[n])), Single(n, h))

AppendPartFreed(k, n, h) ==
  LET old == PartsOf(objects[k])[n]
  IN  IF old = Absent \/ old = h THEN {}
      ELSE AtZero(AppendPartParts(k, n, h), Single(n, old))

\* Mutant of AppendPart: creates the upload if it is not there.
AppendPartUpsert(k, n, h, now) ==
  /\ Referenceable(parts, Single(n, h))
  /\ objects' = [objects EXCEPT ![k] =
                   IF @ = Absent
                   THEN [NewUpload(now) EXCEPT !.parts = Single(n, h)]
                   ELSE [@ EXCEPT !.parts[n] = h, !.last_modified = now]]
  /\ parts' = AppendPartParts(k, n, h)
  /\ UNCHANGED buckets

\* The manifest's state is not looked at, only that the row is there.
AppendPart(k, n, h, now) ==
  /\ objects[k] # Absent
  /\ Referenceable(parts, Single(n, h))
  /\ objects' = [objects EXCEPT ![k].parts[n] = h, ![k].last_modified = now]
  /\ parts' = AppendPartParts(k, n, h)
  /\ UNCHANGED buckets

\* The parts table after handle_complete_multipart: the upload's parts and the
\* replaced object's parts are given back, then the new object's are taken.
CompleteMultipartParts(ik, ck, m) ==
  IncParts(DecParts(DecParts(parts, PartsOf(objects[ik])),
                    PartsOf(objects[ck])),
           m.parts)

\* Mutant of CompleteMultipartFreed: forgets the object that is replaced.
CompleteMultipartFreedUpload(ik, ck, m) ==
  {h \in AtZero(CompleteMultipartParts(ik, ck, m), PartsOf(objects[ik])) :
     Occurrences(m.parts, h) = 0}

\* DeletionEffect of complete_multipart_upload.
CompleteMultipartFreed(ik, ck, m) ==
  LET after == CompleteMultipartParts(ik, ck, m)
  IN  {h \in AtZero(after, PartsOf(objects[ik]))
               \cup AtZero(after, PartsOf(objects[ck])) :
         Occurrences(m.parts, h) = 0}

\* ik is the key of the upload, ck the key of the object it becomes.
CompleteMultipart(ik, ck, m) ==
  /\ objects[ik] # Absent
  /\ objects[ik].state = "InProgress"
  /\ Referenceable(parts, m.parts)
  /\ objects' = [objects EXCEPT ![ck] = m, ![ik] = Absent]
  /\ parts' = CompleteMultipartParts(ik, ck, m)
  /\ UNCHANGED buckets

UpdateManifestTags(k, tags) ==
  /\ objects[k] # Absent
  /\ objects' = [objects EXCEPT ![k].tags = tags]
  /\ UNCHANGED <<buckets, parts>>

UpdateManifestLock(k, lock) ==
  /\ objects[k] # Absent
  /\ objects' = [objects EXCEPT ![k].object_lock = lock]
  /\ UNCHANGED <<buckets, parts>>

------------------------------------------------------------------------------
(* Parts.                                                                  *)

\* Mutant of Markable: the refcount is not checked again.
MarkableUnchecked(h) == parts[h] # Absent

\* mark_part_gc_pending answers true exactly when this holds, also for a row
\* that is GcPending already.
Markable(h) == parts[h] # Absent /\ parts[h].refcount = 0

MarkGcPending(h) ==
  /\ Markable(h)
  /\ parts' = [parts EXCEPT ![h].state = "GcPending"]
  /\ UNCHANGED <<buckets, objects>>

\* Drops the row whatever it holds.
RemovePart(h) ==
  /\ parts' = [parts EXCEPT ![h] = Absent]
  /\ UNCHANGED <<buckets, objects>>

------------------------------------------------------------------------------
(* Queries.                                                                *)

\* What sweep_gc is given to collect.
ListOrphanParts ==
  {h \in Hashes : /\ parts[h] # Absent
                  /\ parts[h].refcount = 0
                  /\ parts[h].state = "Live"}

------------------------------------------------------------------------------
(* The store under any sequence of calls.                                  *)

MetaInit ==
  /\ buckets = [b \in Buckets |-> Absent]
  /\ objects = [k \in ManifestKeys |-> Absent]
  /\ parts = [h \in Hashes |-> Absent]

\* What put_manifest may be given: a single PUT, a delete marker, a new upload,
\* or a copy of some committed object (any list of parts, because the source was
\* read in an earlier operation and may have changed since).
SubmittedManifests ==
  UNION {{NewObject(h, l, t, now) : h \in Hashes, l \in Locks, t \in Tags}
           \cup {Tombstone(now), NewUpload(now)}
           \cup {[state |-> "Committed", kind |-> "Object",
                  upload_mode |-> mode, parts |-> list, tags |-> t,
                  object_lock |-> NoLock, last_modified |-> now] :
                    mode \in {"SinglePut", "Multipart"},
                    list \in PartLists \ {NoParts}, t \in Tags}
         : now \in Times}

\* An upload id is a fresh uuid, never the literal "null".
IsUploadKey(k) == k.version_id # NullVersion

PutStep ==
  \E k \in ManifestKeys, m \in SubmittedManifests :
    /\ m.state = "InProgress" => IsUploadKey(k)
    /\ PutManifest(k, m)

DeleteStep == \E k \in ManifestKeys : DeleteManifest(k)

UpdateStateStep ==
  \E k \in ManifestKeys, s \in ManifestStates, now \in Times :
    /\ s = "InProgress" => IsUploadKey(k)
    /\ UpdateState(k, s, now)

AppendStep ==
  \E k \in ManifestKeys, n \in PartNumbers, h \in Hashes, now \in Times :
    AppendPart(k, n, h, now)

\* The handler completes an upload into the "null" version of its own key.
CompletedKey(ik) == [ik EXCEPT !.version_id = NullVersion]

CompleteStep ==
  \E ik \in ManifestKeys, selected \in PartLists \ {NoParts}, now \in Times :
    CompleteMultipart(ik, CompletedKey(ik), Completed(objects[ik], selected, now))

MetadataStep ==
  \E k \in ManifestKeys :
    \/ \E t \in Tags : UpdateManifestTags(k, t)
    \/ \E l \in Locks : UpdateManifestLock(k, l)

BucketStep ==
  \E b \in Buckets :
    \/ \E lockEnabled \in BOOLEAN : CreateBucket(b, NewBucket(lockEnabled))
    \/ DeleteBucket(b)
    \/ \E v \in VersioningStates : UpdateBucketVersioning(b, v)
    \/ \E r \in CorsRules : UpdateBucketCors(b, r)
    \/ \E c \in LockConfigs : UpdateBucketObjectLock(b, c)
    \/ \E r \in LifecycleRules : UpdateBucketLifecycle(b, r)

MarkStep == \E h \in Hashes : MarkGcPending(h)

\* Every operation but remove_part.
CommonStep ==
  \/ PutStep
  \/ DeleteStep
  \/ UpdateStateStep
  \/ AppendStep
  \/ CompleteStep
  \/ MetadataStep
  \/ BucketStep
  \/ MarkStep

MetaNext == CommonStep \/ \E h \in Hashes : RemovePart(h)

MetaSpec == MetaInit /\ [][MetaNext]_metaVars

\* The discipline the GC protocol asks of its callers: a row is removed only
\* by someone who has marked it and before anything else has happened to it.
DisciplinedRemove(h) ==
  /\ parts[h] # Absent
  /\ parts[h].state = "GcPending"
  /\ RemovePart(h)

DisciplinedNext == CommonStep \/ \E h \in Hashes : DisciplinedRemove(h)

DisciplinedSpec == MetaInit /\ [][DisciplinedNext]_metaVars

------------------------------------------------------------------------------
(* Properties.                                                             *)

\* Every row is a value of its table's row type; in particular no refcount
\* leaves the range of its u32, at either end.
MetaTypeOK ==
  /\ buckets \in [Buckets -> BucketConfigs \cup {Absent}]
  /\ objects \in [ManifestKeys -> Manifests \cup {Absent}]
  /\ parts \in [Hashes -> PartEntries \cup {Absent}]

\* The places of an OBJECTS table that name a hash.
ReferencesIn(table, h) ==
  {r \in ManifestKeys \X PartNumbers : PartsOf(table[r[1]])[r[2]] = h}

References(h) == ReferencesIn(objects, h)

RefcountIn(table, h) == IF table[h] = Absent THEN 0 ELSE table[h].refcount

Refcount(h) == RefcountIn(parts, h)

GcPending(h) == parts[h] # Absent /\ parts[h].state = "GcPending"

\* Whatever the callers do, a refcount never exceeds the number of references
\* there are: no part is kept for ever by a count that nothing will take down.
\* This is about the inc/dec pairs of put_manifest, delete_manifest,
\* append_part and complete_multipart and their order.
RefcountNeverOverstates ==
  \A h \in Hashes : Refcount(h) <= Cardinality(References(h))

\* The refcount is wide enough for every reference there can be, and for those
\* of one manifest more, which put_manifest counts before it gives back the old
\* ones.
RefcountsFit ==
  Cardinality(ManifestKeys \X PartNumbers) + Cardinality(PartNumbers) <= RefMax

\* If rows are removed only while GcPending, the refcount of every part is
\* exactly the number of references to it, through every replacement, re-upload
\* of a part number, completion and deletion.
RefcountExact ==
  \A h \in Hashes : Refcount(h) = Cardinality(References(h))

\* Under the same discipline no manifest names a part that GC has marked: this
\* is what makes it safe to unlink the file of a GcPending part.
GcPendingUnreferenced ==
  \A h \in Hashes : GcPending(h) => References(h) = {}

\* mark_gc_pending marks at refcount zero and inc_part_refcount refuses a
\* marked row, so a marked row stays at zero until it is removed.
GcPendingAtZero ==
  \A h \in Hashes : GcPending(h) => Refcount(h) = 0

\* The race interlock: while a part is GcPending no transaction adds a
\* reference to it, and the row does not come back to life.
NoNewReferenceToPending ==
  [][\A h \in Hashes :
       GcPending(h) => /\ References(h)' \subseteq References(h)
                       /\ parts'[h] \in {parts[h], Absent}]_metaVars

\* Parts that a step leaves without any reference.
LostLastReference ==
  {h \in Hashes : References(h) # {} /\ References(h)' = {}}

\* DeletionEffect is complete and exact: what put, delete, append and complete
\* report as freed is precisely the set of parts whose last reference the
\* transaction took away, so that the caller collects all of them and no other.
EffectIsExact ==
  [][/\ \A k \in ManifestKeys :
          /\ DeleteManifest(k) => DeleteManifestFreed(k) = LostLastReference
          /\ objects'[k] # Absent /\ PutManifest(k, objects'[k])
               => PutManifestFreed(k, objects'[k]) = LostLastReference
          /\ IsUploadKey(k) /\ objects'[CompletedKey(k)] # Absent
               /\ CompleteMultipart(k, CompletedKey(k), objects'[CompletedKey(k)])
               => CompleteMultipartFreed(k, CompletedKey(k),
                                         objects'[CompletedKey(k)])
                    = LostLastReference
     /\ \A k \in ManifestKeys, n \in PartNumbers, h \in Hashes, now \in Times :
          AppendPart(k, n, h, now)
            => AppendPartFreed(k, n, h) = LostLastReference]_metaVars

\* Only a key with an upload id holds an upload in progress, so completing one
\* never removes the row it has just written.
UploadsHaveIds ==
  \A k \in ManifestKeys :
    objects[k] # Absent /\ objects[k].state = "InProgress" => IsUploadKey(k)

==============================================================================
