--------------------------- MODULE MetaStoreProofs ---------------------------
(***************************************************************************)
(* Proofs about the metadata store, for every set of buckets, keys, ids,   *)
(* hashes and part numbers and every width of the refcount.                *)
(***************************************************************************)
EXTENDS MetaStore, FunctionTheorems, FiniteSetTheorems, TLAPS

PartTables == [Hashes -> PartEntries \cup {Absent}]

ObjectTables == [ManifestKeys -> Manifests \cup {Absent}]

------------------------------------------------------------------------------
(* Counting references.                                                    *)

\* A part list names a hash a natural number of times, and no more often than
\* there are part numbers.
LEMMA OccurrencesType ==
  ASSUME NEW list, NEW h
  PROVE  /\ Occurrences(list, h) \in Nat
         /\ Occurrences(list, h) <= Cardinality(PartNumbers)
         /\ Occurrences(list, h) = 0 <=> \A n \in PartNumbers : list[n] # h
<1> DEFINE S == {n \in PartNumbers : list[n] = h}
<1>1. IsFiniteSet(S) /\ Cardinality(S) <= Cardinality(PartNumbers)
  BY MetaAssumption, FS_Subset
<1>2. Cardinality(S) \in Nat
  BY <1>1, FS_CardinalityType
<1>3. Cardinality(S) = 0 <=> S = {}
  BY <1>1, FS_EmptySet
<1> QED
  BY <1>1, <1>2, <1>3 DEF Occurrences

\* The references from the rows other than k.
OtherReferences(table, k, h) ==
  {r \in ReferencesIn(table, h) : r[1] # k}

\* There are finitely many references to a part.
LEMMA ReferencesFinite ==
  ASSUME NEW table, NEW h
  PROVE  /\ IsFiniteSet(ReferencesIn(table, h))
         /\ Cardinality(ReferencesIn(table, h)) \in Nat
<1>1. IsFiniteSet(ManifestKeys \X PartNumbers)
  BY MetaAssumption, FS_Product
<1>2. ReferencesIn(table, h) \in SUBSET (ManifestKeys \X PartNumbers)
  BY DEF ReferencesIn
<1> QED
  BY <1>1, <1>2, FS_Subset, FS_CardinalityType

\* The references to h are those of row k and those of the other rows.
LEMMA SplitReferences ==
  ASSUME NEW table, NEW k \in ManifestKeys, NEW h
  PROVE  /\ Cardinality(ReferencesIn(table, h))
              = Cardinality(OtherReferences(table, k, h))
                  + Occurrences(PartsOf(table[k]), h)
         /\ Cardinality(OtherReferences(table, k, h)) \in Nat
<1> DEFINE S == {n \in PartNumbers : PartsOf(table[k])[n] = h}
           T == {r \in ReferencesIn(table, h) : r[1] = k}
           O == OtherReferences(table, k, h)
           f == [n \in S |-> <<k, n>>]
<1>1. f \in Bijection(S, T)
  <2>1. f \in [S -> T]
    BY DEF ReferencesIn
  <2>2. \A a, b \in S : f[a] = f[b] => a = b
    OBVIOUS
  <2>3. \A t \in T : \E n \in S : f[n] = t
    <3> TAKE t \in T
    <3>1. t = <<k, t[2]>> /\ t[2] \in S
      BY DEF ReferencesIn
    <3> QED
      BY <3>1
  <2> QED
    BY <2>1, <2>2, <2>3, Fun_IsBij
<1>2. IsFiniteSet(S)
  BY MetaAssumption, FS_Subset
<1>3. IsFiniteSet(T) /\ Cardinality(T) = Cardinality(S)
  BY <1>1, <1>2, FS_Bijection DEF ExistsBijection
<1>4. IsFiniteSet(O)
  BY ReferencesFinite, FS_Subset DEF OtherReferences
<1>5. O \cup T = ReferencesIn(table, h) /\ O \cap T = {}
  BY DEF OtherReferences
<1>6. Cardinality(O \cup T) = Cardinality(O) + Cardinality(T) - Cardinality(O \cap T)
  BY <1>3, <1>4, FS_Union
<1>7. Cardinality(O) \in Nat /\ Cardinality(T) \in Nat /\ Cardinality(O \cap T) = 0
  BY <1>3, <1>4, <1>5, FS_CardinalityType, FS_EmptySet
<1>8. Cardinality(ReferencesIn(table, h)) = Cardinality(O) + Cardinality(T)
  <2> HIDE DEF O, T
  <2>1. Cardinality(ReferencesIn(table, h)) = Cardinality(O \cup T)
    BY <1>5, Zenon
  <2>2. Cardinality(O \cup T) = Cardinality(O) + Cardinality(T)
    BY <1>6, <1>7
  <2> QED
    BY <2>1, <2>2
<1> QED
  <2>1. Occurrences(PartsOf(table[k]), h) = Cardinality(S)
    BY DEF Occurrences
  <2> HIDE DEF S, T
  <2> QED
    BY <1>3, <1>7, <1>8, <2>1

\* Two tables with the same rows except for that of k.
SameElsewhere(table, new, k) ==
  \A l \in ManifestKeys : l # k => new[l] = table[l]

\* Replacing one row of the OBJECTS table moves the number of references by
\* what the row names before and after.
LEMMA ReplaceRow ==
  ASSUME NEW table, NEW new, NEW k \in ManifestKeys, NEW h,
         SameElsewhere(table, new, k)
  PROVE  /\ Cardinality(ReferencesIn(new, h))
              = Cardinality(ReferencesIn(table, h))
                  - Occurrences(PartsOf(table[k]), h)
                  + Occurrences(PartsOf(new[k]), h)
         /\ Occurrences(PartsOf(table[k]), h)
              <= Cardinality(ReferencesIn(table, h))
<1>1. OtherReferences(new, k, h) = OtherReferences(table, k, h)
  BY DEF OtherReferences, ReferencesIn, SameElsewhere
<1>2. /\ Cardinality(ReferencesIn(table, h))
           = Cardinality(OtherReferences(table, k, h))
               + Occurrences(PartsOf(table[k]), h)
      /\ Cardinality(OtherReferences(table, k, h)) \in Nat
  BY SplitReferences
<1>3. Cardinality(ReferencesIn(new, h))
        = Cardinality(OtherReferences(new, k, h))
            + Occurrences(PartsOf(new[k]), h)
  BY SplitReferences
<1>4. /\ Occurrences(PartsOf(table[k]), h) \in Nat
      /\ Occurrences(PartsOf(new[k]), h) \in Nat
  BY OccurrencesType
<1> QED
  BY <1>1, <1>2, <1>3, <1>4

------------------------------------------------------------------------------
(* What the refcount helpers do to one row.                                *)

\* Subtraction that stops at zero.
Less(a, b) == IF a >= b THEN a - b ELSE 0

\* A refcount is a natural number within its width.
LEMMA RefcountType ==
  ASSUME NEW table \in PartTables, NEW h \in Hashes
  PROVE  RefcountIn(table, h) \in 0..RefMax
BY MetaAssumption DEF PartTables, PartEntries, RefcountIn

\* IncParts adds the occurrences to the refcount, up to its width, and leaves
\* the state of an existing row alone.
LEMMA IncRefcount ==
  ASSUME NEW table \in PartTables, NEW list, NEW h \in Hashes
  PROVE  LET new == IncParts(table, list)
         IN  /\ new \in PartTables
             /\ RefcountIn(new, h)
                  = Saturated(RefcountIn(table, h) + Occurrences(list, h))
             /\ table[h] # Absent => new[h] # Absent /\ new[h].state = table[h].state
             /\ table[h] = Absent /\ new[h] # Absent => new[h].state = "Live"
<1> DEFINE new == IncParts(table, list)
<1>1. \A g \in Hashes : Occurrences(list, g) \in Nat
  BY OccurrencesType
<1>2. ASSUME NEW g \in Hashes
      PROVE  /\ new[g] \in PartEntries \cup {Absent}
             /\ RefcountIn(new, g)
                  = Saturated(RefcountIn(table, g) + Occurrences(list, g))
             /\ table[g] # Absent => new[g] # Absent /\ new[g].state = table[g].state
             /\ table[g] = Absent /\ new[g] # Absent => new[g].state = "Live"
  <2> DEFINE n == Occurrences(list, g)
  <2>1. n \in Nat
    BY <1>1
  <2>2. new[g] = IF n = 0 THEN table[g]
                 ELSE IF table[g] = Absent
                      THEN [refcount |-> Saturated(n), state |-> "Live"]
                      ELSE [table[g] EXCEPT !.refcount = Saturated(@ + n)]
    BY DEF IncParts
  <2>3. table[g] \in PartEntries \cup {Absent}
    BY DEF PartTables
  <2> HIDE DEF n, new
  <2>4. CASE table[g] = Absent
    BY <2>1, <2>2, <2>4, MetaAssumption, AbsentAssumption
       DEF PartEntries, RefcountIn, Saturated, n
  <2>5. CASE table[g] # Absent
    <3>1. table[g] \in PartEntries
      BY <2>3, <2>5
    <3>2. CASE n = 0
      BY <2>2, <2>5, <3>1, <3>2, MetaAssumption DEF PartEntries, RefcountIn, Saturated, n
    <3>3. CASE n # 0
      <4>1. new[g] = [table[g] EXCEPT !.refcount = Saturated(@ + n)]
        BY <2>2, <2>5, <3>3
      <4>2. Saturated(table[g].refcount + n) \in 0..RefMax
        BY <2>1, <3>1, MetaAssumption DEF PartEntries, Saturated
      <4>3. /\ new[g] \in PartEntries
            /\ new[g].refcount = Saturated(table[g].refcount + n)
            /\ new[g].state = table[g].state
        BY <3>1, <4>1, <4>2 DEF PartEntries
      <4> QED
        BY <2>5, <4>3, AbsentAssumption DEF RefcountIn, n
    <3> QED
      BY <3>2, <3>3
  <2> QED
    BY <2>4, <2>5
<1>3. new \in PartTables
  BY <1>2 DEF PartTables, IncParts
<1> QED
  BY <1>2, <1>3

\* DecParts takes the occurrences from the refcount, down to zero, and leaves
\* the state of the row alone.
LEMMA DecRefcount ==
  ASSUME NEW table \in PartTables, NEW list, NEW h \in Hashes
  PROVE  LET new == DecParts(table, list)
         IN  /\ new \in PartTables
             /\ RefcountIn(new, h)
                  = Less(RefcountIn(table, h), Occurrences(list, h))
             /\ table[h] # Absent => new[h] # Absent /\ new[h].state = table[h].state
             /\ table[h] = Absent => new[h] = Absent
<1> DEFINE new == DecParts(table, list)
<1>1. ASSUME NEW g \in Hashes
      PROVE  /\ new[g] \in PartEntries \cup {Absent}
             /\ RefcountIn(new, g)
                  = Less(RefcountIn(table, g), Occurrences(list, g))
             /\ table[g] # Absent => new[g] # Absent /\ new[g].state = table[g].state
             /\ table[g] = Absent => new[g] = Absent
  <2> DEFINE n == Occurrences(list, g)
  <2>1. n \in Nat
    BY OccurrencesType
  <2>2. new[g] = IF table[g] = Absent THEN Absent
                 ELSE [table[g] EXCEPT !.refcount = IF @ >= n THEN @ - n ELSE 0]
    BY DEF DecParts
  <2> HIDE DEF n, new
  <2>3. CASE table[g] = Absent
    BY <2>1, <2>2, <2>3 DEF RefcountIn, Less, n
  <2>4. CASE table[g] # Absent
    <3>1. table[g] \in PartEntries
      BY <2>4 DEF PartTables
    <3>2. new[g] = [table[g] EXCEPT !.refcount = IF @ >= n THEN @ - n ELSE 0]
      BY <2>2, <2>4
    <3>3. Less(table[g].refcount, n) \in 0..RefMax
      BY <2>1, <3>1, MetaAssumption DEF PartEntries, Less
    <3>4. /\ new[g] \in PartEntries
          /\ new[g].refcount = Less(table[g].refcount, n)
          /\ new[g].state = table[g].state
      BY <3>1, <3>2, <3>3 DEF PartEntries, Less
    <3> QED
      BY <2>4, <3>4, AbsentAssumption DEF RefcountIn, n
  <2> QED
    BY <2>3, <2>4
<1>2. new \in PartTables
  BY <1>1 DEF PartTables, DecParts
<1> QED
  BY <1>1, <1>2

\* The refcount helpers turn a parts table into a parts table.
LEMMA TableTypes ==
  ASSUME NEW table \in PartTables, NEW list
  PROVE  IncParts(table, list) \in PartTables /\ DecParts(table, list) \in PartTables
<1>1. CASE Hashes = {}
  BY <1>1 DEF IncParts, DecParts, PartTables
<1>2. CASE Hashes # {}
  <2>1. PICK h \in Hashes : TRUE
    BY <1>2
  <2> QED
    BY <2>1, IncRefcount, DecRefcount
<1> QED
  BY <1>1, <1>2

------------------------------------------------------------------------------
(* Type correctness.                                                       *)

\* The part lists the handlers build are part lists.
LEMMA PartListTypes ==
  ASSUME NEW n \in PartNumbers, NEW h \in Hashes
  PROVE  Single(n, h) \in PartLists /\ NoParts \in PartLists
BY DEF Single, NoParts, PartLists

\* Every manifest a handler submits is a manifest.
LEMMA SubmittedTypes == SubmittedManifests \subseteq Manifests
<1> SUFFICES ASSUME NEW m \in SubmittedManifests
             PROVE  m \in Manifests
  OBVIOUS
<1>1. PICK now \in Times :
        \/ \E h \in Hashes, l \in Locks, t \in Tags : m = NewObject(h, l, t, now)
        \/ m = Tombstone(now)
        \/ m = NewUpload(now)
        \/ \E mode \in {"SinglePut", "Multipart"}, list \in PartLists, t \in Tags :
             m = [state |-> "Committed", kind |-> "Object",
                  upload_mode |-> mode, parts |-> list, tags |-> t,
                  object_lock |-> NoLock, last_modified |-> now]
  BY DEF SubmittedManifests
<1>2. ASSUME NEW h \in Hashes, NEW l \in Locks, NEW t \in Tags, m = NewObject(h, l, t, now)
      PROVE  m \in Manifests
  BY <1>2, PartListTypes, MetaAssumption DEF NewObject, Manifests, ManifestStates
<1>3. CASE m = Tombstone(now)
  <2>1. NoParts \in PartLists
    BY DEF NoParts, PartLists
  <2> QED
    BY <1>3, <2>1, MetaAssumption DEF Tombstone, Manifests, ManifestStates
<1>4. CASE m = NewUpload(now)
  <2>1. NoParts \in PartLists
    BY DEF NoParts, PartLists
  <2> QED
    BY <1>4, <2>1, MetaAssumption DEF NewUpload, Manifests, ManifestStates
<1>5. ASSUME NEW mode \in {"SinglePut", "Multipart"}, NEW list \in PartLists, NEW t \in Tags,
             m = [state |-> "Committed", kind |-> "Object",
                  upload_mode |-> mode, parts |-> list, tags |-> t,
                  object_lock |-> NoLock, last_modified |-> now]
      PROVE  m \in Manifests
  BY <1>5, MetaAssumption DEF Manifests, ManifestStates
<1> QED
  BY <1>1, <1>2, <1>3, <1>4, <1>5

\* A new bucket has a configuration of the right type.
LEMMA NewBucketType ==
  ASSUME NEW b \in BOOLEAN
  PROVE  NewBucket(b) \in BucketConfigs
BY MetaAssumption DEF NewBucket, BucketConfigs, VersioningStates

\* Every operation but remove_part leaves rows of their types.
LEMMA CommonTypeOK ==
  ASSUME MetaTypeOK, CommonStep
  PROVE  MetaTypeOK'
<1> USE DEF MetaTypeOK
<1>0. parts \in PartTables
  BY DEF PartTables
<1>1. CASE PutStep
  <2>1. PICK k \in ManifestKeys, m \in SubmittedManifests : PutManifest(k, m)
    BY <1>1 DEF PutStep
  <2>2. parts' \in PartTables
    <3>1. IncParts(parts, m.parts) \in PartTables
      BY <1>0, TableTypes
    <3> QED
      BY <2>1, <3>1, TableTypes DEF PutManifest, PutManifestParts
  <2> QED
    BY <2>1, <2>2, SubmittedTypes DEF PutManifest, PartTables
<1>2. CASE DeleteStep
  <2>1. PICK k \in ManifestKeys : DeleteManifest(k)
    BY <1>2 DEF DeleteStep
  <2>2. parts' \in PartTables
    BY <1>0, <2>1, TableTypes DEF DeleteManifest
  <2> QED
    BY <2>1, <2>2 DEF DeleteManifest, PartTables
<1>3. CASE UpdateStateStep
  <2>1. PICK k \in ManifestKeys, st \in ManifestStates, now \in Times :
          UpdateState(k, st, now)
    BY <1>3 DEF UpdateStateStep
  <2>2. objects[k] \in Manifests
    BY <2>1 DEF UpdateState
  <2>3. [objects[k] EXCEPT !.state = st, !.last_modified = now] \in Manifests
    BY <2>2 DEF Manifests
  <2> QED
    BY <2>1, <2>3 DEF UpdateState
<1>4. CASE AppendStep
  <2>1. PICK k \in ManifestKeys, n \in PartNumbers, h \in Hashes, now \in Times :
          AppendPart(k, n, h, now)
    BY <1>4 DEF AppendStep
  <2>2. parts' \in PartTables
    <3>1. DecParts(parts, Single(n, PartsOf(objects[k])[n])) \in PartTables
      BY <1>0, TableTypes
    <3>2. IncParts(DecParts(parts, Single(n, PartsOf(objects[k])[n])), Single(n, h))
            \in PartTables
      BY <3>1, TableTypes
    <3> QED
      BY <2>1, <3>2 DEF AppendPart, AppendPartParts
  <2>3. objects[k] \in Manifests
    BY <2>1 DEF AppendPart
  <2>4. [objects[k] EXCEPT !.parts[n] = h, !.last_modified = now] \in Manifests
    BY <2>3 DEF Manifests, PartLists
  <2> QED
    BY <2>1, <2>2, <2>4 DEF AppendPart, PartTables
<1>5. CASE CompleteStep
  <2>1. PICK ik \in ManifestKeys, selected \in PartLists, now \in Times :
          CompleteMultipart(ik, CompletedKey(ik), Completed(objects[ik], selected, now))
    BY <1>5 DEF CompleteStep
  <2> DEFINE ck == CompletedKey(ik)
             m == Completed(objects[ik], selected, now)
  <2>2. parts' \in PartTables
    <3>1. DecParts(parts, PartsOf(objects[ik])) \in PartTables
      BY <1>0, TableTypes
    <3>2. DecParts(DecParts(parts, PartsOf(objects[ik])), PartsOf(objects[ck])) \in PartTables
      BY <3>1, TableTypes
    <3> QED
      BY <2>1, <3>2, TableTypes DEF CompleteMultipart, CompleteMultipartParts
  <2>3. objects[ik] \in Manifests
    BY <2>1 DEF CompleteMultipart
  <2>4. m \in Manifests
    BY <2>3 DEF Completed, Manifests, ManifestStates
  <2> QED
    BY <2>1, <2>2, <2>4 DEF CompleteMultipart, PartTables
<1>6. CASE MetadataStep
  BY <1>6, AbsentAssumption
     DEF MetadataStep, UpdateManifestTags, UpdateManifestLock, Manifests
<1>7. CASE BucketStep
  <2>1. PICK b \in Buckets :
          \/ \E lockEnabled \in BOOLEAN : CreateBucket(b, NewBucket(lockEnabled))
          \/ DeleteBucket(b)
          \/ \E v \in VersioningStates : UpdateBucketVersioning(b, v)
          \/ \E r \in CorsRules : UpdateBucketCors(b, r)
          \/ \E c \in LockConfigs : UpdateBucketObjectLock(b, c)
          \/ \E r \in LifecycleRules : UpdateBucketLifecycle(b, r)
    BY <1>7 DEF BucketStep
  <2>2. UNCHANGED <<objects, parts>>
    BY <2>1 DEF CreateBucket, DeleteBucket, UpdateBucketVersioning,
                UpdateBucketCors, UpdateBucketObjectLock, UpdateBucketLifecycle
  <2>3. CASE \E lockEnabled \in BOOLEAN : CreateBucket(b, NewBucket(lockEnabled))
    BY <2>2, <2>3, NewBucketType DEF CreateBucket
  <2>4. CASE DeleteBucket(b)
    BY <2>2, <2>4 DEF DeleteBucket
  <2>5. CASE \/ \E v \in VersioningStates : UpdateBucketVersioning(b, v)
             \/ \E r \in CorsRules : UpdateBucketCors(b, r)
             \/ \E c \in LockConfigs : UpdateBucketObjectLock(b, c)
             \/ \E r \in LifecycleRules : UpdateBucketLifecycle(b, r)
    BY <2>2, <2>5 DEF UpdateBucketVersioning, UpdateBucketCors,
         UpdateBucketObjectLock, UpdateBucketLifecycle, BucketConfigs
  <2> QED
    BY <2>1, <2>3, <2>4, <2>5
<1>8. CASE MarkStep
  BY <1>8, AbsentAssumption DEF MarkStep, MarkGcPending, Markable, PartEntries
<1> QED
  BY <1>1, <1>2, <1>3, <1>4, <1>5, <1>6, <1>7, <1>8 DEF CommonStep

\* So does remove_part.
LEMMA RemoveTypeOK ==
  ASSUME MetaTypeOK, NEW h \in Hashes, RemovePart(h)
  PROVE  MetaTypeOK'
BY DEF MetaTypeOK, RemovePart

\* The tables always hold rows of their types, whatever the callers do: no
\* transaction takes a refcount below zero or beyond the width of its u32.
THEOREM MetaTypeCorrect == MetaSpec => []MetaTypeOK
<1>1. MetaInit => MetaTypeOK
  BY DEF MetaInit, MetaTypeOK
<1>2. MetaTypeOK /\ [MetaNext]_metaVars => MetaTypeOK'
  <2> SUFFICES ASSUME MetaTypeOK, [MetaNext]_metaVars
               PROVE  MetaTypeOK'
    OBVIOUS
  <2>1. CASE UNCHANGED metaVars
    BY <2>1 DEF MetaTypeOK, metaVars
  <2> QED
    BY <2>1, CommonTypeOK, RemoveTypeOK DEF MetaNext
<1> QED
  BY <1>1, <1>2, PTL DEF MetaSpec

------------------------------------------------------------------------------
(* Reference counts.                                                       *)

\* A step can only bring an upload in progress to a key with an upload id.
LEMMA CommonUploads ==
  ASSUME MetaTypeOK, UploadsHaveIds, CommonStep
  PROVE  UploadsHaveIds'
<1> SUFFICES ASSUME NEW k \in ManifestKeys, objects'[k] # Absent,
                    objects'[k].state = "InProgress"
             PROVE  IsUploadKey(k)
  BY DEF UploadsHaveIds
<1> USE DEF MetaTypeOK
<1>1. CASE PutStep
  <2>1. PICK l \in ManifestKeys, m \in SubmittedManifests :
          (m.state = "InProgress" => IsUploadKey(l)) /\ PutManifest(l, m)
    BY <1>1 DEF PutStep
  <2> QED
    BY <2>1 DEF PutManifest, UploadsHaveIds
<1>2. CASE DeleteStep
  BY <1>2 DEF DeleteStep, DeleteManifest, UploadsHaveIds
<1>3. CASE UpdateStateStep
  <2>1. PICK l \in ManifestKeys, st \in ManifestStates, now \in Times :
          (st = "InProgress" => IsUploadKey(l)) /\ UpdateState(l, st, now)
    BY <1>3 DEF UpdateStateStep
  <2>2. objects[l] \in Manifests
    BY <2>1 DEF UpdateState
  <2>3. CASE k = l
    BY <2>1, <2>2, <2>3 DEF UpdateState, Manifests
  <2> QED
    BY <2>1, <2>3 DEF UpdateState, UploadsHaveIds
<1>4. CASE AppendStep
  <2>1. PICK l \in ManifestKeys, n \in PartNumbers, h \in Hashes, now \in Times :
          AppendPart(l, n, h, now)
    BY <1>4 DEF AppendStep
  <2>2. objects[l] \in Manifests
    BY <2>1 DEF AppendPart
  <2>3. CASE k = l
    BY <2>1, <2>2, <2>3 DEF AppendPart, UploadsHaveIds, Manifests
  <2> QED
    BY <2>1, <2>3 DEF AppendPart, UploadsHaveIds
<1>5. CASE CompleteStep
  <2>1. PICK ik \in ManifestKeys, selected \in PartLists, now \in Times :
          CompleteMultipart(ik, CompletedKey(ik), Completed(objects[ik], selected, now))
    BY <1>5 DEF CompleteStep
  <2>2. objects[ik] \in Manifests
    BY <2>1 DEF CompleteMultipart
  <2>3. Completed(objects[ik], selected, now).state = "Committed"
    BY <2>2 DEF Completed, Manifests
  <2> QED
    BY <2>1, <2>3 DEF CompleteMultipart, UploadsHaveIds
<1>6. CASE MetadataStep
  <2>1. PICK l \in ManifestKeys :
          \/ \E t \in Tags : UpdateManifestTags(l, t)
          \/ \E lk \in Locks : UpdateManifestLock(l, lk)
    BY <1>6 DEF MetadataStep
  <2>2. objects[l] \in Manifests
    BY <2>1 DEF UpdateManifestTags, UpdateManifestLock
  <2>3. CASE k = l
    BY <2>1, <2>2, <2>3 DEF UpdateManifestTags, UpdateManifestLock, UploadsHaveIds, Manifests
  <2> QED
    BY <2>1, <2>3 DEF UpdateManifestTags, UpdateManifestLock, UploadsHaveIds
<1>7. CASE BucketStep
  BY <1>7 DEF BucketStep, CreateBucket, DeleteBucket, UpdateBucketVersioning,
       UpdateBucketCors, UpdateBucketObjectLock, UpdateBucketLifecycle, UploadsHaveIds
<1>8. CASE MarkStep
  BY <1>8 DEF MarkStep, MarkGcPending, UploadsHaveIds
<1> QED
  BY <1>1, <1>2, <1>3, <1>4, <1>5, <1>6, <1>7, <1>8 DEF CommonStep

PendingIn(table, h) == table[h] # Absent /\ table[h].state = "GcPending"

\* The interlock: a list that may be referenced names no GcPending part.
LEMMA ReferenceableList ==
  ASSUME NEW table, NEW list, NEW h \in Hashes,
         Referenceable(table, list), PendingIn(table, h)
  PROVE  Occurrences(list, h) = 0
<1> SUFFICES ASSUME NEW n \in PartNumbers, list[n] = h
             PROVE  FALSE
  BY OccurrencesType
<1> QED
  BY MetaAssumption DEF Referenceable, PendingIn

\* What one entry of a list contributes to the occurrences of a hash.
LEMMA OccurrencesSplit ==
  ASSUME NEW list, NEW n \in PartNumbers, NEW h \in Hashes
  PROVE  Occurrences(list, h)
           = Cardinality({i \in PartNumbers \ {n} : list[i] = h})
               + Occurrences(Single(n, list[n]), h)
<1> DEFINE O == {i \in PartNumbers \ {n} : list[i] = h}
           S == {i \in PartNumbers : list[i] = h}
           T == {i \in PartNumbers : Single(n, list[n])[i] = h}
<1>1. IsFiniteSet(O) /\ Cardinality(O) \in Nat
  BY MetaAssumption, FS_Subset, FS_CardinalityType
<1>2. CASE list[n] = h
  <2>1. S = O \cup {n} /\ n \notin O
    BY <1>2
  <2>2. T = {n}
    BY <1>2, MetaAssumption DEF Single
  <2> HIDE DEF O, S, T
  <2>3. Cardinality(S) = Cardinality(O) + 1
    BY <1>1, <2>1, FS_AddElement
  <2>4. Cardinality(T) = 1
    BY <2>2, FS_Singleton
  <2>5. Occurrences(list, h) = Cardinality(S)
        /\ Occurrences(Single(n, list[n]), h) = Cardinality(T)
    BY DEF Occurrences, S, T
  <2> QED
    BY <2>3, <2>4, <2>5 DEF O
<1>3. CASE list[n] # h
  <2>1. S = O
    BY <1>3
  <2>2. T = {}
    BY <1>3, MetaAssumption DEF Single
  <2> HIDE DEF O, S, T
  <2>3. Cardinality(T) = 0
    BY <2>2, FS_EmptySet
  <2>5. Occurrences(list, h) = Cardinality(S)
        /\ Occurrences(Single(n, list[n]), h) = Cardinality(T)
    BY DEF Occurrences, S, T
  <2> QED
    BY <1>1, <2>1, <2>3, <2>5 DEF O
<1> QED
  BY <1>2, <1>3

\* A step in which h gains and loses references, and its refcount follows: by
\* increments then decrements, or the other way around.
Moves(h, gained, lost) ==
  /\ lost <= Cardinality(References(h))
  /\ gained <= Cardinality(PartNumbers)
  /\ Cardinality(References(h)') = Cardinality(References(h)) - lost + gained
  /\ \/ Refcount(h)' = Less(Saturated(Refcount(h) + gained), lost)
     \/ Refcount(h)' = Saturated(Less(Refcount(h), lost) + gained)
  /\ GcPending(h) => gained = 0
  /\ GcPending(h)' => GcPending(h) \/ Refcount(h)' = 0

\* A step that changes neither the part lists nor the parts table moves nothing.
LEMMA NothingMoves ==
  ASSUME MetaTypeOK, NEW h \in Hashes, UNCHANGED parts,
         \A k \in ManifestKeys : PartsOf(objects'[k]) = PartsOf(objects[k])
  PROVE  Moves(h, 0, 0)
<1>1. References(h)' = References(h)
  BY DEF References, ReferencesIn
<1>2. Cardinality(References(h)) \in Nat
  BY ReferencesFinite DEF References
<1>3. Refcount(h) \in 0..RefMax
  BY RefcountType DEF Refcount, MetaTypeOK, PartTables
<1>4. Refcount(h)' = Refcount(h) /\ (GcPending(h)' => GcPending(h))
  BY DEF Refcount, RefcountIn, GcPending
<1>5. Cardinality(PartNumbers) \in Nat
  BY MetaAssumption, FS_CardinalityType
<1>6. Less(Saturated(Refcount(h) + 0), 0) = Refcount(h)
  BY <1>3, MetaAssumption DEF Less, Saturated
<1> QED
  BY <1>1, <1>2, <1>4, <1>5, <1>6 DEF Moves

\* Replacing one row of OBJECTS moves the number of references by what the row
\* names before and after.
LEMMA ReferencesMove ==
  ASSUME objects \in ObjectTables, NEW k \in ManifestKeys, NEW row, NEW h,
         objects' = [objects EXCEPT ![k] = row]
  PROVE  /\ Cardinality(References(h)')
              = Cardinality(References(h)) - Occurrences(PartsOf(objects[k]), h)
                  + Occurrences(PartsOf(row), h)
         /\ Occurrences(PartsOf(objects[k]), h) <= Cardinality(References(h))
<1> DEFINE new == objects'
<1>1. new[k] = row /\ SameElsewhere(objects, new, k)
  BY DEF ObjectTables, SameElsewhere
<1>2. References(h)' = ReferencesIn(new, h) /\ References(h) = ReferencesIn(objects, h)
  BY DEF References, ReferencesIn
<1> HIDE DEF new
<1>3. /\ Cardinality(ReferencesIn(new, h))
           = Cardinality(ReferencesIn(objects, h))
               - Occurrences(PartsOf(objects[k]), h)
               + Occurrences(PartsOf(new[k]), h)
      /\ Occurrences(PartsOf(objects[k]), h) <= Cardinality(ReferencesIn(objects, h))
  BY <1>1, ReplaceRow
<1> QED
  BY <1>1, <1>2, <1>3

\* The current and the next parts table, through the operators on tables.
LEMMA PartsFacts ==
  ASSUME NEW h \in Hashes
  PROVE  /\ Refcount(h) = RefcountIn(parts, h)
         /\ Refcount(h)' = RefcountIn(parts', h)
         /\ GcPending(h) = PendingIn(parts, h)
         /\ GcPending(h)' = PendingIn(parts', h)
BY DEF Refcount, RefcountIn, GcPending, PendingIn

\* IncParts and DecParts mark nothing.
LEMMA NothingMarked ==
  ASSUME NEW table \in PartTables, NEW list, NEW h \in Hashes
  PROVE  /\ PendingIn(IncParts(table, list), h) => PendingIn(table, h)
         /\ PendingIn(DecParts(table, list), h) => PendingIn(table, h)
<1>1. PendingIn(IncParts(table, list), h) => PendingIn(table, h)
  BY IncRefcount DEF PendingIn
<1>2. PendingIn(DecParts(table, list), h) => PendingIn(table, h)
  BY DecRefcount DEF PendingIn
<1> QED
  BY <1>1, <1>2

\* put_manifest: gains what the new manifest names, loses what the old one does.
LEMMA PutMoves ==
  ASSUME MetaTypeOK, NEW h \in Hashes, NEW k \in ManifestKeys, NEW m \in Manifests,
         PutManifest(k, m)
  PROVE  Moves(h, Occurrences(m.parts, h), Occurrences(PartsOf(objects[k]), h))
<1> DEFINE g == Occurrences(m.parts, h)
           l == Occurrences(PartsOf(objects[k]), h)
           mid == IncParts(parts, m.parts)
<1>1. parts \in PartTables /\ objects \in ObjectTables
  BY DEF MetaTypeOK, PartTables, ObjectTables
<1>2. PartsOf(m) = m.parts
  BY AbsentAssumption DEF PartsOf
<1>3. /\ Cardinality(References(h)') = Cardinality(References(h)) - l + g
      /\ l <= Cardinality(References(h))
  <2>1. objects' = [objects EXCEPT ![k] = m]
    BY DEF PutManifest
  <2> QED
    BY <1>1, <1>2, <2>1, ReferencesMove
<1>4. /\ mid \in PartTables
      /\ RefcountIn(mid, h) = Saturated(Refcount(h) + g)
      /\ PendingIn(mid, h) => GcPending(h)
  BY <1>1, IncRefcount, NothingMarked, PartsFacts
<1>5. parts' = DecParts(mid, PartsOf(objects[k]))
  BY DEF PutManifest, PutManifestParts
<1>6. /\ Refcount(h)' = Less(RefcountIn(mid, h), l)
      /\ GcPending(h)' => PendingIn(mid, h)
  <2> HIDE DEF mid
  <2> QED
    BY <1>4, <1>5, DecRefcount, NothingMarked, PartsFacts
<1>7. GcPending(h) => g = 0
  BY ReferenceableList, PartsFacts DEF PutManifest
<1>8. g <= Cardinality(PartNumbers)
  BY OccurrencesType
<1> HIDE DEF g, l, mid
<1> QED
  BY <1>3, <1>4, <1>6, <1>7, <1>8 DEF Moves, g, l

\* A row that is not there names nothing.
LEMMA NoOccurrences ==
  ASSUME NEW h \in Hashes
  PROVE  PartsOf(Absent) = NoParts /\ Occurrences(NoParts, h) = 0
BY OccurrencesType, MetaAssumption DEF PartsOf, NoParts

\* delete_manifest: gains nothing, loses what the row named.
LEMMA DeleteMoves ==
  ASSUME MetaTypeOK, NEW h \in Hashes, NEW k \in ManifestKeys, DeleteManifest(k)
  PROVE  Moves(h, 0, Occurrences(PartsOf(objects[k]), h))
<1> DEFINE l == Occurrences(PartsOf(objects[k]), h)
<1>1. parts \in PartTables /\ objects \in ObjectTables
  BY DEF MetaTypeOK, PartTables, ObjectTables
<1>2. /\ Cardinality(References(h)')
           = Cardinality(References(h)) - l + Occurrences(PartsOf(Absent), h)
      /\ l <= Cardinality(References(h))
  <2>1. objects' = [objects EXCEPT ![k] = Absent]
    BY DEF DeleteManifest
  <2> QED
    BY <1>1, <2>1, ReferencesMove
<1>3. Occurrences(PartsOf(Absent), h) = 0
  BY NoOccurrences
<1>4. parts' = DecParts(parts, PartsOf(objects[k]))
  BY DEF DeleteManifest
<1>5. Refcount(h)' = Less(Refcount(h), l) /\ (GcPending(h)' => GcPending(h))
  BY <1>1, <1>4, DecRefcount, NothingMarked, PartsFacts
<1>6. Refcount(h) \in 0..RefMax /\ l \in Nat
  BY <1>1, RefcountType, PartsFacts, OccurrencesType
<1>7. Cardinality(PartNumbers) \in Nat
  BY MetaAssumption, FS_CardinalityType
<1> HIDE DEF l
<1>8. Less(Saturated(Refcount(h) + 0), l) = Less(Refcount(h), l)
  BY <1>6, MetaAssumption DEF Less, Saturated
<1> QED
  BY <1>2, <1>3, <1>5, <1>7, <1>8 DEF Moves, l

\* append_part: gains the part it writes, loses the one that had its number.
LEMMA AppendMoves ==
  ASSUME MetaTypeOK, NEW h \in Hashes, NEW k \in ManifestKeys, NEW n \in PartNumbers,
         NEW h2 \in Hashes, NEW now \in Times, AppendPart(k, n, h2, now)
  PROVE  Moves(h, Occurrences(Single(n, h2), h),
                  Occurrences(Single(n, PartsOf(objects[k])[n]), h))
<1> DEFINE old == PartsOf(objects[k])
           row == [objects[k] EXCEPT !.parts[n] = h2, !.last_modified = now]
           new == [old EXCEPT ![n] = h2]
           g == Occurrences(Single(n, h2), h)
           l == Occurrences(Single(n, old[n]), h)
           mid == DecParts(parts, Single(n, old[n]))
           rest(list) == Cardinality({i \in PartNumbers \ {n} : list[i] = h})
<1>1. parts \in PartTables /\ objects \in ObjectTables
  BY DEF MetaTypeOK, PartTables, ObjectTables
<1>2. objects[k] \in Manifests
  BY <1>1 DEF AppendPart, ObjectTables
<1>3. old = objects[k].parts /\ old \in PartLists
  BY <1>2, AbsentAssumption DEF PartsOf, Manifests
<1>4. row \in Manifests /\ PartsOf(row) = new
  <2>1. row \in Manifests /\ row.parts = new
    BY <1>2, <1>3 DEF Manifests, PartLists
  <2> QED
    BY <2>1, AbsentAssumption DEF PartsOf
<1>5. new[n] = h2 /\ \A i \in PartNumbers \ {n} : new[i] = old[i]
  BY <1>3 DEF PartLists
<1>6. Occurrences(old, h) = rest(old) + l /\ Occurrences(new, h) = rest(old) + g
  <2>1. Occurrences(old, h) = rest(old) + l
    BY OccurrencesSplit
  <2>2. rest(new) = rest(old)
    <3>1. {i \in PartNumbers \ {n} : new[i] = h} = {i \in PartNumbers \ {n} : old[i] = h}
      BY <1>5
    <3> QED
      BY <3>1
  <2>3. Occurrences(new, h) = rest(new) + Occurrences(Single(n, new[n]), h)
    BY OccurrencesSplit
  <2> HIDE DEF rest, new, old
  <2> QED
    BY <1>5, <2>1, <2>2, <2>3
<1>7. rest(old) \in Nat
  BY MetaAssumption, FS_Subset, FS_CardinalityType
<1>8. /\ Cardinality(References(h)')
           = Cardinality(References(h)) - Occurrences(old, h) + Occurrences(new, h)
      /\ Occurrences(old, h) <= Cardinality(References(h))
  <2>1. objects' = [objects EXCEPT ![k] = row]
    BY DEF AppendPart
  <2>2. /\ Cardinality(References(h)')
             = Cardinality(References(h)) - Occurrences(old, h)
                 + Occurrences(PartsOf(row), h)
        /\ Occurrences(old, h) <= Cardinality(References(h))
    <3> HIDE DEF row
    <3> QED
      BY <1>1, <2>1, ReferencesMove
  <2> QED
    BY <1>4, <2>2
<1>9. /\ mid \in PartTables
      /\ RefcountIn(mid, h) = Less(Refcount(h), l)
      /\ PendingIn(mid, h) => GcPending(h)
  BY <1>1, DecRefcount, NothingMarked, PartsFacts
<1>10. parts' = IncParts(mid, Single(n, h2))
  BY DEF AppendPart, AppendPartParts
<1>11. /\ Refcount(h)' = Saturated(RefcountIn(mid, h) + g)
       /\ GcPending(h)' => PendingIn(mid, h)
  <2> HIDE DEF mid
  <2> QED
    BY <1>9, <1>10, IncRefcount, NothingMarked, PartsFacts
<1>12. GcPending(h) => g = 0
  BY ReferenceableList, PartsFacts DEF AppendPart
<1>13. g <= Cardinality(PartNumbers) /\ g \in Nat /\ l \in Nat
  BY OccurrencesType
<1>14. Cardinality(References(h)) \in Nat
  BY ReferencesFinite DEF References
<1> HIDE DEF g, l, mid, rest, old, new
<1>15. /\ l <= Cardinality(References(h))
       /\ Cardinality(References(h)') = Cardinality(References(h)) - l + g
  BY <1>6, <1>7, <1>8, <1>13, <1>14
<1> QED
  BY <1>9, <1>11, <1>12, <1>13, <1>15 DEF Moves, g, l, old

\* complete_multipart: gains what the object names, loses what the upload and
\* the object it replaces named.
LEMMA CompleteMoves ==
  ASSUME MetaTypeOK, UploadsHaveIds, NEW h \in Hashes, NEW ik \in ManifestKeys,
         NEW m \in Manifests, CompleteMultipart(ik, CompletedKey(ik), m)
  PROVE  Moves(h, Occurrences(m.parts, h),
                  Occurrences(PartsOf(objects[ik]), h)
                    + Occurrences(PartsOf(objects[CompletedKey(ik)]), h))
<1> DEFINE ck == CompletedKey(ik)
           a == Occurrences(PartsOf(objects[ik]), h)
           b == Occurrences(PartsOf(objects[ck]), h)
           g == Occurrences(m.parts, h)
           o1 == [objects EXCEPT ![ik] = Absent]
           o2 == [o1 EXCEPT ![ck] = m]
           t1 == DecParts(parts, PartsOf(objects[ik]))
           t2 == DecParts(t1, PartsOf(objects[ck]))
<1>1. parts \in PartTables /\ objects \in ObjectTables
  BY DEF MetaTypeOK, PartTables, ObjectTables
<1>2. ck \in ManifestKeys /\ ck # ik
  <2>1. IsUploadKey(ik)
    BY DEF CompleteMultipart, UploadsHaveIds
  <2> QED
    BY <2>1, MetaAssumption DEF CompletedKey, IsUploadKey, ManifestKeys
<1>3. /\ o1[ik] = Absent /\ SameElsewhere(objects, o1, ik)
      /\ o2[ck] = m /\ SameElsewhere(o1, o2, ck)
      /\ objects' = o2
  BY <1>1, <1>2 DEF CompleteMultipart, ObjectTables, SameElsewhere
<1>4. /\ Cardinality(ReferencesIn(o1, h)) = Cardinality(References(h)) - a
      /\ a <= Cardinality(References(h))
  <2>1. /\ Cardinality(ReferencesIn(o1, h))
             = Cardinality(ReferencesIn(objects, h)) - a + Occurrences(PartsOf(Absent), h)
        /\ a <= Cardinality(ReferencesIn(objects, h))
    <3> HIDE DEF o1
    <3> QED
      BY <1>3, ReplaceRow
  <2>2. Occurrences(PartsOf(Absent), h) = 0
    BY NoOccurrences
  <2>3. Cardinality(ReferencesIn(objects, h)) \in Nat /\ a \in Nat
    BY ReferencesFinite, OccurrencesType
  <2> HIDE DEF a, o1
  <2> QED
    BY <2>1, <2>2, <2>3 DEF References
<1>5. /\ Cardinality(ReferencesIn(o2, h)) = Cardinality(ReferencesIn(o1, h)) - b + g
      /\ b <= Cardinality(ReferencesIn(o1, h))
  <2>1. PartsOf(m) = m.parts
    BY AbsentAssumption DEF PartsOf
  <2> HIDE DEF o1, o2, ck
  <2>2. /\ Cardinality(ReferencesIn(o2, h))
             = Cardinality(ReferencesIn(o1, h)) - Occurrences(PartsOf(o1[ck]), h)
                 + Occurrences(PartsOf(o2[ck]), h)
        /\ Occurrences(PartsOf(o1[ck]), h) <= Cardinality(ReferencesIn(o1, h))
    BY <1>2, <1>3, ReplaceRow
  <2>3. o2[ck] = m /\ o1[ck] = objects[ck]
    BY <1>2, <1>3 DEF SameElsewhere
  <2> QED
    BY <2>1, <2>2, <2>3
<1>6. References(h)' = ReferencesIn(o2, h)
  <2> HIDE DEF o2
  <2> QED
    BY <1>3 DEF References, ReferencesIn
<1>7. /\ t1 \in PartTables
      /\ RefcountIn(t1, h) = Less(Refcount(h), a)
      /\ PendingIn(t1, h) => GcPending(h)
  BY <1>1, DecRefcount, NothingMarked, PartsFacts
<1>8. /\ t2 \in PartTables
      /\ RefcountIn(t2, h) = Less(RefcountIn(t1, h), b)
      /\ PendingIn(t2, h) => PendingIn(t1, h)
  <2> HIDE DEF t1
  <2> QED
    BY <1>7, DecRefcount, NothingMarked
<1>9. parts' = IncParts(t2, m.parts)
  BY DEF CompleteMultipart, CompleteMultipartParts
<1>10. /\ Refcount(h)' = Saturated(RefcountIn(t2, h) + g)
       /\ GcPending(h)' => PendingIn(t2, h)
  <2> HIDE DEF t2
  <2> QED
    BY <1>8, <1>9, IncRefcount, NothingMarked, PartsFacts
<1>11. GcPending(h) => g = 0
  BY ReferenceableList, PartsFacts DEF CompleteMultipart
<1>12. a \in Nat /\ b \in Nat /\ g \in Nat /\ g <= Cardinality(PartNumbers)
  BY OccurrencesType
<1>13. Cardinality(References(h)) \in Nat /\ Refcount(h) \in 0..RefMax
  BY <1>1, ReferencesFinite, RefcountType, PartsFacts DEF References
<1> HIDE DEF a, b, g, o1, o2, t1, t2, ck
<1>14. Less(Less(Refcount(h), a), b) = Less(Refcount(h), a + b)
  BY <1>12, <1>13, MetaAssumption DEF Less
<1>15. /\ a + b <= Cardinality(References(h))
       /\ Cardinality(References(h)') = Cardinality(References(h)) - (a + b) + g
  BY <1>4, <1>5, <1>6, <1>12, <1>13
<1>16. Moves(h, g, a + b)
  BY <1>7, <1>8, <1>10, <1>11, <1>12, <1>14, <1>15 DEF Moves
<1> QED
  BY <1>16 DEF a, b, g, ck

\* mark_gc_pending: no count changes, and a row that becomes GcPending is at zero.
LEMMA MarkMoves ==
  ASSUME MetaTypeOK, NEW h \in Hashes, NEW x \in Hashes, MarkGcPending(x)
  PROVE  Moves(h, 0, 0)
<1>1. References(h)' = References(h)
  BY DEF MarkGcPending, References, ReferencesIn
<1>2. Cardinality(References(h)) \in Nat
  BY ReferencesFinite DEF References
<1>3. Refcount(h) \in 0..RefMax
  BY RefcountType DEF Refcount, MetaTypeOK, PartTables
<1>4. Refcount(h)' = Refcount(h) /\ (GcPending(h)' => GcPending(h) \/ Refcount(h)' = 0)
  <2>1. parts[x] \in PartEntries /\ parts[x].refcount = 0
    BY DEF MarkGcPending, Markable, MetaTypeOK
  <2>2. CASE h = x
    <3>1. /\ parts'[h] \in PartEntries
          /\ parts'[h].refcount = parts[h].refcount
      BY <2>1, <2>2 DEF MarkGcPending, MetaTypeOK, PartEntries
    <3> QED
      BY <2>1, <2>2, <3>1, AbsentAssumption DEF Refcount, RefcountIn
  <2>3. CASE h # x
    <3>1. parts'[h] = parts[h]
      BY <2>3 DEF MarkGcPending, MetaTypeOK
    <3> QED
      BY <3>1 DEF Refcount, RefcountIn, GcPending
  <2> QED
    BY <2>2, <2>3
<1>5. Cardinality(PartNumbers) \in Nat
  BY MetaAssumption, FS_CardinalityType
<1>6. Less(Saturated(Refcount(h) + 0), 0) = Refcount(h)
  BY <1>3, MetaAssumption DEF Less, Saturated
<1> QED
  BY <1>1, <1>2, <1>4, <1>5, <1>6 DEF Moves

\* Every operation but remove_part moves the references to a part and its
\* refcount together.
LEMMA CommonMoves ==
  ASSUME MetaTypeOK, UploadsHaveIds, CommonStep, NEW h \in Hashes
  PROVE  \E gained, lost \in Nat : Moves(h, gained, lost)
<1>1. CASE PutStep
  <2>1. PICK k \in ManifestKeys, m \in SubmittedManifests : PutManifest(k, m)
    BY <1>1 DEF PutStep
  <2>2. m \in Manifests
    BY SubmittedTypes
  <2>3. Moves(h, Occurrences(m.parts, h), Occurrences(PartsOf(objects[k]), h))
    BY <2>1, <2>2, PutMoves
  <2>4. Occurrences(m.parts, h) \in Nat /\ Occurrences(PartsOf(objects[k]), h) \in Nat
    BY OccurrencesType
  <2> QED
    BY <2>3, <2>4
<1>2. CASE DeleteStep
  <2>1. PICK k \in ManifestKeys : DeleteManifest(k)
    BY <1>2 DEF DeleteStep
  <2>2. Moves(h, 0, Occurrences(PartsOf(objects[k]), h))
    BY <2>1, DeleteMoves
  <2>3. Occurrences(PartsOf(objects[k]), h) \in Nat
    BY OccurrencesType
  <2> QED
    BY <2>2, <2>3
<1>3. CASE UpdateStateStep
  <2>1. PICK k \in ManifestKeys, st \in ManifestStates, now \in Times :
          UpdateState(k, st, now)
    BY <1>3 DEF UpdateStateStep
  <2>2. [objects[k] EXCEPT !.state = st, !.last_modified = now] \in Manifests
        /\ [objects[k] EXCEPT !.state = st, !.last_modified = now].parts = objects[k].parts
    BY <2>1 DEF UpdateState, MetaTypeOK, Manifests
  <2>3. \A j \in ManifestKeys : PartsOf(objects'[j]) = PartsOf(objects[j])
    BY <2>1, <2>2, AbsentAssumption DEF UpdateState, MetaTypeOK, PartsOf
  <2>4. Moves(h, 0, 0)
    BY <2>1, <2>3, NothingMoves DEF UpdateState
  <2> QED
    BY <2>4
<1>4. CASE AppendStep
  <2>1. PICK k \in ManifestKeys, n \in PartNumbers, h2 \in Hashes, now \in Times :
          AppendPart(k, n, h2, now)
    BY <1>4 DEF AppendStep
  <2>2. Moves(h, Occurrences(Single(n, h2), h),
                 Occurrences(Single(n, PartsOf(objects[k])[n]), h))
    BY <2>1, AppendMoves
  <2>3. /\ Occurrences(Single(n, h2), h) \in Nat
        /\ Occurrences(Single(n, PartsOf(objects[k])[n]), h) \in Nat
    BY OccurrencesType
  <2> QED
    BY <2>2, <2>3
<1>5. CASE CompleteStep
  <2>1. PICK ik \in ManifestKeys, selected \in PartLists, now \in Times :
          CompleteMultipart(ik, CompletedKey(ik), Completed(objects[ik], selected, now))
    BY <1>5 DEF CompleteStep
  <2> DEFINE m == Completed(objects[ik], selected, now)
             a == Occurrences(PartsOf(objects[ik]), h)
             b == Occurrences(PartsOf(objects[CompletedKey(ik)]), h)
  <2>2. m \in Manifests
    BY <2>1 DEF CompleteMultipart, MetaTypeOK, Completed, Manifests, ManifestStates
  <2>3. Occurrences(m.parts, h) \in Nat /\ a \in Nat /\ b \in Nat
    BY OccurrencesType
  <2>4. Moves(h, Occurrences(m.parts, h), a + b)
    <3>1. CompleteMultipart(ik, CompletedKey(ik), m)
      BY <2>1
    <3> HIDE DEF m
    <3> QED
      BY <2>2, <3>1, CompleteMoves
  <2> HIDE DEF a, b, m
  <2>5. a + b \in Nat
    BY <2>3
  <2> QED
    BY <2>3, <2>4, <2>5
<1>6. CASE MetadataStep
  <2>1. PICK k \in ManifestKeys :
          \/ \E t \in Tags : UpdateManifestTags(k, t)
          \/ \E lk \in Locks : UpdateManifestLock(k, lk)
    BY <1>6 DEF MetadataStep
  <2>2. /\ objects[k] \in Manifests /\ objects'[k] \in Manifests
        /\ objects'[k].parts = objects[k].parts
    BY <2>1 DEF UpdateManifestTags, UpdateManifestLock, MetaTypeOK, Manifests
  <2>3. \A j \in ManifestKeys : j # k => objects'[j] = objects[j]
    BY <2>1 DEF UpdateManifestTags, UpdateManifestLock, MetaTypeOK
  <2>4. \A j \in ManifestKeys : PartsOf(objects'[j]) = PartsOf(objects[j])
    BY <2>2, <2>3, AbsentAssumption DEF PartsOf
  <2>5. Moves(h, 0, 0)
    BY <2>1, <2>4, NothingMoves DEF UpdateManifestTags, UpdateManifestLock
  <2> QED
    BY <2>5
<1>7. CASE BucketStep
  <2>1. UNCHANGED <<objects, parts>>
    BY <1>7 DEF BucketStep, CreateBucket, DeleteBucket, UpdateBucketVersioning,
         UpdateBucketCors, UpdateBucketObjectLock, UpdateBucketLifecycle
  <2>2. Moves(h, 0, 0)
    BY <2>1, NothingMoves
  <2> QED
    BY <2>2
<1>8. CASE MarkStep
  <2>1. Moves(h, 0, 0)
    BY <1>8, MarkMoves DEF MarkStep
  <2> QED
    BY <2>1
<1> QED
  BY <1>1, <1>2, <1>3, <1>4, <1>5, <1>6, <1>7, <1>8 DEF CommonStep

\* remove_part leaves the references alone and the refcount at zero.
LEMMA RemoveMoves ==
  ASSUME MetaTypeOK, NEW x \in Hashes, RemovePart(x), NEW h \in Hashes
  PROVE  /\ References(h)' = References(h)
         /\ Refcount(h)' = IF h = x THEN 0 ELSE Refcount(h)
         /\ GcPending(h)' => GcPending(h)
         /\ UploadsHaveIds => UploadsHaveIds'
BY DEF RemovePart, MetaTypeOK, References, ReferencesIn, Refcount, RefcountIn,
       GcPending, UploadsHaveIds

OverstateInv == MetaTypeOK /\ UploadsHaveIds /\ RefcountNeverOverstates

\* Whatever the callers of the actor do, and even when refcounts saturate, no
\* refcount exceeds the number of references to its part.
THEOREM RefcountBound == MetaSpec => []RefcountNeverOverstates
<1>1. MetaInit => OverstateInv
  <2> SUFFICES ASSUME MetaInit
               PROVE  OverstateInv
    OBVIOUS
  <2>1. MetaTypeOK /\ UploadsHaveIds
    BY DEF MetaInit, MetaTypeOK, UploadsHaveIds
  <2>2. \A h \in Hashes : Refcount(h) = 0 /\ Cardinality(References(h)) \in Nat
    BY ReferencesFinite DEF MetaInit, Refcount, RefcountIn, References
  <2> QED
    BY <2>1, <2>2 DEF OverstateInv, RefcountNeverOverstates
<1>2. OverstateInv /\ [MetaNext]_metaVars => OverstateInv'
  <2> SUFFICES ASSUME OverstateInv, [MetaNext]_metaVars
               PROVE  OverstateInv'
    OBVIOUS
  <2>1. CASE UNCHANGED metaVars
    BY <2>1 DEF OverstateInv, metaVars, MetaTypeOK, UploadsHaveIds,
         RefcountNeverOverstates, Refcount, RefcountIn, References, ReferencesIn
  <2>2. CASE CommonStep
    <3>1. MetaTypeOK' /\ UploadsHaveIds'
      BY <2>2, CommonTypeOK, CommonUploads DEF OverstateInv
    <3>2. ASSUME NEW h \in Hashes
          PROVE  Refcount(h)' <= Cardinality(References(h)')
      <4>1. PICK gained \in Nat, lost \in Nat : Moves(h, gained, lost)
        BY <2>2, CommonMoves DEF OverstateInv
      <4>2. Refcount(h) \in 0..RefMax
        BY RefcountType DEF OverstateInv, MetaTypeOK, PartTables, Refcount
      <4>3. Cardinality(References(h)) \in Nat /\ Refcount(h) <= Cardinality(References(h))
        BY ReferencesFinite DEF OverstateInv, RefcountNeverOverstates, References
      <4> QED
        BY <4>1, <4>2, <4>3, MetaAssumption DEF Moves, Less, Saturated
    <3> QED
      BY <3>1, <3>2 DEF OverstateInv, RefcountNeverOverstates
  <2>3. ASSUME NEW x \in Hashes, RemovePart(x)
        PROVE  OverstateInv'
    <3>1. MetaTypeOK'
      BY <2>3, RemoveTypeOK DEF OverstateInv
    <3>2. UploadsHaveIds'
      BY <2>3, RemoveMoves DEF OverstateInv
    <3>3. ASSUME NEW h \in Hashes
          PROVE  Refcount(h)' <= Cardinality(References(h)')
      <4>1. Cardinality(References(h)) \in Nat /\ Refcount(h) <= Cardinality(References(h))
        BY ReferencesFinite DEF OverstateInv, RefcountNeverOverstates, References
      <4> QED
        BY <2>3, <4>1, RemoveMoves DEF OverstateInv
    <3> QED
      BY <3>1, <3>2, <3>3 DEF OverstateInv, RefcountNeverOverstates
  <2> QED
    BY <2>1, <2>2, <2>3 DEF MetaNext
<1>3. OverstateInv => RefcountNeverOverstates
  BY DEF OverstateInv
<1> QED
  BY <1>1, <1>2, <1>3, PTL DEF MetaSpec

------------------------------------------------------------------------------
(* The GC protocol, followed by every caller.                              *)

ProtocolInv ==
  MetaTypeOK /\ UploadsHaveIds /\ RefcountExact /\ GcPendingAtZero

\* There are no more references to a part than places to name it.
LEMMA ReferencesBounded ==
  ASSUME RefcountsFit, NEW h
  PROVE  /\ Cardinality(References(h)) \in Nat
         /\ Cardinality(References(h)) + Cardinality(PartNumbers) <= RefMax
<1>1. IsFiniteSet(ManifestKeys \X PartNumbers)
  BY MetaAssumption, FS_Product
<1>2. References(h) \in SUBSET (ManifestKeys \X PartNumbers)
  BY DEF References, ReferencesIn
<1>3. Cardinality(References(h)) <= Cardinality(ManifestKeys \X PartNumbers)
  BY <1>1, <1>2, FS_Subset
<1>4. /\ Cardinality(References(h)) \in Nat
      /\ Cardinality(ManifestKeys \X PartNumbers) \in Nat
      /\ Cardinality(PartNumbers) \in Nat
  BY <1>1, <1>2, MetaAssumption, FS_Subset, FS_CardinalityType
<1> QED
  BY <1>3, <1>4, MetaAssumption DEF RefcountsFit

\* The empty tables satisfy it.
LEMMA ProtocolInit ==
  ASSUME MetaInit
  PROVE  ProtocolInv
<1>1. MetaTypeOK /\ UploadsHaveIds
  BY DEF MetaInit, MetaTypeOK, UploadsHaveIds
<1>2. ASSUME NEW h \in Hashes
      PROVE  Refcount(h) = 0 /\ References(h) = {} /\ ~GcPending(h)
  BY MetaAssumption DEF MetaInit, Refcount, RefcountIn, References, ReferencesIn,
       PartsOf, NoParts, GcPending
<1>3. Cardinality({}) = 0
  BY FS_EmptySet
<1> QED
  BY <1>1, <1>2, <1>3 DEF ProtocolInv, RefcountExact, GcPendingAtZero

\* A step of callers that follow the protocol keeps refcounts exact.
LEMMA ProtocolStep ==
  ASSUME RefcountsFit, ProtocolInv, [DisciplinedNext]_metaVars
  PROVE  ProtocolInv'
<1>1. CASE UNCHANGED metaVars
  BY <1>1 DEF ProtocolInv, metaVars, MetaTypeOK, UploadsHaveIds, RefcountExact,
       GcPendingAtZero, GcPending, Refcount, RefcountIn, References, ReferencesIn
<1>2. CASE CommonStep
  <2>1. MetaTypeOK' /\ UploadsHaveIds'
    BY <1>2, CommonTypeOK, CommonUploads DEF ProtocolInv
  <2>2. ASSUME NEW h \in Hashes
        PROVE  /\ Refcount(h)' = Cardinality(References(h)')
               /\ GcPending(h)' => Refcount(h)' = 0
    <3>1. PICK gained \in Nat, lost \in Nat : Moves(h, gained, lost)
      BY <1>2, CommonMoves DEF ProtocolInv
    <3>2. /\ Refcount(h) = Cardinality(References(h))
          /\ GcPending(h) => Refcount(h) = 0
      BY DEF ProtocolInv, RefcountExact, GcPendingAtZero
    <3>3. /\ Cardinality(References(h)) \in Nat
          /\ Cardinality(References(h)) + Cardinality(PartNumbers) <= RefMax
          /\ Cardinality(PartNumbers) \in Nat
      BY ReferencesBounded, MetaAssumption, FS_CardinalityType
    <3>4. Refcount(h)' = Cardinality(References(h)')
      BY <3>1, <3>2, <3>3, MetaAssumption DEF Moves, Less, Saturated
    <3>5. GcPending(h)' => Refcount(h)' = 0
      BY <3>1, <3>2, <3>3, <3>4 DEF Moves
    <3> QED
      BY <3>4, <3>5
  <2> QED
    BY <2>1, <2>2 DEF ProtocolInv, RefcountExact, GcPendingAtZero
<1>3. ASSUME NEW x \in Hashes, DisciplinedRemove(x)
      PROVE  ProtocolInv'
  <2>1. RemovePart(x) /\ GcPending(x)
    BY <1>3 DEF DisciplinedRemove, GcPending
  <2>2. MetaTypeOK'
    BY <2>1, RemoveTypeOK DEF ProtocolInv
  <2>3. UploadsHaveIds'
    BY <2>1, RemoveMoves DEF ProtocolInv
  <2>4. ASSUME NEW h \in Hashes
        PROVE  /\ Refcount(h)' = Cardinality(References(h)')
               /\ GcPending(h)' => Refcount(h)' = 0
    <3>1. /\ References(h)' = References(h)
          /\ Refcount(h)' = IF h = x THEN 0 ELSE Refcount(h)
          /\ GcPending(h)' => GcPending(h)
      BY <2>1, RemoveMoves DEF ProtocolInv
    <3>2. /\ Refcount(h) = Cardinality(References(h))
          /\ GcPending(h) => Refcount(h) = 0
          /\ Refcount(x) = 0
      BY <2>1 DEF ProtocolInv, RefcountExact, GcPendingAtZero
    <3> QED
      BY <3>1, <3>2
  <2> QED
    BY <2>2, <2>3, <2>4 DEF ProtocolInv, RefcountExact, GcPendingAtZero
<1> QED
  BY <1>1, <1>2, <1>3 DEF DisciplinedNext

\* The invariant of the GC protocol is inductive.
LEMMA ProtocolInvariant ==
  ASSUME RefcountsFit
  PROVE  DisciplinedSpec => []ProtocolInv
<1>1. MetaInit => ProtocolInv
  BY ProtocolInit
<1>2. ProtocolInv /\ [DisciplinedNext]_metaVars => ProtocolInv'
  BY ProtocolStep
<1> QED
  BY <1>1, <1>2, PTL DEF DisciplinedSpec

\* If every caller follows the GC protocol and the refcount is wide enough, the
\* refcount of a part is at all times the number of references to it.
THEOREM RefcountsAreExact ==
  ASSUME RefcountsFit
  PROVE  DisciplinedSpec => []RefcountExact
<1>1. ProtocolInv => RefcountExact
  BY DEF ProtocolInv
<1> QED
  BY <1>1, ProtocolInvariant, PTL

\* With exact refcounts a marked part, whose count is zero, is named nowhere.
LEMMA ProtocolUnreferenced == ProtocolInv => GcPendingUnreferenced
<1> SUFFICES ASSUME ProtocolInv, NEW h \in Hashes, GcPending(h)
             PROVE  References(h) = {}
  BY DEF GcPendingUnreferenced
<1>1. Cardinality(References(h)) = 0
  BY DEF ProtocolInv, RefcountExact, GcPendingAtZero
<1>2. IsFiniteSet(References(h))
  BY ReferencesFinite DEF References
<1> QED
  BY <1>1, <1>2, FS_EmptySet

\* Under the same assumptions no manifest names a part that is GcPending, so the
\* file of such a part can be unlinked.
THEOREM PendingIsUnreferenced ==
  ASSUME RefcountsFit
  PROVE  DisciplinedSpec => []GcPendingUnreferenced
<1>1. ProtocolInv => GcPendingUnreferenced
  BY ProtocolUnreferenced
<1> QED
  BY <1>1, ProtocolInvariant, PTL

------------------------------------------------------------------------------
(* The interlock between GC and new references.                            *)

\* Counting a list that does not name h leaves the row of h alone.
LEMMA IncElsewhere ==
  ASSUME NEW table, NEW list, NEW h \in Hashes, Occurrences(list, h) = 0
  PROVE  IncParts(table, list)[h] = table[h]
BY DEF IncParts

\* A refcount at zero stays at zero when references are given back.
LEMMA DecAtZero ==
  ASSUME NEW table \in PartTables, NEW list, NEW h \in Hashes,
         table[h] # Absent, table[h].refcount = 0
  PROVE  DecParts(table, list)[h] = table[h]
<1> DEFINE n == Occurrences(list, h)
<1>1. n \in Nat
  BY OccurrencesType
<1>2. table[h] \in PartEntries
  BY DEF PartTables
<1>3. DecParts(table, list)[h]
        = [table[h] EXCEPT !.refcount = IF @ >= n THEN @ - n ELSE 0]
  BY DEF DecParts
<1> HIDE DEF n
<1>4. (IF table[h].refcount >= n THEN table[h].refcount - n ELSE 0) = table[h].refcount
  BY <1>1
<1> QED
  BY <1>2, <1>3, <1>4 DEF PartEntries

\* No entry of the OBJECTS table comes to name h.
NamesNoMore(h) ==
  \A k \in ManifestKeys, n \in PartNumbers :
    PartsOf(objects'[k])[n] = h => PartsOf(objects[k])[n] = h

\* While a part is GcPending its row stands still and nothing new names it,
\* in every operation but remove_part.
LEMMA PendingFrozen ==
  ASSUME MetaTypeOK, GcPendingAtZero, CommonStep, NEW h \in Hashes, GcPending(h)
  PROVE  NamesNoMore(h) /\ parts'[h] = parts[h]
<1>1. parts \in PartTables /\ objects \in ObjectTables
  BY DEF MetaTypeOK, PartTables, ObjectTables
<1>2. parts[h] # Absent /\ parts[h].refcount = 0 /\ PendingIn(parts, h)
  BY DEF GcPendingAtZero, GcPending, Refcount, RefcountIn, PendingIn
<1>3. ASSUME UNCHANGED parts,
             \A k \in ManifestKeys : PartsOf(objects'[k]) = PartsOf(objects[k])
      PROVE  NamesNoMore(h) /\ parts'[h] = parts[h]
  BY <1>3 DEF NamesNoMore
<1>4. CASE PutStep
  <2>1. PICK k \in ManifestKeys, m \in SubmittedManifests : PutManifest(k, m)
    BY <1>4 DEF PutStep
  <2>2. PartsOf(m) = m.parts
    BY SubmittedTypes, AbsentAssumption DEF PartsOf
  <2>3. Occurrences(m.parts, h) = 0
    BY <1>2, <2>1, ReferenceableList DEF PutManifest
  <2>4. \A n \in PartNumbers : m.parts[n] # h
    BY <2>3, OccurrencesType
  <2>5. NamesNoMore(h)
    BY <1>1, <2>1, <2>2, <2>4 DEF PutManifest, NamesNoMore, ObjectTables
  <2>6. parts'[h] = parts[h]
    <3> DEFINE mid == IncParts(parts, m.parts)
    <3>1. mid \in PartTables /\ mid[h] = parts[h]
      BY <1>1, <2>3, TableTypes, IncElsewhere
    <3>2. parts' = DecParts(mid, PartsOf(objects[k]))
      BY <2>1 DEF PutManifest, PutManifestParts
    <3> HIDE DEF mid
    <3> QED
      BY <1>2, <3>1, <3>2, DecAtZero
  <2> QED
    BY <2>5, <2>6
<1>5. CASE DeleteStep
  <2>1. PICK k \in ManifestKeys : DeleteManifest(k)
    BY <1>5 DEF DeleteStep
  <2>2. NamesNoMore(h)
    BY <1>1, <2>1, MetaAssumption DEF DeleteManifest, NamesNoMore, ObjectTables,
         PartsOf, NoParts
  <2>3. parts'[h] = parts[h]
    BY <1>1, <1>2, <2>1, DecAtZero DEF DeleteManifest
  <2> QED
    BY <2>2, <2>3
<1>6. CASE UpdateStateStep
  <2>1. PICK k \in ManifestKeys, st \in ManifestStates, now \in Times :
          UpdateState(k, st, now)
    BY <1>6 DEF UpdateStateStep
  <2>2. [objects[k] EXCEPT !.state = st, !.last_modified = now] \in Manifests
        /\ [objects[k] EXCEPT !.state = st, !.last_modified = now].parts = objects[k].parts
    BY <2>1 DEF UpdateState, MetaTypeOK, Manifests
  <2>3. \A j \in ManifestKeys : PartsOf(objects'[j]) = PartsOf(objects[j])
    BY <2>1, <2>2, AbsentAssumption DEF UpdateState, MetaTypeOK, PartsOf
  <2> QED
    BY <1>3, <2>1, <2>3 DEF UpdateState
<1>7. CASE AppendStep
  <2>1. PICK k \in ManifestKeys, n \in PartNumbers, h2 \in Hashes, now \in Times :
          AppendPart(k, n, h2, now)
    BY <1>7 DEF AppendStep
  <2>2. Occurrences(Single(n, h2), h) = 0
    BY <1>2, <2>1, ReferenceableList DEF AppendPart
  <2>3. h2 # h
    BY <2>2, OccurrencesType DEF Single
  <2>4. NamesNoMore(h)
    <3>1. objects[k] \in Manifests
      BY <1>1, <2>1 DEF AppendPart, ObjectTables
    <3>2. /\ objects'[k] \in Manifests
          /\ objects'[k].parts = [objects[k].parts EXCEPT ![n] = h2]
          /\ \A j \in ManifestKeys : j # k => objects'[j] = objects[j]
      BY <1>1, <2>1, <3>1 DEF AppendPart, ObjectTables, Manifests, PartLists
    <3>3. PartsOf(objects[k]) \in PartLists
          /\ PartsOf(objects'[k]) = [PartsOf(objects[k]) EXCEPT ![n] = h2]
      BY <3>1, <3>2, AbsentAssumption DEF PartsOf, Manifests
    <3> QED
      BY <2>3, <3>2, <3>3 DEF NamesNoMore, PartLists
  <2>5. parts'[h] = parts[h]
    <3> DEFINE mid == DecParts(parts, Single(n, PartsOf(objects[k])[n]))
    <3>1. mid[h] = parts[h]
      BY <1>1, <1>2, DecAtZero
    <3>2. parts' = IncParts(mid, Single(n, h2))
      BY <2>1 DEF AppendPart, AppendPartParts
    <3> HIDE DEF mid
    <3> QED
      BY <2>2, <3>1, <3>2, IncElsewhere
  <2> QED
    BY <2>4, <2>5
<1>8. CASE CompleteStep
  <2>1. PICK ik \in ManifestKeys, selected \in PartLists, now \in Times :
          CompleteMultipart(ik, CompletedKey(ik), Completed(objects[ik], selected, now))
    BY <1>8 DEF CompleteStep
  <2> DEFINE ck == CompletedKey(ik)
             m == Completed(objects[ik], selected, now)
  <2>2. m \in Manifests /\ PartsOf(m) = m.parts
    BY <1>1, <2>1, AbsentAssumption
       DEF CompleteMultipart, ObjectTables, Completed, Manifests, ManifestStates, PartsOf
  <2>3. Occurrences(m.parts, h) = 0
    BY <1>2, <2>1, ReferenceableList DEF CompleteMultipart
  <2>4. \A n \in PartNumbers : m.parts[n] # h
    BY <2>3, OccurrencesType
  <2>5. NamesNoMore(h)
    <3>1. objects' = [objects EXCEPT ![ck] = m, ![ik] = Absent]
      BY <2>1 DEF CompleteMultipart
    <3> HIDE DEF m, ck
    <3> QED
      BY <1>1, <2>2, <2>4, <3>1, MetaAssumption DEF NamesNoMore, ObjectTables, PartsOf, NoParts
  <2>6. parts'[h] = parts[h]
    <3> DEFINE t1 == DecParts(parts, PartsOf(objects[ik]))
               t2 == DecParts(t1, PartsOf(objects[ck]))
    <3>1. t1 \in PartTables /\ t1[h] = parts[h]
      BY <1>1, <1>2, TableTypes, DecAtZero
    <3>2. t2[h] = t1[h]
      <4> HIDE DEF t1
      <4> QED
        BY <1>2, <3>1, DecAtZero
    <3>3. parts' = IncParts(t2, m.parts)
      BY <2>1 DEF CompleteMultipart, CompleteMultipartParts
    <3> HIDE DEF t1, t2, m
    <3> QED
      BY <2>3, <3>1, <3>2, <3>3, IncElsewhere
  <2> QED
    BY <2>5, <2>6
<1>9. CASE MetadataStep
  <2>1. PICK k \in ManifestKeys :
          \/ \E t \in Tags : UpdateManifestTags(k, t)
          \/ \E lk \in Locks : UpdateManifestLock(k, lk)
    BY <1>9 DEF MetadataStep
  <2>2. /\ objects[k] \in Manifests /\ objects'[k] \in Manifests
        /\ objects'[k].parts = objects[k].parts
        /\ \A j \in ManifestKeys : j # k => objects'[j] = objects[j]
    BY <1>1, <2>1 DEF UpdateManifestTags, UpdateManifestLock, ObjectTables, Manifests
  <2>3. \A j \in ManifestKeys : PartsOf(objects'[j]) = PartsOf(objects[j])
    BY <2>2, AbsentAssumption DEF PartsOf
  <2> QED
    BY <1>3, <2>1, <2>3 DEF UpdateManifestTags, UpdateManifestLock
<1>10. CASE BucketStep
  BY <1>3, <1>10 DEF BucketStep, CreateBucket, DeleteBucket, UpdateBucketVersioning,
       UpdateBucketCors, UpdateBucketObjectLock, UpdateBucketLifecycle
<1>11. CASE MarkStep
  <2>1. PICK x \in Hashes : MarkGcPending(x)
    BY <1>11 DEF MarkStep
  <2>2. NamesNoMore(h)
    BY <2>1 DEF MarkGcPending, NamesNoMore
  <2>3. parts'[h] = parts[h]
    <3>1. parts[h] \in PartEntries /\ parts[h].state = "GcPending"
      BY <1>1, <1>2 DEF PartTables, PendingIn
    <3> QED
      BY <1>1, <2>1, <3>1 DEF MarkGcPending, PartTables, PartEntries
  <2> QED
    BY <2>2, <2>3
<1> QED
  BY <1>4, <1>5, <1>6, <1>7, <1>8, <1>9, <1>10, <1>11 DEF CommonStep

InterlockInv == MetaTypeOK /\ UploadsHaveIds /\ GcPendingAtZero

\* Types, upload ids and zero counts of marked rows together are inductive.
LEMMA InterlockStep ==
  /\ MetaInit => InterlockInv
  /\ InterlockInv /\ [MetaNext]_metaVars => InterlockInv'
<1>1. MetaInit => InterlockInv
  BY DEF MetaInit, InterlockInv, MetaTypeOK, UploadsHaveIds, GcPendingAtZero, GcPending
<1>2. InterlockInv /\ [MetaNext]_metaVars => InterlockInv'
  <2> SUFFICES ASSUME InterlockInv, [MetaNext]_metaVars
               PROVE  InterlockInv'
    OBVIOUS
  <2>1. CASE UNCHANGED metaVars
    BY <2>1 DEF InterlockInv, metaVars, MetaTypeOK, UploadsHaveIds,
         GcPendingAtZero, GcPending, Refcount, RefcountIn
  <2>2. CASE CommonStep
    <3>1. MetaTypeOK' /\ UploadsHaveIds'
      BY <2>2, CommonTypeOK, CommonUploads DEF InterlockInv
    <3>2. ASSUME NEW h \in Hashes, GcPending(h)'
          PROVE  Refcount(h)' = 0
      <4>1. PICK gained \in Nat, lost \in Nat : Moves(h, gained, lost)
        BY <2>2, CommonMoves DEF InterlockInv
      <4>2. CASE GcPending(h)
        <5>1. Refcount(h) = 0 /\ gained = 0
          BY <4>1, <4>2 DEF InterlockInv, GcPendingAtZero, Moves
        <5> QED
          BY <4>1, <5>1, MetaAssumption DEF Moves, Less, Saturated
      <4> QED
        BY <3>2, <4>1, <4>2 DEF Moves
    <3> QED
      BY <3>1, <3>2 DEF InterlockInv, GcPendingAtZero
  <2>3. ASSUME NEW x \in Hashes, RemovePart(x)
        PROVE  InterlockInv'
    BY <2>3, RemoveTypeOK, RemoveMoves DEF InterlockInv, GcPendingAtZero
  <2> QED
    BY <2>1, <2>2, <2>3 DEF MetaNext
<1> QED
  BY <1>1, <1>2

\* mark_gc_pending rechecks the refcount and inc_part_refcount refuses a marked
\* row: under any sequence of calls a GcPending row has refcount zero.
THEOREM PendingStaysAtZero == MetaSpec => []GcPendingAtZero
<1>1. InterlockInv => GcPendingAtZero
  BY DEF InterlockInv
<1> QED
  BY <1>1, InterlockStep, PTL DEF MetaSpec

\* Whatever the callers do, no transaction adds a reference to a part that is
\* GcPending or brings its row back to life.
THEOREM InterlockHolds == MetaSpec => NoNewReferenceToPending
<1>1. InterlockInv /\ [MetaNext]_metaVars
        => [\A h \in Hashes :
              GcPending(h) => /\ References(h)' \subseteq References(h)
                              /\ parts'[h] \in {parts[h], Absent}]_metaVars
  <2> SUFFICES ASSUME InterlockInv, MetaNext, NEW h \in Hashes, GcPending(h)
               PROVE  /\ References(h)' \subseteq References(h)
                      /\ parts'[h] \in {parts[h], Absent}
    OBVIOUS
  <2>1. CASE CommonStep
    <3>1. NamesNoMore(h) /\ parts'[h] = parts[h]
      BY <2>1, PendingFrozen DEF InterlockInv
    <3>2. References(h)' \subseteq References(h)
      BY <3>1 DEF References, ReferencesIn, NamesNoMore
    <3> QED
      BY <3>1, <3>2
  <2>2. ASSUME NEW x \in Hashes, RemovePart(x)
        PROVE  /\ References(h)' \subseteq References(h)
               /\ parts'[h] \in {parts[h], Absent}
    BY <2>2 DEF RemovePart, InterlockInv, MetaTypeOK, References, ReferencesIn
  <2> QED
    BY <2>1, <2>2 DEF MetaNext
<1> QED
  BY <1>1, InterlockStep, PTL DEF MetaSpec, NoNewReferenceToPending

------------------------------------------------------------------------------
(* What a transaction reports as freed.                                    *)

\* A part with an exact refcount is at zero when no place names it, before and
\* after a step.
LEMMA ZeroIsUnreferenced ==
  ASSUME ProtocolInv, ProtocolInv', NEW h \in Hashes
  PROVE  /\ Refcount(h) = 0 <=> References(h) = {}
         /\ Refcount(h)' = 0 <=> References(h)' = {}
<1>1. ASSUME NEW table
      PROVE  Cardinality(ReferencesIn(table, h)) = 0 <=> ReferencesIn(table, h) = {}
  BY ReferencesFinite, FS_EmptySet
<1>2. References(h) = ReferencesIn(objects, h) /\ References(h)' = ReferencesIn(objects', h)
  BY DEF References, ReferencesIn
<1>3. Refcount(h) = Cardinality(References(h)) /\ Refcount(h)' = Cardinality(References(h)')
  BY DEF ProtocolInv, RefcountExact
<1> QED
  BY <1>1, <1>2, <1>3

\* Every place outside a set stays as it was: what was named at a place of the set
\* and is at zero now is exactly what has lost its last reference.
LEMMA FreedIsLost ==
  ASSUME ProtocolInv, ProtocolInv', NEW places \in SUBSET (ManifestKeys \X PartNumbers),
         \A k \in ManifestKeys, n \in PartNumbers :
           <<k, n>> \notin places => PartsOf(objects'[k])[n] = PartsOf(objects[k])[n],
         NEW h \in Hashes, parts[h] # Absent => parts'[h] # Absent
  PROVE  h \in LostLastReference
           <=> /\ \E p \in places : PartsOf(objects[p[1]])[p[2]] = h
               /\ parts'[h] # Absent
               /\ parts'[h].refcount = 0
<1> DEFINE freed == /\ \E p \in places : PartsOf(objects[p[1]])[p[2]] = h
                    /\ parts'[h] # Absent
                    /\ parts'[h].refcount = 0
<1> SUFFICES freed <=> References(h) # {} /\ References(h)' = {}
  BY DEF LostLastReference
<1>1. /\ Refcount(h) = 0 <=> References(h) = {}
      /\ Refcount(h)' = 0 <=> References(h)' = {}
  BY ZeroIsUnreferenced
<1>2. ASSUME freed
      PROVE  References(h) # {} /\ References(h)' = {}
  <2>1. PICK p \in places : PartsOf(objects[p[1]])[p[2]] = h
    BY <1>2
  <2>2. p \in References(h)
    BY <2>1 DEF References, ReferencesIn
  <2>3. Refcount(h)' = 0
    BY <1>2 DEF Refcount, RefcountIn
  <2> QED
    BY <1>1, <2>2, <2>3
<1>3. ASSUME References(h) # {}, References(h)' = {}
      PROVE  freed
  <2>1. PICK p \in ManifestKeys \X PartNumbers : PartsOf(objects[p[1]])[p[2]] = h
    BY <1>3 DEF References, ReferencesIn
  <2>2. PartsOf(objects'[p[1]])[p[2]] # h
    BY <1>3 DEF References, ReferencesIn
  <2>3. p \in places
    <3>1. p = <<p[1], p[2]>> /\ p[1] \in ManifestKeys /\ p[2] \in PartNumbers
      BY <2>1
    <3> QED
      BY <2>1, <2>2, <3>1
  <2>4. Refcount(h) # 0 /\ Refcount(h)' = 0
    BY <1>1, <1>3
  <2>5. parts[h] # Absent
    BY <2>4 DEF Refcount, RefcountIn
  <2>6. parts'[h] # Absent /\ parts'[h].refcount = 0
    BY <2>4, <2>5 DEF Refcount, RefcountIn
  <2> QED
    BY <2>1, <2>3, <2>6
<1> QED
  BY <1>2, <1>3

\* Counting references removes no row.
LEMMA RowsStay ==
  ASSUME NEW table \in PartTables, NEW list, NEW h \in Hashes, table[h] # Absent
  PROVE  /\ IncParts(table, list)[h] # Absent
         /\ DecParts(table, list)[h] # Absent
BY IncRefcount, DecRefcount

\* The places of a row.
RowPlaces(k) == {k} \X PartNumbers

\* What AtZero holds, in terms of the places of a row.
LEMMA AtZeroPlaces ==
  ASSUME NEW table, NEW list, NEW h \in Hashes
  PROVE  h \in AtZero(table, list)
           <=> /\ \E n \in PartNumbers : list[n] = h
               /\ table[h] # Absent
               /\ table[h].refcount = 0
<1>1. Occurrences(list, h) \in Nat /\ (Occurrences(list, h) = 0 <=> \A n \in PartNumbers : list[n] # h)
  BY OccurrencesType
<1> QED
  BY <1>1 DEF AtZero

\* A transaction that replaces row k by row and reports what AtZero finds.
LEMMA ReplacedRowFreed ==
  ASSUME ProtocolInv, ProtocolInv', NEW k \in ManifestKeys, NEW row,
         objects' = [objects EXCEPT ![k] = row],
         \A h \in Hashes : parts[h] # Absent => parts'[h] # Absent
  PROVE  AtZero(parts', PartsOf(objects[k])) = LostLastReference
<1> DEFINE freed == AtZero(parts', PartsOf(objects[k]))
<1>1. RowPlaces(k) \in SUBSET (ManifestKeys \X PartNumbers)
  BY DEF RowPlaces
<1>2. objects \in ObjectTables
  BY DEF ProtocolInv, MetaTypeOK, ObjectTables
<1>3. ASSUME NEW i \in ManifestKeys, NEW n \in PartNumbers, <<i, n>> \notin RowPlaces(k)
      PROVE  PartsOf(objects'[i])[n] = PartsOf(objects[i])[n]
  <2>1. i # k
    BY <1>3 DEF RowPlaces
  <2> QED
    BY <1>2, <2>1 DEF ObjectTables
<1>4. freed \in SUBSET Hashes
  BY DEF AtZero
<1>5. ASSUME NEW h \in Hashes
      PROVE  h \in freed <=> /\ \E p \in RowPlaces(k) : PartsOf(objects[p[1]])[p[2]] = h
                            /\ parts'[h] # Absent
                            /\ parts'[h].refcount = 0
  <2>1. (\E p \in RowPlaces(k) : PartsOf(objects[p[1]])[p[2]] = h)
          <=> \E n \in PartNumbers : PartsOf(objects[k])[n] = h
    <3>1. ASSUME NEW n \in PartNumbers, PartsOf(objects[k])[n] = h
          PROVE  \E p \in RowPlaces(k) : PartsOf(objects[p[1]])[p[2]] = h
      <4>1. <<k, n>> \in RowPlaces(k)
        BY DEF RowPlaces
      <4> QED
        BY <3>1, <4>1
    <3> QED
      BY <3>1 DEF RowPlaces
  <2> QED
    BY <2>1, AtZeroPlaces
<1> HIDE DEF freed
<1>6. ASSUME NEW h \in Hashes
      PROVE  h \in freed <=> h \in LostLastReference
  BY <1>1, <1>3, <1>5, FreedIsLost
<1> QED
  BY <1>4, <1>6 DEF freed, LostLastReference

\* complete_multipart replaces two rows; what it reports is named by neither the
\* new object nor any other row.
LEMMA CompleteFreed ==
  ASSUME ProtocolInv, ProtocolInv', NEW k \in ManifestKeys, NEW m, IsUploadKey(k),
         CompleteMultipart(k, CompletedKey(k), m), m # Absent
  PROVE  CompleteMultipartFreed(k, CompletedKey(k), m) = LostLastReference
<1> DEFINE ck == CompletedKey(k)
           places == RowPlaces(k) \cup RowPlaces(ck)
           freed == CompleteMultipartFreed(k, ck, m)
<1>1. ck \in ManifestKeys /\ ck # k
  BY MetaAssumption DEF CompletedKey, ManifestKeys, IsUploadKey
<1>2. /\ objects \in ObjectTables /\ parts \in PartTables
      /\ objects' = [objects EXCEPT ![ck] = m, ![k] = Absent]
      /\ parts' = CompleteMultipartParts(k, ck, m)
  BY DEF ProtocolInv, MetaTypeOK, ObjectTables, PartTables, CompleteMultipart
<1> HIDE DEF ck
<1>3. places \in SUBSET (ManifestKeys \X PartNumbers)
  BY <1>1 DEF RowPlaces
<1>4. objects'[ck] = m /\ \A i \in ManifestKeys : i # k /\ i # ck => objects'[i] = objects[i]
  BY <1>1, <1>2 DEF ObjectTables
<1>5. ASSUME NEW i \in ManifestKeys, NEW n \in PartNumbers, <<i, n>> \notin places
      PROVE  PartsOf(objects'[i])[n] = PartsOf(objects[i])[n]
  <2>1. i # k /\ i # ck
    BY <1>5 DEF RowPlaces
  <2> QED
    BY <1>4, <2>1
<1>6. ASSUME NEW h \in Hashes, parts[h] # Absent
      PROVE  parts'[h] # Absent
  BY <1>2, <1>6, RowsStay, TableTypes DEF CompleteMultipartParts
<1>7. freed \in SUBSET Hashes
  BY DEF CompleteMultipartFreed, AtZero
<1>8. ASSUME NEW h \in Hashes
      PROVE  h \in freed <=> /\ \E p \in places : PartsOf(objects[p[1]])[p[2]] = h
                            /\ parts'[h] # Absent
                            /\ parts'[h].refcount = 0
  <2>1. (\E p \in places : PartsOf(objects[p[1]])[p[2]] = h)
          <=> \/ \E n \in PartNumbers : PartsOf(objects[k])[n] = h
              \/ \E n \in PartNumbers : PartsOf(objects[ck])[n] = h
    <3>1. ASSUME NEW i \in {k, ck}, NEW n \in PartNumbers, PartsOf(objects[i])[n] = h
          PROVE  \E p \in places : PartsOf(objects[p[1]])[p[2]] = h
      <4>1. <<i, n>> \in places
        BY DEF RowPlaces
      <4> QED
        BY <3>1, <4>1
    <3> QED
      BY <3>1 DEF RowPlaces
  <2>2. ASSUME parts'[h] # Absent, parts'[h].refcount = 0
        PROVE  Occurrences(m.parts, h) = 0
    <3>1. Refcount(h)' = 0
      BY <2>2 DEF Refcount, RefcountIn
    <3>2. References(h)' = {}
      BY <3>1, ZeroIsUnreferenced
    <3>3. ASSUME NEW n \in PartNumbers, m.parts[n] = h
          PROVE  FALSE
      <4>1. PartsOf(objects'[ck])[n] = h
        BY <1>4, <3>3 DEF PartsOf
      <4>2. <<ck, n>> \in References(h)'
        BY <1>1, <4>1 DEF References, ReferencesIn
      <4> QED
        BY <3>2, <4>2
    <3> QED
      BY <3>3, OccurrencesType
  <2>3. h \in freed <=> /\ \/ h \in AtZero(parts', PartsOf(objects[k]))
                          \/ h \in AtZero(parts', PartsOf(objects[ck]))
                       /\ Occurrences(m.parts, h) = 0
    BY <1>2 DEF CompleteMultipartFreed
  <2> QED
    BY <2>1, <2>2, <2>3, AtZeroPlaces
<1> HIDE DEF freed, places
<1>9. ASSUME NEW h \in Hashes
      PROVE  h \in freed <=> h \in LostLastReference
  BY <1>3, <1>5, <1>6, <1>8, FreedIsLost
<1> QED
  BY <1>7, <1>9 DEF freed, ck, LostLastReference

\* The row of a manifest after one of its entries has been replaced.
Appended(m, n, h, now) == [m EXCEPT !.parts[n] = h, !.last_modified = now]

\* It is a manifest, and only that entry is new.
LEMMA AppendedRow ==
  ASSUME NEW m \in Manifests, NEW n \in PartNumbers, NEW h \in Hashes, NEW now \in Times
  PROVE  /\ Appended(m, n, h, now) \in Manifests
         /\ \A i \in PartNumbers :
              Appended(m, n, h, now).parts[i] = IF i = n THEN h ELSE m.parts[i]
<1> DEFINE row == Appended(m, n, h, now)
<1>1. m.parts \in PartLists
  BY DEF Manifests
<1>2. row \in Manifests /\ row.parts = [m.parts EXCEPT ![n] = h]
  BY <1>1 DEF Manifests, PartLists, Appended
<1> HIDE DEF row
<1>3. row \in Manifests /\ \A i \in PartNumbers : row.parts[i] = IF i = n THEN h ELSE m.parts[i]
  BY <1>1, <1>2 DEF PartLists
<1> QED
  BY <1>3 DEF row

\* append_part replaces one entry of a list, by the same content or another.
LEMMA AppendFreed ==
  ASSUME ProtocolInv, ProtocolInv', NEW k \in ManifestKeys, NEW n \in PartNumbers,
         NEW h \in Hashes, NEW now \in Times, AppendPart(k, n, h, now)
  PROVE  AppendPartFreed(k, n, h) = LostLastReference
<1> DEFINE old == PartsOf(objects[k])[n]
           places == IF old = h THEN {} ELSE {<<k, n>>}
           freed == AppendPartFreed(k, n, h)
<1>1. /\ objects \in ObjectTables /\ parts \in PartTables
      /\ objects[k] \in Manifests /\ objects[k] # Absent
      /\ objects' = [objects EXCEPT ![k].parts[n] = h, ![k].last_modified = now]
      /\ parts' = AppendPartParts(k, n, h)
  BY DEF ProtocolInv, MetaTypeOK, ObjectTables, PartTables, AppendPart
<1>2. places \in SUBSET (ManifestKeys \X PartNumbers)
  OBVIOUS
<1>3. /\ objects'[k] = [objects[k] EXCEPT !.parts[n] = h, !.last_modified = now]
      /\ \A i \in ManifestKeys : i # k => objects'[i] = objects[i]
  BY <1>1 DEF ObjectTables
<1>4. /\ objects'[k] # Absent
      /\ \A i \in PartNumbers :
           objects'[k].parts[i] = IF i = n THEN h ELSE objects[k].parts[i]
  <2>1. objects'[k] = Appended(objects[k], n, h, now)
    BY <1>3 DEF Appended
  <2>2. /\ Appended(objects[k], n, h, now) \in Manifests
        /\ \A i \in PartNumbers : Appended(objects[k], n, h, now).parts[i]
                                  = IF i = n THEN h ELSE objects[k].parts[i]
    BY <1>1, AppendedRow
  <2> QED
    BY <2>1, <2>2, AbsentAssumption
<1>5. ASSUME NEW i \in ManifestKeys, NEW j \in PartNumbers, <<i, j>> \notin places
      PROVE  PartsOf(objects'[i])[j] = PartsOf(objects[i])[j]
  <2>1. CASE i # k
    BY <1>3, <2>1
  <2>2. CASE i = k /\ j # n
    BY <1>1, <1>4, <2>2 DEF PartsOf
  <2>3. CASE i = k /\ j = n
    <3>1. old = h
      BY <1>5, <2>3
    <3> QED
      BY <1>1, <1>4, <2>3, <3>1 DEF PartsOf
  <2> QED
    BY <2>1, <2>2, <2>3
<1>6. ASSUME NEW g \in Hashes, parts[g] # Absent
      PROVE  parts'[g] # Absent
  BY <1>1, <1>6, RowsStay, TableTypes DEF AppendPartParts
<1>7. freed \in SUBSET Hashes
  BY DEF AppendPartFreed, AtZero
<1>8. ASSUME NEW g \in Hashes
      PROVE  g \in freed <=> /\ \E p \in places : PartsOf(objects[p[1]])[p[2]] = g
                            /\ parts'[g] # Absent
                            /\ parts'[g].refcount = 0
  <2>1. CASE old = h
    BY <2>1 DEF AppendPartFreed
  <2>2. CASE old # h
    <3>1. (\E p \in places : PartsOf(objects[p[1]])[p[2]] = g) <=> old = g
      <4>1. places = {<<k, n>>} /\ <<k, n>>[1] = k /\ <<k, n>>[2] = n
        BY <2>2
      <4> HIDE DEF places
      <4> QED
        BY <4>1
    <3>2. CASE old = Absent
      BY <2>2, <3>1, <3>2, MetaAssumption DEF AppendPartFreed
    <3>3. CASE old # Absent
      <4>1. freed = AtZero(parts', Single(n, old))
        BY <1>1, <2>2, <3>3 DEF AppendPartFreed
      <4>2. (\E i \in PartNumbers : Single(n, old)[i] = g) <=> old = g
        BY <3>3, MetaAssumption DEF Single
      <4> HIDE DEF old, places, freed
      <4> QED
        BY <3>1, <4>1, <4>2, AtZeroPlaces
    <3> QED
      BY <3>2, <3>3
  <2> QED
    BY <2>1, <2>2
<1> HIDE DEF freed, places, old
<1>9. ASSUME NEW g \in Hashes
      PROVE  g \in freed <=> g \in LostLastReference
  BY <1>2, <1>5, <1>6, <1>8, FreedIsLost
<1> QED
  BY <1>7, <1>9 DEF freed, LostLastReference

\* If every caller follows the GC protocol, what put_manifest, delete_manifest,
\* append_part and complete_multipart report as freed is precisely what has lost its
\* last reference in the transaction.
THEOREM EffectsAreExact ==
  ASSUME RefcountsFit
  PROVE  DisciplinedSpec => EffectIsExact
<1> DEFINE Effect ==
      /\ \A k \in ManifestKeys :
           /\ DeleteManifest(k) => DeleteManifestFreed(k) = LostLastReference
           /\ objects'[k] # Absent /\ PutManifest(k, objects'[k])
                => PutManifestFreed(k, objects'[k]) = LostLastReference
           /\ IsUploadKey(k) /\ objects'[CompletedKey(k)] # Absent
                /\ CompleteMultipart(k, CompletedKey(k), objects'[CompletedKey(k)])
                => CompleteMultipartFreed(k, CompletedKey(k), objects'[CompletedKey(k)])
                     = LostLastReference
      /\ \A k \in ManifestKeys, n \in PartNumbers, h \in Hashes, now \in Times :
           AppendPart(k, n, h, now) => AppendPartFreed(k, n, h) = LostLastReference
<1>1. ProtocolInv /\ [DisciplinedNext]_metaVars => [Effect]_metaVars
  <2> SUFFICES ASSUME ProtocolInv, [DisciplinedNext]_metaVars
               PROVE  Effect
    OBVIOUS
  <2>1. ProtocolInv'
    BY ProtocolStep
  <2>2. parts \in PartTables
    BY DEF ProtocolInv, MetaTypeOK, PartTables
  <2>3. ASSUME NEW k \in ManifestKeys, DeleteManifest(k)
        PROVE  DeleteManifestFreed(k) = LostLastReference
    <3>1. /\ objects' = [objects EXCEPT ![k] = Absent]
          /\ parts' = DecParts(parts, PartsOf(objects[k]))
      BY <2>3 DEF DeleteManifest
    <3>2. \A h \in Hashes : parts[h] # Absent => parts'[h] # Absent
      BY <2>2, <3>1, RowsStay
    <3> QED
      BY <2>1, <3>1, <3>2, ReplacedRowFreed DEF DeleteManifestFreed
  <2>4. ASSUME NEW k \in ManifestKeys, objects'[k] # Absent, PutManifest(k, objects'[k])
        PROVE  PutManifestFreed(k, objects'[k]) = LostLastReference
    <3>1. /\ objects' = [objects EXCEPT ![k] = objects'[k]]
          /\ parts' = PutManifestParts(k, objects'[k])
      BY <2>4 DEF PutManifest
    <3>2. \A h \in Hashes : parts[h] # Absent => parts'[h] # Absent
      BY <2>2, <3>1, RowsStay, TableTypes DEF PutManifestParts
    <3> QED
      BY <2>1, <3>1, <3>2, ReplacedRowFreed DEF PutManifestFreed
  <2> QED
    BY <2>1, <2>3, <2>4, CompleteFreed, AppendFreed
<1> QED
  BY <1>1, ProtocolInvariant, PTL DEF DisciplinedSpec, EffectIsExact

==============================================================================
