------------------------ MODULE ObjectVersionsProofs ------------------------
(***************************************************************************)
(* That object lock and conditional writes keep their word, up to what a   *)
(* worker read before another one changed it, for every number of clients, *)
(* versions, requests and days.                                            *)
(***************************************************************************)
EXTENDS ObjectVersions, WellFoundedInduction, TLAPS

------------------------------------------------------------------------------
(* The inductive invariant.                                                *)

\* A worker about to write a manifest, to set a lock, to delete a manifest.
Writes(r) ==
  r.pc = "commit" /\ r.row # Absent /\ r.op \in {"put", "copy", "delete", "create"}

SetsLock(r) == r.pc = "commit" /\ r.op \in {"retention", "legalHold"}

Deletes(r) ==
  r.pc = "commit" /\ r.row = Absent /\ r.op \in {"delete", "deleteVersion", "abort"}

Unlocked(row) == row.until = 0 /\ ~ row.hold

\* What the workers of requests remember agrees with what they have checked: the
\* manifest to be deleted was not locked, and is not locked now that time has passed;
\* a new retention ends no earlier than the one read; the precondition held.
ClientOK(r, time) ==
  /\ r.pc = "check" /\ r.op \in {"delete", "deleteVersion"} => r.row = Absent /\ r.id \in Ids
  /\ r.pc = "body" => r.op \in {"put", "copy"}
  /\ r.op \in {"put", "copy"} /\ r.pc \in {"check", "body"} => r.cfg \in BucketConfigs
  /\ r.op = "put" /\ r.pc \in {"body", "commit"} /\ r.cond # "none"
       => ~ PreconditionFails(r.cond, r.read)
  /\ Writes(r) => /\ r.id \in Ids
                  /\ IsUpload(r.row) => r.id \in Uuids /\ Unlocked(r.row)
  /\ Deletes(r) /\ r.read # Absent => ~ ForbidsDelete(r.read, time)
  /\ r.pc = "commit" /\ r.op = "complete" => r.row \in Rows /\ r.row.state = "Committed"
  /\ SetsLock(r) => /\ r.id \in Ids /\ r.read \in Rows /\ r.lock \in Locks
                    /\ r.lock.until >= r.read.until
                    /\ r.op = "retention" => r.lock.hold = r.read.hold

\* The sweeper goes through manifests that were listed, not later than now.
SweeperOK(r, time) ==
  /\ r.pc \in {"idle", "list", "evaluate"}
  /\ r.pc \in {"list", "evaluate"} => r.cfg \in BucketConfigs
  /\ r.pc = "evaluate" => /\ r.snap \in [Ids -> Rows \cup {Absent}]
                          /\ r.todo # {}
                          /\ \A id \in r.todo : r.snap[id] # Absent
                          /\ \A id \in Ids : IsUpload(r.snap[id]) => Unlocked(r.snap[id])
  /\ r.now <= time

\* Uploads have no lock, live under uuids, and nobody is about to lock one.
UploadsOK ==
  /\ \A id \in Ids : IsUpload(versions[id]) => Unlocked(versions[id])
  /\ ~ IsUpload(versions[NullVersion])
  /\ \A c \in Clients : SetsLock(work[c]) => ~ IsUpload(versions[work[c].id])

\* A uuid is handed out once: the row a new manifest goes to is absent, no two
\* workers write to it and nobody is about to lock it.
FreshOK ==
  /\ \A id \in Uuids : versions[id] # Absent => id \in used
  /\ \A c \in Clients :
       Writes(work[c]) /\ work[c].id \in Uuids
         => /\ work[c].id \in used
            /\ versions[work[c].id] = Absent
            /\ \A d \in Clients :
                 d # c /\ (Writes(work[d]) \/ SetsLock(work[d])) => work[d].id # work[c].id
  /\ \A c \in Clients : SetsLock(work[c]) /\ work[c].id \in Uuids => work[c].id \in used

WorkersOK ==
  /\ \A c \in Clients : ClientOK(work[c], clock)
  /\ SweeperOK(work[Sweeper], clock)

VersionsInv == TypeOK /\ WorkersOK /\ UploadsOK /\ FreshOK

------------------------------------------------------------------------------
(* Operators.                                                              *)

\* The order of the numbers as a relation.
LEMMA NatOrder ==
  \E R : IsWellFoundedOn(R, Nat) /\ \A x, y \in Nat : <<y, x>> \in R <=> y < x
<1> DEFINE R == OpToRel(<, Nat)
<1>1. IsWellFoundedOn(R, Nat)
  BY NatLessThanWellFounded
<1>2. \A x, y \in Nat : <<y, x>> \in R <=> y < x
  BY DEF OpToRel
<1> QED
  BY <1>1, <1>2, Zenon

\* A nonempty set of numbers has a least one.
LEMMA LeastNumber ==
  ASSUME NEW T, T \subseteq Nat, T # {}
  PROVE  \E x \in T : \A y \in T : x <= y
<1>1. PICK R : IsWellFoundedOn(R, Nat) /\ \A x, y \in Nat : <<y, x>> \in R <=> y < x
  BY NatOrder
<1>2. PICK x \in T : \A y \in T : ~ (<<y, x>> \in R)
  BY <1>1, WFMin
<1>3. ASSUME NEW y \in T
      PROVE  x <= y
  <2>1. x \in Nat /\ y \in Nat
    OBVIOUS
  <2>2. ~ (<<y, x>> \in R)
    BY <1>2
  <2>3. ~ (y < x)
    BY <1>1, <2>1, <2>2, Zenon
  <2> QED
    BY <2>1, <2>3
<1> QED
  BY <1>3

\* The sort of the manifests is a total order, so that a nonempty list has a first.
LEMMA FirstIsListed ==
  ASSUME NEW table \in [Ids -> Rows \cup {Absent}], NEW ids \in SUBSET Ids, ids # {},
         \A id \in ids : table[id] # Absent
  PROVE  First(table, ids) \in ids
<1>1. \A id \in ids : id \in Nat /\ table[id].last_modified \in 0 .. MaxTime
  BY VersionsAssumption DEF Ids, Rows, Times
<1> DEFINE age(id) == MaxTime - table[id].last_modified
           ages == {age(id) : id \in ids}
<1>2. ages \subseteq Nat /\ ages # {}
  BY <1>1, VersionsAssumption
<1>3. PICK a \in ages : \A b \in ages : a <= b
  BY <1>2, LeastNumber
<1> DEFINE newest == {id \in ids : age(id) = a}
<1>4. newest \subseteq Nat /\ newest # {}
  BY <1>1, <1>3
<1>5. PICK i \in newest : \A j \in newest : i <= j
  BY <1>4, LeastNumber
<1>6. ASSUME NEW j \in ids
      PROVE  Before(table, i, j)
  <2>1. /\ i \in ids /\ age(i) = a /\ a <= age(j) /\ (age(j) = a => i <= j)
    BY <1>3, <1>5
  <2>2. /\ table[i].last_modified \in Nat /\ table[j].last_modified \in Nat
    BY <1>1, <2>1
  <2> QED
    BY <2>1, <2>2, VersionsAssumption DEF Before
<1>7. \E k \in ids : \A j \in ids : Before(table, k, j)
  BY <1>5, <1>6
<1> QED
  BY <1>7 DEF First

\* The manifests that handlers make.
LEMMA NewRows ==
  ASSUME NEW now \in Times, NEW lock \in Locks
  PROVE  /\ Object(lock, now) \in Rows /\ Object(lock, now).state = "Committed"
         /\ Tombstone(now) \in Rows /\ Tombstone(now).state = "Committed"
         /\ Upload(now) \in Rows /\ Upload(now).state = "InProgress" /\ Unlocked(Upload(now))
<1>1. NoLock \in Locks /\ NoLock.until = 0 /\ NoLock.hold = FALSE
  BY VersionsAssumption DEF NoLock, Locks, Dates
<1>2. ASSUME NEW l \in Locks
      PROVE  /\ Object(l, now) \in Rows /\ Object(l, now).state = "Committed"
             /\ Object(l, now).until = l.until /\ Object(l, now).hold = l.hold
  <2>1. l.until \in Dates /\ l.hold \in BOOLEAN
    BY DEF Locks
  <2> QED
    BY <2>1 DEF Object, Rows
<1> DEFINE o == Object(NoLock, now)
<1>3. o \in Rows /\ o.state = "Committed" /\ o.until = 0 /\ o.hold = FALSE
  BY <1>1, <1>2
<1> HIDE DEF o
<1>4. LET t == [o EXCEPT !.kind = "Tombstone"]
      IN  t \in Rows /\ t.state = "Committed"
  BY <1>3 DEF Rows
<1>5. LET u == [o EXCEPT !.state = "InProgress"]
      IN  u \in Rows /\ u.state = "InProgress" /\ u.until = 0 /\ u.hold = FALSE
  BY <1>3 DEF Rows
<1> QED
  BY <1>2, <1>4, <1>5 DEF o, Tombstone, Upload, Unlocked

------------------------------------------------------------------------------
(* Steps.                                                                  *)

\* Who is not working deletes, writes and locks nothing.
LEMMA IdleFacts ==
  ASSUME NEW time
  PROVE  /\ Idle \in Work /\ Idle.pc = "idle" /\ ClientOK(Idle, time)
         /\ time \in Times => SweeperOK(Idle, time)
         /\ ~ Writes(Idle) /\ ~ SetsLock(Idle)
<1>1. Idle \in Work
  BY VersionsAssumption DEF Idle, Work, Conditions, Times
<1>2. Idle.pc = "idle" /\ Idle.now = 0
  BY DEF Idle
<1> QED
  BY <1>1, <1>2 DEF ClientOK, SweeperOK, Writes, SetsLock, Deletes, Times

\* The types in the terms that the proofs use.
LEMMA RowTypes ==
  ASSUME TypeOK
  PROVE  /\ \A id \in Ids : versions[id] \in Rows \cup {Absent}
         /\ NullVersion \in Ids /\ NullVersion \notin Uuids /\ Uuids \subseteq Ids
         /\ clock \in Times /\ clock \in Nat
         /\ \A w \in Workers : work[w] \in Work
         /\ Clients \subseteq Workers /\ Sweeper \in Workers /\ Sweeper \notin Clients
<1>1. NullVersion \notin Uuids
  BY VersionsAssumption
<1> QED
  BY <1>1, VersionsAssumption DEF TypeOK, Ids, Times, Workers

\* A worker goes on to r; no row changes.
LEMMA WorkStep ==
  ASSUME VersionsInv, NEW w \in Workers, NEW r \in Work, work' = [work EXCEPT ![w] = r],
         UNCHANGED <<bucket, versions, clock>>, sent' \in 0 .. MaxRequests,
         used \subseteq used', used' \subseteq Uuids,
         w \in Clients => ClientOK(r, clock), w = Sweeper => SweeperOK(r, clock),
         w \in Clients /\ Writes(r) /\ r.id \in Uuids => r.id \in used' \ used,
         w \in Clients /\ SetsLock(r) =>
           versions[r.id] # Absent /\ ~ IsUpload(versions[r.id])
  PROVE  VersionsInv'
<1>1. /\ work' \in [Workers -> Work] /\ work'[w] = r
      /\ \A v \in Workers : v # w => work'[v] = work[v]
  BY DEF VersionsInv, TypeOK
<1>2. TypeOK'
  BY <1>1 DEF VersionsInv, TypeOK
<1>3. WorkersOK'
  <2>1. ASSUME NEW c \in Clients
        PROVE  ClientOK(work'[c], clock')
    BY <1>1, RowTypes DEF VersionsInv, WorkersOK
  <2>2. SweeperOK(work'[Sweeper], clock')
    BY <1>1, RowTypes DEF VersionsInv, WorkersOK
  <2> QED
    BY <2>1, <2>2 DEF WorkersOK
<1>4. UploadsOK'
  BY <1>1, RowTypes DEF VersionsInv, UploadsOK
<1>5. FreshOK'
  <2>1. \A c \in Clients : c # w => work'[c] = work[c]
    BY <1>1, RowTypes DEF VersionsInv
  <2>2. ASSUME NEW c \in Clients, Writes(work'[c]), work'[c].id \in Uuids
        PROVE  /\ work'[c].id \in used'
               /\ versions[work'[c].id] = Absent
               /\ \A d \in Clients :
                    d # c /\ (Writes(work'[d]) \/ SetsLock(work'[d])) => work'[d].id # work'[c].id
    <3>1. CASE c = w
      BY <1>1, <2>1, <2>2, <3>1 DEF VersionsInv, FreshOK
    <3>2. CASE c # w
      <4>1. /\ work[c].id \in used /\ versions[work[c].id] = Absent
            /\ \A d \in Clients :
                 d # c /\ (Writes(work[d]) \/ SetsLock(work[d])) => work[d].id # work[c].id
        BY <2>1, <2>2, <3>2 DEF VersionsInv, FreshOK
      <4>2. ASSUME w \in Clients, Writes(r) \/ SetsLock(r)
            PROVE  r.id # work[c].id
        BY <4>1, <4>2, <2>1, <2>2, <3>2
      <4> QED
        BY <1>1, <2>1, <2>2, <3>2, <4>1, <4>2
    <3> QED
      BY <3>1, <3>2
  <2>3. ASSUME NEW c \in Clients, SetsLock(work'[c]), work'[c].id \in Uuids
        PROVE  work'[c].id \in used'
    BY <1>1, <2>1, <2>3 DEF VersionsInv, FreshOK
  <2>4. \A id \in Uuids : versions'[id] # Absent => id \in used'
    BY DEF VersionsInv, FreshOK
  <2> QED
    BY <2>2, <2>3, <2>4 DEF FreshOK
<1> QED
  BY <1>2, <1>3, <1>4, <1>5 DEF VersionsInv

\* A worker changes rows and then writes and locks nothing more.
LEMMA TableStep ==
  ASSUME VersionsInv, NEW w \in Workers, NEW r \in Work, work' = [work EXCEPT ![w] = r],
         UNCHANGED <<bucket, clock, sent>>, used \subseteq used', used' \subseteq Uuids,
         versions' \in [Ids -> Rows \cup {Absent}],
         w \in Clients => ClientOK(r, clock), w = Sweeper => SweeperOK(r, clock),
         ~ Writes(r), ~ SetsLock(r),
         \A id \in Ids : IsUpload(versions'[id]) => Unlocked(versions'[id]) /\ id # NullVersion,
         \A d \in Clients : d # w /\ SetsLock(work[d]) => ~ IsUpload(versions'[work[d].id]),
         \A id \in Uuids : versions'[id] # Absent => id \in used',
         \A d \in Clients : d # w /\ Writes(work[d]) /\ work[d].id \in Uuids
                              => versions'[work[d].id] = Absent
  PROVE  VersionsInv'
<1>1. /\ work' \in [Workers -> Work] /\ work'[w] = r
      /\ \A v \in Workers : v # w => work'[v] = work[v]
  BY DEF VersionsInv, TypeOK
<1>2. TypeOK'
  BY <1>1 DEF VersionsInv, TypeOK
<1>3. WorkersOK'
  <2>1. ASSUME NEW c \in Clients
        PROVE  ClientOK(work'[c], clock')
    BY <1>1, RowTypes DEF VersionsInv, WorkersOK
  <2>2. SweeperOK(work'[Sweeper], clock')
    BY <1>1, RowTypes DEF VersionsInv, WorkersOK
  <2> QED
    BY <2>1, <2>2 DEF WorkersOK
<1>4. \A c \in Clients : c # w => work'[c] = work[c]
  BY <1>1, RowTypes DEF VersionsInv
<1>5. UploadsOK'
  BY <1>1, <1>4, RowTypes DEF VersionsInv, UploadsOK
<1>6. FreshOK'
  BY <1>1, <1>4 DEF VersionsInv, FreshOK
<1> QED
  BY <1>2, <1>3, <1>5, <1>6 DEF VersionsInv

------------------------------------------------------------------------------
(* Requests arrive.                                                        *)

\* What the arrival of a request has in common with every other.
LEMMA BeginStep ==
  ASSUME VersionsInv, NEW c \in Clients, NEW r \in Work, Begin(c, r),
         ClientOK(r, clock), used \subseteq used', used' \subseteq Uuids,
         Writes(r) /\ r.id \in Uuids => r.id \in used' \ used,
         SetsLock(r) => versions[r.id] # Absent /\ ~ IsUpload(versions[r.id])
  PROVE  VersionsInv'
<1>1. /\ work' = [work EXCEPT ![c] = r] /\ UNCHANGED <<bucket, versions, clock>>
      /\ sent' \in 0 .. MaxRequests
  BY VersionsAssumption DEF Begin, Start, VersionsInv, TypeOK
<1>2. c \in Workers /\ c # Sweeper
  BY VersionsAssumption DEF Workers
<1> QED
  BY <1>1, <1>2, WorkStep

\* A put and a copy begin with the bucket.
LEMMA BeginPutOK ==
  ASSUME VersionsInv, NEW c \in Clients, BeginPut(c) \/ BeginCopy(c)
  PROVE  VersionsInv'
<1>1. used \subseteq Uuids /\ bucket \in BucketConfigs
  BY DEF VersionsInv, TypeOK
<1>2. CASE BeginPut(c)
  <2>1. PICK h \in PutHeaders :
          /\ Begin(c, [Idle EXCEPT !.op = "put", !.cfg = bucket, !.lock = h.lock,
                                   !.cond = h.cond,
                                   !.pc = IF h.cond = "none" THEN "body" ELSE "check"])
          /\ UNCHANGED used
    BY <1>2 DEF BeginPut
  <2> DEFINE p == IF h.cond = "none" THEN "body" ELSE "check"
             r == [Idle EXCEPT !.op = "put", !.cfg = bucket, !.lock = h.lock,
                               !.cond = h.cond, !.pc = p]
  <2>2. h.lock \in Locks \cup {Never} /\ h.cond \in Conditions
    BY VersionsAssumption
  <2>3. p \in {"body", "check"} /\ (p = "body" => h.cond = "none")
    OBVIOUS
  <2>4. Begin(c, r) /\ used' = used
    BY <2>1
  <2> HIDE DEF p
  <2>5. /\ r \in Work /\ r.op = "put" /\ r.pc = p /\ r.cfg = bucket /\ r.cond = h.cond
    BY <1>1, <2>2, <2>3, IdleFacts DEF Work, Requests
  <2> HIDE DEF r
  <2>6. ClientOK(r, clock) /\ ~ Writes(r) /\ ~ SetsLock(r)
    BY <1>1, <2>3, <2>5 DEF ClientOK, Writes, SetsLock, Deletes
  <2> QED
    BY <1>1, <2>4, <2>5, <2>6, BeginStep
<1>3. CASE BeginCopy(c)
  <2> DEFINE r == [Idle EXCEPT !.op = "copy", !.pc = "body", !.cfg = bucket, !.lock = NoLock]
  <2>1. Begin(c, r) /\ used' = used
    BY <1>3 DEF BeginCopy
  <2>2. NoLock \in Locks
    BY VersionsAssumption DEF NoLock, Locks, Dates
  <2>3. r \in Work /\ r.op = "copy" /\ r.pc = "body" /\ r.cfg = bucket
    BY <1>1, <2>2, IdleFacts DEF Work, Requests
  <2> HIDE DEF r
  <2>4. ClientOK(r, clock) /\ ~ Writes(r) /\ ~ SetsLock(r)
    BY <1>1, <2>3 DEF ClientOK, Writes, SetsLock, Deletes
  <2> QED
    BY <1>1, <2>1, <2>3, <2>4, BeginStep
<1> QED
  BY <1>2, <1>3

\* A fresh id, or "null".
LEMMA NewId ==
  ASSUME VersionsInv, NEW cfg, NEW id \in NewIds(cfg) \cup (Uuids \ used), Take(id)
  PROVE  /\ id \in Ids /\ used \subseteq used' /\ used' \subseteq Uuids
         /\ id \in Uuids => id \in used' \ used
<1>1. id \in (Uuids \ used) \cup {NullVersion}
  BY DEF NewIds
<1>2. used' = used \cup ({id} \ {NullVersion}) /\ used \subseteq Uuids
  BY DEF Take, VersionsInv, TypeOK
<1>3. NullVersion \notin Uuids
  BY VersionsAssumption
<1> QED
  BY <1>1, <1>2, <1>3 DEF Ids

\* A delete of the row "null" or of a version begins with the check, a delete marker
\* and a new upload get an id.
LEMMA BeginDeleteOK ==
  ASSUME VersionsInv, NEW c \in Clients,
         BeginDelete(c) \/ BeginDeleteVersion(c) \/ BeginCreate(c)
  PROVE  VersionsInv'
<1>1. used \subseteq Uuids /\ NullVersion \in Ids /\ clock \in Times
  BY RowTypes DEF VersionsInv, TypeOK
<1>2. ASSUME NEW op \in {"delete", "deleteVersion"}, NEW id \in Ids,
             Begin(c, [Idle EXCEPT !.op = op, !.pc = "check", !.id = id]), used' = used
      PROVE  VersionsInv'
  <2> DEFINE r == [Idle EXCEPT !.op = op, !.pc = "check", !.id = id]
  <2>1. r \in Work /\ r.op = op /\ r.pc = "check" /\ r.row = Absent /\ r.id = id
    <3>1. Idle.row = Absent
      BY DEF Idle
    <3> QED
      BY <3>1, IdleFacts DEF Work, Requests
  <2>2. Begin(c, r)
    BY <1>2
  <2> HIDE DEF r
  <2>3. ClientOK(r, clock) /\ ~ Writes(r) /\ ~ SetsLock(r)
    BY <2>1 DEF ClientOK, Writes, SetsLock, Deletes
  <2> QED
    BY <1>1, <1>2, <2>1, <2>2, <2>3, BeginStep
<1>3. ASSUME NEW op \in {"delete", "create"}, NEW id \in NewIds(bucket) \cup (Uuids \ used), Take(id),
             NEW row \in Rows, row.state = "Committed" \/ (id \in Uuids /\ Unlocked(row)),
             Begin(c, [Idle EXCEPT !.op = op, !.pc = "commit", !.id = id, !.row = row])
      PROVE  VersionsInv'
  <2> DEFINE r == [Idle EXCEPT !.op = op, !.pc = "commit", !.id = id, !.row = row]
  <2>1. /\ id \in Ids /\ used \subseteq used' /\ used' \subseteq Uuids
        /\ id \in Uuids => id \in used' \ used
    BY <1>3, NewId
  <2>2. r \in Work /\ r.op = op /\ r.pc = "commit" /\ r.id = id /\ r.row = row
    BY <2>1, IdleFacts DEF Work, Requests
  <2>3. Begin(c, r)
    BY <1>3
  <2> HIDE DEF r
  <2>4. row # Absent /\ (IsUpload(row) => id \in Uuids /\ Unlocked(row))
    BY <1>3, VersionsAssumption DEF IsUpload
  <2>5. ClientOK(r, clock) /\ ~ SetsLock(r)
    BY <2>1, <2>2, <2>4 DEF ClientOK, SetsLock, Deletes
  <2> QED
    BY <2>1, <2>2, <2>3, <2>5, BeginStep
<1>4. CASE BeginDelete(c)
  <2>1. CASE bucket.versioning = "Off"
    BY <1>1, <1>2, <1>4, <2>1 DEF BeginDelete
  <2>2. CASE bucket.versioning # "Off"
    <3>1. PICK id \in NewIds(bucket) :
            /\ Begin(c, [Idle EXCEPT !.op = "delete", !.pc = "commit", !.id = id,
                                     !.row = Tombstone(clock)])
            /\ Take(id)
      BY <1>4, <2>2 DEF BeginDelete
    <3>2. Tombstone(clock) \in Rows /\ Tombstone(clock).state = "Committed"
      <4>1. NoLock \in Locks
        BY VersionsAssumption DEF NoLock, Locks, Dates
      <4> QED
        BY <1>1, <4>1, NewRows
    <3> QED
      BY <1>3, <3>1, <3>2
  <2> QED
    BY <2>1, <2>2
<1>5. CASE BeginDeleteVersion(c)
  BY <1>2, <1>5 DEF BeginDeleteVersion
<1>6. CASE BeginCreate(c)
  <2>1. PICK id \in Uuids \ used :
          /\ Begin(c, [Idle EXCEPT !.op = "create", !.pc = "commit", !.id = id,
                                   !.row = Upload(clock)])
          /\ Take(id)
    BY <1>6 DEF BeginCreate
  <2>2. Upload(clock) \in Rows /\ Unlocked(Upload(clock))
    <3>1. NoLock \in Locks
      BY VersionsAssumption DEF NoLock, Locks, Dates
    <3> QED
      BY <1>1, <3>1, NewRows
  <2> QED
    BY <1>3, <2>1, <2>2
<1> QED
  BY <1>4, <1>5, <1>6

\* A complete and an abort begin with the upload.
LEMMA BeginUploadOK ==
  ASSUME VersionsInv, NEW c \in Clients, BeginComplete(c) \/ BeginAbort(c)
  PROVE  VersionsInv'
<1>1. used \subseteq Uuids /\ clock \in Times /\ clock \in Nat
  BY RowTypes DEF VersionsInv, TypeOK
<1>2. CASE BeginComplete(c)
  <2>1. PICK id \in Ids :
          /\ IsUpload(versions[id])
          /\ Begin(c, [Idle EXCEPT !.op = "complete", !.pc = "commit", !.id = id,
                                   !.row = Completed(versions[id], clock)])
          /\ UNCHANGED used
    BY <1>2 DEF BeginComplete
  <2> DEFINE row == Completed(versions[id], clock)
             r == [Idle EXCEPT !.op = "complete", !.pc = "commit", !.id = id, !.row = row]
  <2>2. row \in Rows /\ row.state = "Committed"
    <3>1. versions[id] \in Rows
      BY <2>1, RowTypes DEF IsUpload, VersionsInv
    <3> QED
      BY <1>1, <3>1 DEF Completed, Rows
  <2>3. Begin(c, r) /\ used' = used
    BY <2>1
  <2> HIDE DEF row
  <2>4. r \in Work /\ r.op = "complete" /\ r.pc = "commit" /\ r.row = row
    BY <2>2, IdleFacts DEF Work, Requests
  <2> HIDE DEF r
  <2>5. ClientOK(r, clock) /\ ~ Writes(r) /\ ~ SetsLock(r)
    BY <2>2, <2>4 DEF ClientOK, Writes, SetsLock, Deletes
  <2> QED
    BY <1>1, <2>3, <2>4, <2>5, BeginStep
<1>3. CASE BeginAbort(c)
  <2>1. PICK id \in Ids :
          /\ IsUpload(versions[id])
          /\ Begin(c, [Idle EXCEPT !.op = "abort", !.pc = "commit", !.id = id,
                                   !.read = versions[id]])
          /\ UNCHANGED used
    BY <1>3 DEF BeginAbort
  <2> DEFINE row == versions[id]
             r == [Idle EXCEPT !.op = "abort", !.pc = "commit", !.id = id, !.read = row]
  <2>2. row \in Rows /\ ~ ForbidsDelete(row, clock)
    <3>1. row \in Rows /\ Unlocked(row)
      BY <2>1, RowTypes DEF IsUpload, VersionsInv, UploadsOK
    <3> QED
      BY <1>1, <3>1 DEF Unlocked, ForbidsDelete
  <2>3. Begin(c, r) /\ used' = used
    BY <2>1
  <2> HIDE DEF row
  <2>4. r \in Work /\ r.op = "abort" /\ r.pc = "commit" /\ r.read = row
    BY <2>2, IdleFacts DEF Work, Requests
  <2> HIDE DEF r
  <2>5. ClientOK(r, clock) /\ ~ Writes(r) /\ ~ SetsLock(r)
    BY <2>2, <2>4 DEF ClientOK, Writes, SetsLock, Deletes
  <2> QED
    BY <1>1, <2>3, <2>4, <2>5, BeginStep
<1> QED
  BY <1>2, <1>3

\* A lock request begins with the lock it reads: it keeps the half it does not set and
\* shortens no retention.
LEMMA BeginLockOK ==
  ASSUME VersionsInv, NEW c \in Clients, BeginRetention(c) \/ BeginLegalHold(c)
  PROVE  VersionsInv'
<1>1. ASSUME NEW op \in {"retention", "legalHold"}, NEW id \in Ids, IsObject(versions[id]),
             NEW lock \in Locks, lock.until >= versions[id].until,
             op = "retention" => lock.hold = versions[id].hold,
             Begin(c, [Idle EXCEPT !.op = op, !.pc = "commit", !.id = id,
                                   !.read = versions[id], !.lock = lock]),
             used' = used
      PROVE  VersionsInv'
  <2> DEFINE row == versions[id]
             r == [Idle EXCEPT !.op = op, !.pc = "commit", !.id = id, !.read = row, !.lock = lock]
  <2>1. row \in Rows /\ row # Absent /\ ~ IsUpload(row) /\ used \subseteq Uuids
    BY <1>1, RowTypes DEF IsObject, IsUpload, VersionsInv, TypeOK
  <2>2. Begin(c, r) /\ lock.until >= row.until /\ (op = "retention" => lock.hold = row.hold)
    BY <1>1
  <2>3. versions[id] = row
    OBVIOUS
  <2> HIDE DEF row
  <2>4. /\ r \in Work /\ r.op = op /\ r.pc = "commit" /\ r.id = id /\ r.read = row
        /\ r.lock = lock
    BY <2>1, IdleFacts DEF Work, Requests
  <2> HIDE DEF r
  <2>5. ClientOK(r, clock) /\ ~ Writes(r)
    BY <2>1, <2>2, <2>4 DEF ClientOK, Writes, Deletes
  <2> QED
    BY <1>1, <2>1, <2>2, <2>3, <2>4, <2>5, BeginStep
<1>2. CASE BeginRetention(c)
  <2>1. PICK id \in Ids, until \in Dates \ {0} :
          /\ IsObject(versions[id]) /\ Extends(versions[id], until)
          /\ Begin(c, [Idle EXCEPT !.op = "retention", !.pc = "commit", !.id = id,
                         !.read = versions[id],
                         !.lock = RetentionLock(versions[id], until)])
          /\ UNCHANGED used
    BY <1>2 DEF BeginRetention
  <2> DEFINE lock == RetentionLock(versions[id], until)
  <2>2. versions[id].hold \in BOOLEAN
    BY <2>1, RowTypes DEF IsObject, VersionsInv, Rows
  <2>3. lock \in Locks /\ lock.until = until /\ lock.hold = versions[id].hold
    BY <2>2 DEF RetentionLock, Locks
  <2>4. lock.until >= versions[id].until
    BY <2>1, <2>3 DEF Extends
  <2> QED
    BY <1>1, <2>1, <2>3, <2>4
<1>3. CASE BeginLegalHold(c)
  <2>1. PICK id \in Ids, on \in BOOLEAN :
          /\ IsObject(versions[id])
          /\ Begin(c, [Idle EXCEPT !.op = "legalHold", !.pc = "commit", !.id = id,
                         !.read = versions[id],
                         !.lock = LegalHoldLock(versions[id], on)])
          /\ UNCHANGED used
    BY <1>3 DEF BeginLegalHold
  <2> DEFINE lock == LegalHoldLock(versions[id], on)
  <2>2. versions[id].until \in Dates
    BY <2>1, RowTypes DEF IsObject, VersionsInv, Rows
  <2>3. lock \in Locks /\ lock.until = versions[id].until
    BY <2>2 DEF LegalHoldLock, Locks
  <2>4. lock.until >= versions[id].until
    BY <2>2, <2>3, VersionsAssumption DEF Dates
  <2> QED
    BY <1>1, <2>1, <2>3, <2>4
<1> QED
  BY <1>2, <1>3

------------------------------------------------------------------------------
(* The middle of a handler.                                                *)

\* The precondition and the lock are checked on the row as it is now.
LEMMA CheckOK ==
  ASSUME VersionsInv, NEW c \in Clients, CheckPut(c) \/ CheckDelete(c)
  PROVE  VersionsInv'
<1>1. /\ c \in Workers /\ c # Sweeper /\ used \subseteq Uuids /\ work[c] \in Work
      /\ UNCHANGED <<bucket, versions, used, clock, sent>> /\ sent \in 0 .. MaxRequests
      /\ ClientOK(work[c], clock) /\ NullVersion \in Ids
  BY RowTypes DEF VersionsInv, TypeOK, WorkersOK, CheckPut, CheckDelete
<1>2. CASE work' = [work EXCEPT ![c] = Idle]
  BY <1>1, <1>2, IdleFacts, WorkStep
<1>3. CASE CheckPut(c) /\ ~ PreconditionFails(work[c].cond, versions[NullVersion])
  <2> DEFINE row == versions[NullVersion]
             r == [work[c] EXCEPT !.pc = "body", !.read = row]
  <2>1. work' = [work EXCEPT ![c] = r] /\ work[c].op = "put"
    BY <1>3 DEF CheckPut
  <2>2. row \in Rows \cup {Absent} /\ ~ PreconditionFails(work[c].cond, row)
    BY <1>1, <1>3, RowTypes DEF VersionsInv
  <2> HIDE DEF row
  <2>3. /\ r \in Work /\ r.op = "put" /\ r.pc = "body" /\ r.read = row /\ r.cfg = work[c].cfg
        /\ r.cond = work[c].cond
    BY <1>1, <2>1, <2>2 DEF Work
  <2> HIDE DEF r
  <2>4. ClientOK(r, clock) /\ ~ Writes(r) /\ ~ SetsLock(r)
    <3>1. r.cfg \in BucketConfigs
      BY <1>1, <1>3, <2>1, <2>3 DEF ClientOK, CheckPut
    <3> QED
      BY <2>2, <2>3, <3>1 DEF ClientOK, Writes, SetsLock, Deletes
  <2> QED
    BY <1>1, <2>1, <2>3, <2>4, WorkStep
<1>4. CASE CheckDelete(c) /\ ~ DeleteForbidden(versions[work[c].id])
  <2> DEFINE row == versions[work[c].id]
             r == [work[c] EXCEPT !.pc = "commit", !.read = row]
  <2>1. /\ work' = [work EXCEPT ![c] = r]
        /\ work[c].op \in {"delete", "deleteVersion"} /\ work[c].pc = "check"
    BY <1>4 DEF CheckDelete
  <2>2. work[c].row = Absent /\ work[c].id \in Ids
    BY <1>1, <2>1 DEF ClientOK
  <2>3. row \in Rows \cup {Absent} /\ (row # Absent => ~ ForbidsDelete(row, clock))
    BY <1>4, <2>2, RowTypes DEF VersionsInv, DeleteForbidden
  <2> HIDE DEF row
  <2>4. /\ r \in Work /\ r.op = work[c].op /\ r.pc = "commit" /\ r.read = row /\ r.row = Absent
    BY <1>1, <2>1, <2>2, <2>3 DEF Work
  <2> HIDE DEF r
  <2>5. ClientOK(r, clock) /\ ~ Writes(r) /\ ~ SetsLock(r)
    BY <2>1, <2>3, <2>4 DEF ClientOK, Writes, SetsLock, Deletes
  <2> QED
    BY <1>1, <2>1, <2>4, <2>5, WorkStep
<1> QED
  BY <1>2, <1>3, <1>4 DEF CheckPut, CheckDelete

\* The manifest is made with the lock of the headers or of the bucket as it was read.
LEMMA BodyOK ==
  ASSUME VersionsInv, NEW c \in Clients, Body(c)
  PROVE  VersionsInv'
<1>1. /\ c \in Workers /\ c # Sweeper /\ work[c] \in Work /\ clock \in Times
      /\ UNCHANGED <<bucket, versions, clock, sent>> /\ sent \in 0 .. MaxRequests
      /\ ClientOK(work[c], clock) /\ work[c].pc = "body"
  BY RowTypes DEF VersionsInv, TypeOK, WorkersOK, Body
<1>2. work[c].cfg \in BucketConfigs /\ work[c].op \in {"put", "copy"}
  BY <1>1 DEF ClientOK
<1>3. LockOf(work[c]) \in Locks
  <2>1. CASE work[c].lock # Never
    BY <1>1, <2>1 DEF Work, LockOf
  <2>2. CASE work[c].lock = Never
    <3> DEFINE cfg == work[c].cfg
    <3>1. LockOf(work[c]) = DefaultLock(cfg)
      BY <2>2 DEF LockOf
    <3>2. NoLock \in Locks
      BY VersionsAssumption DEF NoLock, Locks, Dates
    <3>3. CASE cfg.enabled /\ cfg.default_retention # Never
      <4>1. cfg.default_retention \in Periods
        BY <1>2, <3>3 DEF BucketConfigs, Options
      <4>2. clock + cfg.default_retention \in Dates
        <5>1. cfg.default_retention \in Nat /\ MaxTime + cfg.default_retention <= MaxDate
          BY <4>1, VersionsAssumption
        <5>2. clock \in Nat /\ clock <= MaxTime /\ MaxTime \in Nat /\ MaxDate \in Nat
          BY <1>1, VersionsAssumption DEF Times
        <5> HIDE DEF cfg
        <5> QED
          BY <5>1, <5>2 DEF Dates
      <4>3. DefaultLock(cfg) = [until |-> clock + cfg.default_retention, hold |-> FALSE]
        BY <3>3 DEF DefaultLock
      <4> QED
        BY <3>1, <4>2, <4>3 DEF Locks
    <3>4. CASE ~ (cfg.enabled /\ cfg.default_retention # Never)
      BY <3>1, <3>2, <3>4 DEF DefaultLock
    <3> QED
      BY <3>3, <3>4
  <2> QED
    BY <2>1, <2>2
<1> DEFINE row == Object(LockOf(work[c]), clock)
<1>4. row \in Rows /\ row.state = "Committed" /\ row # Absent
  BY <1>1, <1>3, NewRows, VersionsAssumption
<1>5. PICK id \in NewIds(work[c].cfg) :
        /\ Take(id)
        /\ work' = [work EXCEPT ![c].pc = "commit", ![c].id = id, ![c].row = row]
  BY DEF Body
<1> HIDE DEF row
<1> DEFINE r == [work[c] EXCEPT !.pc = "commit", !.id = id, !.row = row]
<1>6. work' = [work EXCEPT ![c] = r]
  BY <1>1, <1>5 DEF VersionsInv, TypeOK
<1>7. /\ id \in Ids /\ used \subseteq used' /\ used' \subseteq Uuids
      /\ id \in Uuids => id \in used' \ used
  BY <1>5, NewId
<1>8. /\ r \in Work /\ r.op = work[c].op /\ r.pc = "commit" /\ r.id = id /\ r.row = row
      /\ r.cond = work[c].cond /\ r.read = work[c].read
  BY <1>1, <1>4, <1>7 DEF Work
<1> HIDE DEF r
<1>9. ClientOK(r, clock) /\ ~ SetsLock(r)
  BY <1>1, <1>2, <1>4, <1>7, <1>8 DEF ClientOK, SetsLock, Deletes, IsUpload
<1> QED
  BY <1>1, <1>6, <1>7, <1>8, <1>9, WorkStep

------------------------------------------------------------------------------
(* Transactions.                                                           *)

\* What the end of a request has in common with every other.
LEMMA FinishStep ==
  ASSUME VersionsInv, NEW c \in Clients, NEW table \in [Ids -> Rows \cup {Absent}],
         Finish(c, table),
         \A id \in Ids : IsUpload(table[id]) => Unlocked(table[id]) /\ id # NullVersion,
         \A d \in Clients : d # c /\ SetsLock(work[d]) => ~ IsUpload(table[work[d].id]),
         \A id \in Uuids : table[id] # Absent => id \in used,
         \A d \in Clients : d # c /\ Writes(work[d]) /\ work[d].id \in Uuids
                              => table[work[d].id] = Absent
  PROVE  VersionsInv'
<1>1. /\ versions' = table /\ work' = [work EXCEPT ![c] = Idle]
      /\ UNCHANGED <<bucket, used, clock, sent>>
  BY DEF Finish
<1>2. c \in Workers /\ c # Sweeper /\ used \subseteq Uuids /\ clock \in Times
  BY RowTypes DEF VersionsInv, TypeOK
<1> QED
  BY <1>1, <1>2, IdleFacts, TableStep

\* put_manifest to a uuid goes to a row that nobody else is about to write or lock.
LEMMA CommitWriteOK ==
  ASSUME VersionsInv, NEW c \in Clients, CommitWrite(c)
  PROVE  VersionsInv'
<1> DEFINE row == work[c].row
           id == work[c].id
           table == [versions EXCEPT ![id] = row]
<1>1. Finish(c, table) /\ Writes(work[c])
  BY DEF CommitWrite, Writes
<1>2. /\ id \in Ids /\ row \in Rows
      /\ IsUpload(row) => id \in Uuids /\ Unlocked(row)
  BY <1>1, RowTypes DEF VersionsInv, WorkersOK, ClientOK, Work, Writes
<1>3. id \in Uuids => /\ id \in used
                      /\ \A d \in Clients : d # c /\ (Writes(work[d]) \/ SetsLock(work[d]))
                                              => work[d].id # id
  BY <1>1 DEF VersionsInv, FreshOK
<1>4. /\ table \in [Ids -> Rows \cup {Absent}] /\ table[id] = row
      /\ \A k \in Ids : k # id => table[k] = versions[k]
  BY <1>2 DEF VersionsInv, TypeOK
<1> HIDE DEF table, row, id
<1>5. \A k \in Ids : IsUpload(table[k]) => Unlocked(table[k]) /\ k # NullVersion
  BY <1>2, <1>4, RowTypes DEF VersionsInv, UploadsOK
<1>6. ASSUME NEW d \in Clients, d # c, SetsLock(work[d])
      PROVE  ~ IsUpload(table[work[d].id])
  <2>1. work[d].id \in Ids /\ ~ IsUpload(versions[work[d].id])
    BY <1>6 DEF VersionsInv, UploadsOK, WorkersOK, ClientOK
  <2> QED
    BY <1>2, <1>3, <1>4, <1>6, <2>1
<1>7. \A k \in Uuids : table[k] # Absent => k \in used
  BY <1>3, <1>4, RowTypes DEF VersionsInv, FreshOK
<1>8. ASSUME NEW d \in Clients, d # c, Writes(work[d]), work[d].id \in Uuids
      PROVE  table[work[d].id] = Absent
  <2>1. versions[work[d].id] = Absent /\ work[d].id \in Ids
    BY <1>8 DEF VersionsInv, FreshOK, Ids
  <2> QED
    BY <1>3, <1>4, <1>8, <2>1
<1> QED
  BY <1>1, <1>4, <1>5, <1>6, <1>7, <1>8, FinishStep

\* Rows that are removed, and a row under "null" that is no upload, are in nobody's way.
LEMMA Shrinks ==
  ASSUME VersionsInv, NEW c \in Clients, NEW table \in [Ids -> Rows \cup {Absent}],
         Finish(c, table), ~ IsUpload(table[NullVersion]),
         \A k \in Uuids : table[k] = versions[k] \/ table[k] = Absent
  PROVE  VersionsInv'
<1>1. \A k \in Uuids : IsUpload(table[k]) => IsUpload(versions[k]) /\ table[k] = versions[k]
  BY DEF IsUpload
<1>2. \A k \in Ids : k \in Uuids \/ k = NullVersion
  BY DEF Ids
<1>3. \A k \in Ids : IsUpload(table[k]) => Unlocked(table[k]) /\ k # NullVersion
  BY <1>1, <1>2, RowTypes DEF VersionsInv, UploadsOK
<1>4. ASSUME NEW d \in Clients, SetsLock(work[d])
      PROVE  ~ IsUpload(table[work[d].id])
  <2>1. work[d].id \in Ids /\ ~ IsUpload(versions[work[d].id])
    BY <1>4 DEF VersionsInv, UploadsOK, WorkersOK, ClientOK
  <2> QED
    BY <1>1, <1>2, <2>1
<1>5. \A k \in Uuids : table[k] # Absent => k \in used
  BY DEF VersionsInv, FreshOK
<1>6. ASSUME NEW d \in Clients, Writes(work[d]), work[d].id \in Uuids
      PROVE  table[work[d].id] = Absent
  BY <1>6 DEF VersionsInv, FreshOK
<1> QED
  BY <1>3, <1>4, <1>5, <1>6, FinishStep

\* delete_manifest, and complete_multipart_upload, which goes to "null".
LEMMA CommitRemoveOK ==
  ASSUME VersionsInv, NEW c \in Clients, CommitDelete(c) \/ CommitComplete(c)
  PROVE  VersionsInv'
<1> DEFINE id == work[c].id
<1>1. /\ versions \in [Ids -> Rows \cup {Absent}] /\ ~ IsUpload(versions[NullVersion])
      /\ NullVersion \in Ids /\ Uuids \subseteq Ids /\ NullVersion \notin Uuids
  BY RowTypes DEF VersionsInv, TypeOK, UploadsOK
<1>2. CASE CommitDelete(c)
  <2> DEFINE table == [versions EXCEPT ![id] = Absent]
  <2>1. Finish(c, table)
    BY <1>2 DEF CommitDelete
  <2>2. /\ table \in [Ids -> Rows \cup {Absent}]
        /\ \A k \in Ids : table[k] = versions[k] \/ table[k] = Absent
    BY <1>1
  <2> HIDE DEF table
  <2>3. ~ IsUpload(table[NullVersion])
    BY <1>1, <2>2 DEF IsUpload
  <2> QED
    BY <1>1, <2>1, <2>2, <2>3, Shrinks
<1>3. CASE CommitComplete(c) /\ ~ IsUpload(versions[id])
  <2>1. Finish(c, versions)
    BY <1>3 DEF CommitComplete
  <2> QED
    BY <1>1, <2>1, Shrinks
<1>4. CASE CommitComplete(c) /\ IsUpload(versions[id])
  <2> DEFINE row == work[c].row
             table == [versions EXCEPT ![NullVersion] = row, ![id] = Absent]
  <2>1. Finish(c, table)
    BY <1>4 DEF CommitComplete
  <2>2. row \in Rows /\ row.state = "Committed"
    BY <1>4 DEF VersionsInv, WorkersOK, ClientOK, CommitComplete
  <2> HIDE DEF row
  <2> DEFINE first == [versions EXCEPT ![NullVersion] = row]
  <2>3. /\ first \in [Ids -> Rows \cup {Absent}] /\ first[NullVersion] = row
        /\ \A k \in Uuids : first[k] = versions[k]
    BY <1>1, <2>2
  <2> HIDE DEF first
  <2>4. /\ table \in [Ids -> Rows \cup {Absent}]
        /\ \A k \in Ids : table[k] = first[k] \/ table[k] = Absent
    <3>1. table = [first EXCEPT ![id] = Absent]
      BY DEF first
    <3> HIDE DEF table
    <3> QED
      BY <2>3, <3>1
  <2> HIDE DEF table
  <2>5. ~ IsUpload(table[NullVersion])
    BY <1>1, <2>2, <2>3, <2>4 DEF IsUpload
  <2> QED
    BY <1>1, <2>1, <2>3, <2>4, <2>5, Shrinks
<1> QED
  BY <1>2, <1>3, <1>4

\* The rows after the lock that client c sets.
Relocked(c) == [versions EXCEPT ![work[c].id].until = work[c].lock.until,
                                ![work[c].id].hold = work[c].lock.hold]

\* One row has the lock that a request sets.
LEMMA LockedRow ==
  ASSUME VersionsInv, NEW c \in Clients, SetsLock(work[c]), versions[work[c].id] # Absent,
         NEW table, table = Relocked(c)
  PROVE  /\ table \in [Ids -> Rows \cup {Absent}]
         /\ table[work[c].id] # Absent
         /\ table[work[c].id].state = versions[work[c].id].state
         /\ table[work[c].id].until = work[c].lock.until
         /\ table[work[c].id].hold = work[c].lock.hold
         /\ \A k \in Ids : k # work[c].id => table[k] = versions[k]
<1> DEFINE id == work[c].id
           lock == work[c].lock
           old == versions[id]
           row == [old EXCEPT !.until = lock.until, !.hold = lock.hold]
<1>1. id \in Ids /\ lock \in Locks
  BY DEF VersionsInv, WorkersOK, ClientOK
<1>2. lock.until \in Dates /\ lock.hold \in BOOLEAN
  BY <1>1 DEF Locks
<1>3. versions \in [Ids -> Rows \cup {Absent}] /\ old \in Rows
  BY <1>1, RowTypes DEF VersionsInv, TypeOK
<1>4. table = [versions EXCEPT ![id] = row]
  BY <1>1, <1>3 DEF Relocked
<1> HIDE DEF old, lock, id
<1>5. /\ row \in Rows /\ row.state = old.state /\ row.until = lock.until /\ row.hold = lock.hold
  BY <1>2, <1>3 DEF Rows
<1>6. row # Absent
  BY <1>5, VersionsAssumption
<1> HIDE DEF row
<1>7. table \in [Ids -> Rows \cup {Absent}] /\ table[id] = row
      /\ \A k \in Ids : k # id => table[k] = versions[k]
  BY <1>1, <1>3, <1>4, <1>5
<1> QED
  BY <1>5, <1>6, <1>7 DEF old, lock, id

\* set_lock changes the lock of a row that is still there and is no upload.
LEMMA CommitLockOK ==
  ASSUME VersionsInv, NEW c \in Clients, CommitLock(c)
  PROVE  VersionsInv'
<1>1. /\ versions \in [Ids -> Rows \cup {Absent}] /\ ~ IsUpload(versions[NullVersion])
      /\ NullVersion \in Ids /\ Uuids \subseteq Ids /\ NullVersion \notin Uuids
      /\ SetsLock(work[c])
  BY RowTypes DEF VersionsInv, TypeOK, UploadsOK, CommitLock, SetsLock
<1> DEFINE id == work[c].id
<1>2. CASE versions[id] = Absent
  <2>1. Finish(c, versions)
    BY <1>2 DEF CommitLock
  <2> QED
    BY <1>1, <2>1, Shrinks
<1>3. CASE versions[id] # Absent
  <2>1. PICK table : /\ Finish(c, table)
                     /\ table = Relocked(c)
    BY <1>3 DEF CommitLock, Relocked
  <2>2. /\ table \in [Ids -> Rows \cup {Absent}] /\ table[id] # Absent
        /\ table[id].state = versions[id].state
        /\ \A k \in Ids : k # id => table[k] = versions[k]
    BY <1>1, <1>3, <2>1, LockedRow
  <2>3. ~ IsUpload(table[id])
    BY <1>1, <1>3, <2>2 DEF VersionsInv, UploadsOK, IsUpload
  <2>4. id \in Ids
    BY <1>1 DEF VersionsInv, WorkersOK, ClientOK
  <2> HIDE DEF id
  <2>5. \A k \in Ids : IsUpload(table[k]) => k # id /\ table[k] = versions[k]
    BY <2>2, <2>3
  <2>6. \A k \in Ids : IsUpload(table[k]) => Unlocked(table[k]) /\ k # NullVersion
    BY <1>1, <2>5 DEF VersionsInv, UploadsOK
  <2>7. ASSUME NEW d \in Clients, SetsLock(work[d])
        PROVE  ~ IsUpload(table[work[d].id])
    <3>1. work[d].id \in Ids /\ ~ IsUpload(versions[work[d].id])
      BY <2>7 DEF VersionsInv, UploadsOK, WorkersOK, ClientOK
    <3> QED
      BY <2>5, <3>1
  <2>8. \A k \in Uuids : table[k] # Absent => k \in used
    BY <1>1, <1>3, <2>2 DEF VersionsInv, FreshOK, id
  <2>9. ASSUME NEW d \in Clients, d # c, Writes(work[d]), work[d].id \in Uuids
        PROVE  table[work[d].id] = Absent
    <3>1. versions[work[d].id] = Absent /\ work[d].id # id
      BY <1>3, <2>9 DEF VersionsInv, FreshOK, id
    <3> QED
      BY <1>1, <2>2, <2>9, <3>1
  <2> QED
    BY <2>1, <2>2, <2>6, <2>7, <2>8, <2>9, FinishStep
<1> QED
  BY <1>2, <1>3

\* The configuration of the bucket, and time, which only lets retentions end.
LEMMA EnvironmentOK ==
  ASSUME VersionsInv, PutVersioning \/ PutLockConfig \/ PutLifecycle \/ Tick
  PROVE  VersionsInv'
<1>1. CASE PutVersioning \/ PutLockConfig \/ PutLifecycle
  <2>1. /\ UNCHANGED <<versions, used, clock, work>> /\ sent < MaxRequests /\ sent' = sent + 1
    BY <1>1 DEF PutVersioning, PutLockConfig, PutLifecycle, Configure
  <2>2. bucket' \in BucketConfigs
    <3>1. bucket \in BucketConfigs /\ Configurations \subseteq BucketConfigs
      BY VersionsAssumption DEF VersionsInv, TypeOK
    <3>2. ASSUME NEW v \in {"Enabled", "Suspended"}
          PROVE  [bucket EXCEPT !.versioning = v] \in BucketConfigs
      BY <3>1 DEF BucketConfigs
    <3>3. ASSUME NEW cfg \in Configurations
          PROVE  /\ [bucket EXCEPT !.default_retention = cfg.default_retention] \in BucketConfigs
                 /\ [bucket EXCEPT !.expiration = cfg.expiration,
                                   !.noncurrent = cfg.noncurrent,
                                   !.abort = cfg.abort] \in BucketConfigs
      <4>1. /\ cfg.default_retention \in Options /\ cfg.expiration \in Options
            /\ cfg.noncurrent \in Options /\ cfg.abort \in Options
        BY <3>1 DEF BucketConfigs
      <4> QED
        BY <3>1, <4>1 DEF BucketConfigs
    <3> QED
      BY <1>1, <3>2, <3>3 DEF PutVersioning, PutLockConfig, PutLifecycle, Configure
  <2>3. sent' \in 0 .. MaxRequests
    BY <2>1, VersionsAssumption DEF VersionsInv, TypeOK
  <2> QED
    BY <2>1, <2>2, <2>3 DEF VersionsInv, TypeOK, WorkersOK, UploadsOK, FreshOK
<1>2. CASE Tick
  <2>1. /\ UNCHANGED <<bucket, versions, used, sent, work>>
        /\ clock' = clock + 1 /\ clock \in Nat /\ clock' \in Times
    BY <1>2, VersionsAssumption DEF Tick, VersionsInv, TypeOK, Times
  <2>2. ASSUME NEW row \in Rows, ~ ForbidsDelete(row, clock)
        PROVE  ~ ForbidsDelete(row, clock')
    <3>1. row.until \in Nat
      BY VersionsAssumption DEF Rows, Dates
    <3> QED
      BY <2>1, <2>2, <3>1 DEF ForbidsDelete
  <2>3. ASSUME NEW c \in Clients
        PROVE  ClientOK(work[c], clock')
    <3>1. work[c] \in Work /\ ClientOK(work[c], clock)
      BY RowTypes DEF VersionsInv, WorkersOK
    <3>2. work[c].read # Absent => work[c].read \in Rows
      BY <3>1 DEF Work
    <3> QED
      BY <2>2, <3>1, <3>2 DEF ClientOK
  <2>4. SweeperOK(work[Sweeper], clock')
    <3>1. work[Sweeper].now \in Nat /\ SweeperOK(work[Sweeper], clock)
      BY RowTypes DEF VersionsInv, WorkersOK, Work, Times
    <3> QED
      BY <2>1, <3>1 DEF SweeperOK
  <2>5. TypeOK' /\ UploadsOK' /\ FreshOK'
    BY <2>1 DEF VersionsInv, TypeOK, UploadsOK, FreshOK
  <2> QED
    BY <2>1, <2>3, <2>4, <2>5 DEF VersionsInv, WorkersOK
<1> QED
  BY <1>1, <1>2

------------------------------------------------------------------------------
(* The lifecycle sweep.                                                    *)

\* The manifest that is evaluated next is one of the list; what the sweeper does next
\* is another of them, or nothing.
LEMMA EvaluatedFacts ==
  ASSUME VersionsInv, work[Sweeper].pc = "evaluate", Evaluated
  PROVE  /\ NextUp \in Ids /\ NextUp \in work[Sweeper].todo
         /\ work'[Sweeper] # work[Sweeper]
         /\ \E r \in Work : /\ work' = [work EXCEPT ![Sweeper] = r]
                            /\ SweeperOK(r, clock) /\ ~ Writes(r) /\ ~ SetsLock(r)
<1> DEFINE s == work[Sweeper]
<1>1. s \in Work /\ SweeperOK(s, clock) /\ s.pc = "evaluate" /\ Sweeper \in Workers
  BY RowTypes DEF VersionsInv, WorkersOK
<1>2. /\ s.todo \in SUBSET Ids /\ s.todo # {} /\ s.snap \in [Ids -> Rows \cup {Absent}]
      /\ \A id \in s.todo : s.snap[id] # Absent
  BY <1>1 DEF Work, SweeperOK
<1>3. NextUp \in s.todo
  BY <1>2, FirstIsListed DEF NextUp
<1>4. work \in [Workers -> Work]
  BY DEF VersionsInv, TypeOK
<1>5. CASE s.todo = {NextUp}
  <2>1. work' = [work EXCEPT ![Sweeper] = Idle]
    BY <1>5 DEF Evaluated
  <2>2. clock \in Times
    BY RowTypes DEF VersionsInv
  <2>3. work'[Sweeper] = Idle /\ Idle # s
    BY <1>1, <1>4, <2>1, IdleFacts
  <2> QED
    BY <1>2, <1>3, <2>1, <2>2, <2>3, IdleFacts
<1>6. CASE s.todo # {NextUp}
  <2> DEFINE rest == s.todo \ {NextUp}
             r == [s EXCEPT !.todo = rest]
  <2>1. work' = [work EXCEPT ![Sweeper] = r]
    BY <1>6 DEF Evaluated
  <2>2. rest \in SUBSET Ids /\ rest # {} /\ rest # s.todo /\ rest \subseteq s.todo
    BY <1>2, <1>3, <1>6
  <2> HIDE DEF rest
  <2>3. /\ r \in Work /\ r.pc = s.pc /\ r.cfg = s.cfg /\ r.snap = s.snap /\ r.todo = rest
        /\ r.now = s.now
    BY <1>1, <2>2 DEF Work
  <2> HIDE DEF r
  <2>4. work'[Sweeper] = r /\ r # s
    BY <1>1, <1>4, <2>1, <2>2, <2>3
  <2>5. SweeperOK(r, clock) /\ ~ Writes(r) /\ ~ SetsLock(r)
    BY <1>1, <2>2, <2>3 DEF SweeperOK, Writes, SetsLock
  <2> QED
    BY <1>2, <1>3, <2>1, <2>3, <2>4, <2>5
<1> QED
  BY <1>5, <1>6

\* The sweep begins with the bucket, then takes the list of its manifests.
LEMMA SweepBeginOK ==
  ASSUME VersionsInv, SweepStart \/ SweepList
  PROVE  VersionsInv'
<1>1. /\ Sweeper \in Workers /\ Sweeper \notin Clients /\ work[Sweeper] \in Work
      /\ used \subseteq Uuids /\ sent \in 0 .. MaxRequests /\ clock \in Times /\ clock \in Nat
      /\ bucket \in BucketConfigs /\ SweeperOK(work[Sweeper], clock)
      /\ versions \in [Ids -> Rows \cup {Absent}]
  BY RowTypes DEF VersionsInv, TypeOK, WorkersOK
<1>2. CASE SweepStart
  <2> DEFINE r == [Idle EXCEPT !.op = "sweep", !.pc = "list", !.cfg = bucket, !.now = clock]
  <2>1. work' = [work EXCEPT ![Sweeper] = r] /\ UNCHANGED <<bucket, versions, clock, used, sent>>
    BY <1>2 DEF SweepStart, Start
  <2>2. r \in Work /\ r.pc = "list" /\ r.cfg = bucket /\ r.now = clock
    BY <1>1, IdleFacts DEF Work
  <2> HIDE DEF r
  <2>3. SweeperOK(r, clock)
    BY <1>1, <2>2 DEF SweeperOK
  <2> QED
    BY <1>1, <2>1, <2>2, <2>3, WorkStep
<1>3. CASE SweepList
  <2> DEFINE rows == {id \in Ids : versions[id] # Absent}
  <2>1. UNCHANGED <<bucket, versions, used, clock, sent>> /\ work[Sweeper].pc = "list"
    BY <1>3 DEF SweepList
  <2>2. CASE rows = {}
    <3>1. work' = [work EXCEPT ![Sweeper] = Idle]
      BY <1>3, <2>2 DEF SweepList
    <3> QED
      BY <1>1, <2>1, <3>1, IdleFacts, WorkStep
  <2>3. CASE rows # {}
    <3> DEFINE r == [work[Sweeper] EXCEPT !.pc = "evaluate", !.snap = versions, !.todo = rows]
    <3>1. work' = [work EXCEPT ![Sweeper] = r]
      BY <1>3, <2>3 DEF SweepList
    <3>2. rows \in SUBSET Ids /\ rows # {} /\ \A id \in rows : versions[id] # Absent
      BY <2>3
    <3> HIDE DEF rows
    <3>3. /\ r \in Work /\ r.pc = "evaluate" /\ r.snap = versions /\ r.todo = rows
          /\ r.cfg = work[Sweeper].cfg /\ r.now = work[Sweeper].now
      BY <1>1, <3>2 DEF Work
    <3> HIDE DEF r
    <3>4. SweeperOK(r, clock)
      BY <1>1, <2>1, <3>2, <3>3 DEF SweeperOK, VersionsInv, UploadsOK
    <3> QED
      BY <1>1, <2>1, <3>1, <3>3, <3>4, WorkStep
  <2> QED
    BY <2>2, <2>3
<1> QED
  BY <1>2, <1>3

\* What is kept, removed or expired; an expiry with versioning takes a fresh id.
LEMMA SweepStepOK ==
  ASSUME VersionsInv, SweepKeep \/ SweepDelete \/ SweepFails \/ SweepExpire
  PROVE  VersionsInv'
<1>1. /\ Sweeper \in Workers /\ Sweeper \notin Clients /\ work[Sweeper] \in Work
      /\ used \subseteq Uuids /\ sent \in 0 .. MaxRequests /\ clock \in Times
      /\ versions \in [Ids -> Rows \cup {Absent}] /\ work[Sweeper].now \in Times
      /\ NullVersion \notin Uuids /\ Uuids \subseteq Ids
      /\ work[Sweeper].pc = "evaluate"
  BY RowTypes DEF VersionsInv, TypeOK, Work, SweepKeep, SweepDelete, SweepFails, SweepExpire
<1>2. CASE SweepFails
  <2>1. /\ work' = [work EXCEPT ![Sweeper] = Idle]
        /\ UNCHANGED <<bucket, versions, used, clock, sent>>
    BY <1>2 DEF SweepFails
  <2> QED
    BY <1>1, <2>1, IdleFacts, WorkStep
<1>3. ASSUME Evaluated
      PROVE  \E r \in Work : /\ work' = [work EXCEPT ![Sweeper] = r]
                             /\ SweeperOK(r, clock) /\ ~ Writes(r) /\ ~ SetsLock(r)
  BY <1>1, <1>3, EvaluatedFacts
<1>4. CASE SweepKeep
  <2>1. Evaluated /\ UNCHANGED <<bucket, versions, used, clock, sent>>
    BY <1>4 DEF SweepKeep
  <2> QED
    BY <1>1, <1>3, <2>1, WorkStep
<1>5. ASSUME Evaluated, UNCHANGED <<bucket, clock, sent>>, NEW id \in Ids,
             NEW row \in Rows \cup {Absent}, ~ IsUpload(row),
             versions' = [versions EXCEPT ![id] = row],
             used \subseteq used', used' \subseteq Uuids,
             row = Absent \/ id \notin Uuids \/ id \in used' \ used
      PROVE  VersionsInv'
  <2>1. PICK r \in Work : /\ work' = [work EXCEPT ![Sweeper] = r]
                          /\ SweeperOK(r, clock) /\ ~ Writes(r) /\ ~ SetsLock(r)
    BY <1>3, <1>5
  <2>2. /\ versions' \in [Ids -> Rows \cup {Absent}] /\ versions'[id] = row
        /\ \A k \in Ids : k # id => versions'[k] = versions[k]
    BY <1>1, <1>5
  <2>3. \A k \in Ids : IsUpload(versions'[k]) => k # id /\ versions'[k] = versions[k]
    BY <1>5, <2>2
  <2>4. \A k \in Ids : IsUpload(versions'[k]) => Unlocked(versions'[k]) /\ k # NullVersion
    BY <2>3 DEF VersionsInv, UploadsOK
  <2>5. ASSUME NEW d \in Clients, SetsLock(work[d])
        PROVE  ~ IsUpload(versions'[work[d].id])
    <3>1. work[d].id \in Ids /\ ~ IsUpload(versions[work[d].id])
      BY <2>5 DEF VersionsInv, UploadsOK, WorkersOK, ClientOK
    <3> QED
      BY <2>3, <3>1
  <2>6. \A k \in Uuids : versions'[k] # Absent => k \in used'
    BY <1>1, <1>5, <2>2 DEF VersionsInv, FreshOK
  <2>7. ASSUME NEW d \in Clients, Writes(work[d]), work[d].id \in Uuids
        PROVE  versions'[work[d].id] = Absent
    <3>1. versions[work[d].id] = Absent /\ work[d].id \in used
      BY <2>7 DEF VersionsInv, FreshOK
    <3> QED
      BY <1>1, <1>5, <2>2, <2>7, <3>1
  <2> QED
    BY <1>1, <1>5, <2>1, <2>2, <2>4, <2>5, <2>6, <2>7, TableStep
<1>6. CASE SweepDelete
  <2>1. /\ Evaluated /\ UNCHANGED <<bucket, used, clock, sent>>
        /\ versions' = [versions EXCEPT ![NextUp] = Absent]
    BY <1>6 DEF SweepDelete
  <2>2. NextUp \in Ids /\ ~ IsUpload(Absent)
    BY <1>1, <2>1, EvaluatedFacts DEF IsUpload
  <2> QED
    BY <1>1, <1>5, <2>1, <2>2
<1>7. CASE SweepExpire
  <2>1. PICK id \in NewIds(work[Sweeper].cfg) :
          versions' = [versions EXCEPT ![id] = Tombstone(work[Sweeper].now)] /\ Take(id)
    BY <1>7 DEF SweepExpire
  <2>2. Evaluated /\ UNCHANGED <<bucket, clock, sent>>
    BY <1>7 DEF SweepExpire
  <2> DEFINE row == Tombstone(work[Sweeper].now)
  <2>3. row \in Rows /\ ~ IsUpload(row)
    <3>1. NoLock \in Locks
      BY VersionsAssumption DEF NoLock, Locks, Dates
    <3> QED
      BY <1>1, <3>1, NewRows DEF IsUpload
  <2>4. /\ id \in Ids /\ used \subseteq used' /\ used' \subseteq Uuids
        /\ id \in Uuids => id \in used' \ used
    BY <2>1, NewId
  <2>5. versions' = [versions EXCEPT ![id] = row]
    BY <2>1
  <2> HIDE DEF row
  <2> QED
    BY <1>5, <2>2, <2>3, <2>4, <2>5
<1> QED
  BY <1>2, <1>4, <1>6, <1>7

------------------------------------------------------------------------------
(* The theorems.                                                           *)

\* Every step of a request, of the sweeper and of time keeps the invariant.
LEMMA VersionsStep ==
  ASSUME VersionsInv, [Next]_vars
  PROVE  VersionsInv'
<1>1. CASE UNCHANGED vars
  BY <1>1 DEF vars, VersionsInv, TypeOK, WorkersOK, UploadsOK, FreshOK
<1>2. ASSUME NEW c \in Clients, Request(c)
      PROVE  VersionsInv'
  BY <1>2, BeginPutOK, BeginDeleteOK, BeginUploadOK, BeginLockOK DEF Request
<1>3. ASSUME NEW c \in Clients, Continue(c)
      PROVE  VersionsInv'
  BY <1>3, CheckOK, BodyOK, CommitWriteOK, CommitRemoveOK, CommitLockOK DEF Continue
<1>4. CASE Sweep
  BY <1>4, SweepBeginOK, SweepStepOK DEF Sweep
<1> QED
  BY <1>1, <1>2, <1>3, <1>4, EnvironmentOK DEF Next

\* The invariant holds in every state that the handlers reach.
LEMMA VersionsInvariant == Spec => []VersionsInv
<1>1. Init => VersionsInv
  <2> SUFFICES ASSUME Init
               PROVE  VersionsInv
    OBVIOUS
  <2>1. /\ versions \in [Ids -> Rows \cup {Absent}] /\ \A id \in Ids : versions[id] = Absent
        /\ work \in [Workers -> Work] /\ \A w \in Workers : work[w] = Idle
    BY IdleFacts DEF Init
  <2>2. TypeOK
    BY <2>1, VersionsAssumption DEF Init, TypeOK, Times
  <2>3. WorkersOK /\ UploadsOK /\ FreshOK
    BY <2>1, <2>2, IdleFacts, RowTypes DEF WorkersOK, UploadsOK, FreshOK, IsUpload
  <2> QED
    BY <2>2, <2>3 DEF VersionsInv
<1>2. VersionsInv /\ [Next]_vars => VersionsInv'
  BY VersionsStep
<1> QED
  BY <1>1, <1>2, PTL DEF Spec

\* Every variable always has its type; a new retention ends at a date.
THEOREM VersionsTypeCorrect == Spec => []TypeOK
<1>1. VersionsInv => TypeOK
  BY DEF VersionsInv
<1> QED
  BY <1>1, VersionsInvariant, PTL

\* What a step can do to a version with a uuid: nothing; give it its first row; end its
\* upload; delete it or set its lock, for a request; remove it, for the sweeper.
RowKept(id) == versions'[id] = versions[id]

RowMade(id) == versions[id] = Absent

UploadEnded(id) == versions'[id] = Absent /\ IsUpload(versions[id])

DeletedBy(c, id) ==
  Deletes(work[c]) /\ work[c].id = id /\ work'[c] # work[c] /\ versions'[id] = Absent

LockedBy(c, id) ==
  /\ SetsLock(work[c]) /\ work[c].id = id /\ work'[c] # work[c]
  /\ versions'[id] # Absent
  /\ versions'[id].until = work[c].lock.until
  /\ versions'[id].hold = work[c].lock.hold

Swept(id) ==
  /\ work[Sweeper].pc = "evaluate" /\ work'[Sweeper] # work[Sweeper]
  /\ versions'[id] = Absent /\ ~ Protected(work[Sweeper].snap[id])

RowChange(id) ==
  \/ RowKept(id) \/ RowMade(id) \/ UploadEnded(id) \/ Swept(id)
  \/ \E c \in Clients : DeletedBy(c, id) \/ LockedBy(c, id)

\* There is nothing else that a step does to such a version.
LEMMA RowStep ==
  ASSUME VersionsInv, Next, NEW id \in Uuids
  PROVE  RowChange(id)
<1>1. /\ versions \in [Ids -> Rows \cup {Absent}] /\ id \in Ids /\ id # NullVersion
      /\ NullVersion \in Ids /\ Sweeper \in Workers /\ work \in [Workers -> Work]
  BY RowTypes DEF VersionsInv, TypeOK
<1>2. ASSUME NEW c \in Clients, work' = [work EXCEPT ![c] = Idle], work[c].pc = "commit"
      PROVE  work'[c] # work[c]
  <2>1. work'[c] = Idle
    BY <1>1, <1>2, RowTypes DEF VersionsInv
  <2> QED
    BY <1>2, <2>1, IdleFacts
<1>3. ASSUME NEW c \in Clients, Continue(c)
      PROVE  RowChange(id)
  <2>1. CASE CheckPut(c) \/ CheckDelete(c) \/ Body(c)
    BY <2>1 DEF CheckPut, CheckDelete, Body, RowChange, RowKept
  <2>2. CASE CommitWrite(c)
    <3>1. Writes(work[c]) /\ versions' = [versions EXCEPT ![work[c].id] = work[c].row]
      BY <2>2 DEF CommitWrite, Writes, Finish
    <3>2. CASE work[c].id = id
      BY <3>1, <3>2 DEF VersionsInv, FreshOK, RowChange, RowMade
    <3>3. CASE work[c].id # id
      BY <1>1, <3>1, <3>3 DEF RowChange, RowKept
    <3> QED
      BY <3>2, <3>3
  <2>3. CASE CommitDelete(c)
    <3>1. /\ Deletes(work[c]) /\ versions' = [versions EXCEPT ![work[c].id] = Absent]
          /\ work'[c] # work[c]
      BY <1>2, <2>3 DEF CommitDelete, Deletes, Finish
    <3>2. DeletedBy(c, id) \/ RowKept(id)
      BY <1>1, <3>1 DEF DeletedBy, RowKept
    <3> QED
      BY <3>2 DEF RowChange
  <2>4. CASE CommitComplete(c)
    <3>1. CASE ~ IsUpload(versions[work[c].id])
      BY <2>4, <3>1 DEF CommitComplete, Finish, RowChange, RowKept
    <3>2. CASE IsUpload(versions[work[c].id])
      <4>1. versions' = [versions EXCEPT ![NullVersion] = work[c].row, ![work[c].id] = Absent]
        BY <2>4, <3>2 DEF CommitComplete, Finish
      <4>2. versions'[id] = IF work[c].id = id THEN Absent ELSE versions[id]
        BY <1>1, <4>1
      <4> QED
        BY <3>2, <4>2 DEF RowChange, RowKept, UploadEnded
    <3> QED
      BY <3>1, <3>2
  <2>5. CASE CommitLock(c)
    <3>1. SetsLock(work[c]) /\ work'[c] # work[c]
      BY <1>2, <2>5 DEF CommitLock, SetsLock, Finish
    <3>2. CASE versions[work[c].id] = Absent
      BY <2>5, <3>2 DEF CommitLock, Finish, RowChange, RowKept
    <3>3. CASE versions[work[c].id] # Absent
      <4>1. versions' = Relocked(c)
        BY <2>5, <3>3 DEF CommitLock, Relocked, Finish
      <4>2. /\ versions'[work[c].id] # Absent
            /\ versions'[work[c].id].until = work[c].lock.until
            /\ versions'[work[c].id].hold = work[c].lock.hold
            /\ \A k \in Ids : k # work[c].id => versions'[k] = versions[k]
        BY <3>1, <3>3, <4>1, LockedRow
      <4>3. LockedBy(c, id) \/ RowKept(id)
        BY <1>1, <3>1, <4>2 DEF LockedBy, RowKept
      <4> QED
        BY <4>3 DEF RowChange
    <3> QED
      BY <3>2, <3>3
  <2> QED
    BY <1>3, <2>1, <2>2, <2>3, <2>4, <2>5 DEF Continue
<1>4. CASE SweepDelete
  <2>1. /\ work[Sweeper].pc = "evaluate" /\ Verdict(NextUp) = "delete" /\ Evaluated
        /\ versions' = [versions EXCEPT ![NextUp] = Absent]
    BY <1>4 DEF SweepDelete
  <2>2. work'[Sweeper] # work[Sweeper]
    BY <2>1, EvaluatedFacts
  <2>3. ~ Protected(work[Sweeper].snap[NextUp])
    BY <2>1 DEF Verdict
  <2> QED
    BY <1>1, <2>1, <2>2, <2>3 DEF RowChange, RowKept, Swept
<1>5. CASE SweepExpire
  <2>1. PICK k \in NewIds(work[Sweeper].cfg) :
          versions' = [versions EXCEPT ![k] = Tombstone(work[Sweeper].now)] /\ Take(k)
    BY <1>5 DEF SweepExpire
  <2>2. k \in Uuids => k \notin used
    BY <2>1, NewId
  <2>3. k = id => versions[id] = Absent
    BY <2>2 DEF VersionsInv, FreshOK
  <2>4. k # id => versions'[id] = versions[id]
    BY <1>1, <2>1
  <2> QED
    BY <2>3, <2>4 DEF RowChange, RowKept, RowMade
<1>6. ASSUME UNCHANGED versions
      PROVE  RowChange(id)
  BY <1>6 DEF RowChange, RowKept
<1>7. ASSUME NEW c \in Clients, Request(c)
      PROVE  UNCHANGED versions
  BY <1>7 DEF Request, BeginPut, BeginCopy, BeginDelete, BeginDeleteVersion, BeginCreate,
       BeginComplete, BeginAbort, BeginRetention, BeginLegalHold, Begin, Start
<1>8. PutVersioning \/ PutLockConfig \/ PutLifecycle \/ Tick => UNCHANGED versions
  BY DEF PutVersioning, PutLockConfig, PutLifecycle, Configure, Tick
<1>9. SweepStart \/ SweepList \/ SweepKeep \/ SweepFails => UNCHANGED versions
  BY DEF SweepStart, Start, SweepList, SweepKeep, SweepFails
<1> QED
  BY <1>3, <1>4, <1>5, <1>6, <1>7, <1>8, <1>9 DEF Next, Sweep

\* A row without a lock, or whose retention had ended, does not forbid its removal.
LEMMA NotForbidden ==
  ASSUME NEW row \in Rows, NEW t \in Nat, NEW u \in Nat, u <= t
  PROVE  /\ Unlocked(row) => ~ ForbidsDelete(row, t)
         /\ ~ ForbidsDelete(row, u) => ~ ForbidsDelete(row, t)
<1>1. row.until \in Nat
  BY VersionsAssumption DEF Rows, Dates
<1> QED
  BY <1>1 DEF Unlocked, ForbidsDelete

\* No request and no lifecycle rule removes a version under retention or legal hold,
\* but for one that had checked it before the lock was set.
THEOREM LockIsEnforced == Spec => LockedVersionKept
<1> DEFINE Kept == \A id \in Uuids : Locked(id) /\ versions'[id] = Absent => Overtaken(id)
<1>1. ASSUME VersionsInv, Next
      PROVE  Kept
  <2> SUFFICES ASSUME NEW id \in Uuids, Locked(id), versions'[id] = Absent, ~ Overtaken(id)
               PROVE  FALSE
    OBVIOUS
  <2>1. versions[id] # Absent /\ ForbidsDelete(versions[id], clock)
    BY DEF Locked
  <2>2. versions[id] \in Rows /\ clock \in Nat /\ id \in Ids
    BY <1>1, <2>1, RowTypes DEF VersionsInv
  <2>3. ~ Unlocked(versions[id])
    BY <2>1, <2>2, NotForbidden
  <2>4. ~ IsUpload(versions[id])
    BY <1>1, <2>2, <2>3 DEF VersionsInv, UploadsOK
  <2>5. ASSUME NEW c \in Clients, Deletes(work[c]), work[c].id = id, work'[c] # work[c]
        PROVE  FALSE
    <3>1. work[c].read = versions[id]
      BY <1>1, <2>5, RowTypes DEF Overtaken, VersionsInv
    <3>2. ~ ForbidsDelete(work[c].read, clock)
      BY <1>1, <2>1, <2>5, <3>1 DEF VersionsInv, WorkersOK, ClientOK
    <3> QED
      BY <2>1, <3>1, <3>2
  <2>6. ASSUME work[Sweeper].pc = "evaluate", work'[Sweeper] # work[Sweeper],
               ~ Protected(work[Sweeper].snap[id])
        PROVE  FALSE
    <3> DEFINE s == work[Sweeper]
    <3>1. /\ s \in Work /\ SweeperOK(s, clock) /\ s.now \in Nat /\ s.now <= clock
          /\ s.snap \in [Ids -> Rows \cup {Absent}]
      BY <1>1, <2>6, RowTypes DEF VersionsInv, WorkersOK, SweeperOK, Work, Times
    <3>2. s.snap # Absent
      BY <3>1, VersionsAssumption
    <3>3. s.snap[id] = versions[id]
      BY <1>1, <2>6, <3>2, RowTypes DEF Overtaken, VersionsInv
    <3>4. versions[id].state = "Committed"
      BY <2>1, <2>2, <2>4 DEF IsUpload, Rows
    <3>5. ~ ForbidsDelete(versions[id], s.now)
      BY <2>6, <3>3, <3>4 DEF Protected
    <3> QED
      BY <2>1, <2>2, <3>1, <3>5, NotForbidden
  <2> QED
    BY <1>1, <2>1, <2>4, <2>5, <2>6, RowStep DEF RowChange, RowKept, RowMade, UploadEnded, Swept,
       DeletedBy, LockedBy
<1>2. ASSUME VersionsInv, [Next]_vars
      PROVE  [Kept]_vars
  BY <1>1, <1>2
<1> QED
  BY <1>2, VersionsInvariant, PTL DEF Spec, LockedVersionKept

\* A lock is only strengthened, but by a request that read it before another one
\* changed it: a retention never ends earlier, and a retention request never lifts a
\* legal hold.
THEOREM LocksOnlyGrow == Spec => LockOnlyStrengthened
<1> DEFINE Grows ==
      \A id \in Uuids :
        versions[id] # Absent /\ versions'[id] # Absent /\ ~ Overtaken(id)
          => /\ versions'[id].until >= versions[id].until
             /\ \/ ~ versions[id].hold
                \/ versions'[id].hold
                \/ \E c \in Clients : work[c].op = "legalHold" /\ work'[c] # work[c]
<1>1. ASSUME VersionsInv, Next
      PROVE  Grows
  <2> SUFFICES ASSUME NEW id \in Uuids, versions[id] # Absent, versions'[id] # Absent,
                      ~ Overtaken(id)
               PROVE  /\ versions'[id].until >= versions[id].until
                      /\ \/ ~ versions[id].hold
                         \/ versions'[id].hold
                         \/ \E c \in Clients : work[c].op = "legalHold" /\ work'[c] # work[c]
    OBVIOUS
  <2>1. CASE versions'[id] = versions[id]
    <3>1. versions[id].until \in Nat /\ versions[id].hold \in BOOLEAN
      BY <1>1, RowTypes, VersionsAssumption DEF VersionsInv, Rows, Dates
    <3> QED
      BY <2>1, <3>1
  <2>2. ASSUME NEW c \in Clients, SetsLock(work[c]), work[c].id = id, work'[c] # work[c],
               versions'[id].until = work[c].lock.until,
               versions'[id].hold = work[c].lock.hold
        PROVE  /\ versions'[id].until >= versions[id].until
               /\ \/ ~ versions[id].hold
                  \/ versions'[id].hold
                  \/ \E d \in Clients : work[d].op = "legalHold" /\ work'[d] # work[d]
    <3>1. work[c].read = versions[id]
      BY <1>1, <2>2, RowTypes DEF Overtaken, VersionsInv
    <3>2. /\ work[c].lock.until >= work[c].read.until
          /\ work[c].op = "retention" => work[c].lock.hold = work[c].read.hold
          /\ work[c].op \in {"retention", "legalHold"}
      BY <1>1, <2>2 DEF VersionsInv, WorkersOK, ClientOK, SetsLock
    <3> QED
      BY <2>2, <3>1, <3>2
  <2> QED
    BY <1>1, <2>1, <2>2, RowStep DEF RowChange, RowKept, RowMade, UploadEnded, Swept, DeletedBy,
       LockedBy
<1>2. ASSUME VersionsInv, [Next]_vars
      PROVE  [Grows]_vars
  BY <1>1, <1>2
<1> QED
  BY <1>2, VersionsInvariant, PTL DEF Spec, LockOnlyStrengthened

------------------------------------------------------------------------------
(* Buckets that were never versioned.                                      *)

\* What a request of such a bucket remembers: puts, copies and deletes go to "null", and
\* only an upload goes elsewhere.
UnversionedClient(r) ==
  /\ r.op \in {"put", "copy"}
       => r.cfg.versioning = "Off" /\ (r.pc = "commit" => r.id = NullVersion)
  /\ r.op = "delete" => r.id = NullVersion
  /\ r.op = "create" => IsUpload(r.row)

UnversionedSweeper(r) == r.pc # "idle" => r.cfg.versioning = "Off"

\* Versioning that was turned on is never off again, so that nobody in a bucket whose
\* versioning is Off has ever read another state of it: under uuids are uploads only.
UnversionedInv ==
  bucket.versioning = "Off" =>
    /\ \A id \in Uuids : versions[id] = Absent \/ IsUpload(versions[id])
    /\ \A c \in Clients : UnversionedClient(work[c])
    /\ UnversionedSweeper(work[Sweeper])

\* A request begins with what the bucket says.
LEMMA UnversionedRequest ==
  ASSUME VersionsInv, bucket.versioning = "Off", NEW c \in Clients, Request(c)
  PROVE  /\ UNCHANGED <<bucket, versions>>
         /\ \E r : work' = [work EXCEPT ![c] = r] /\ UnversionedClient(r)
<1>1. Idle \in Work /\ bucket \in BucketConfigs /\ clock \in Times /\ NullVersion \in Ids
  BY IdleFacts, RowTypes DEF VersionsInv, TypeOK
<1>2. CASE BeginPut(c)
  <2>1. PICK h \in PutHeaders :
          Begin(c, [Idle EXCEPT !.op = "put", !.cfg = bucket, !.lock = h.lock,
                                !.cond = h.cond,
                                !.pc = IF h.cond = "none" THEN "body" ELSE "check"])
    BY <1>2 DEF BeginPut
  <2> DEFINE p == IF h.cond = "none" THEN "body" ELSE "check"
             r == [Idle EXCEPT !.op = "put", !.cfg = bucket, !.lock = h.lock,
                               !.cond = h.cond, !.pc = p]
  <2>2. h.lock \in Locks \cup {Never} /\ h.cond \in Conditions /\ p \in {"body", "check"}
    BY VersionsAssumption
  <2>3. Begin(c, r)
    BY <2>1
  <2> HIDE DEF p
  <2>4. r \in Work /\ r.op = "put" /\ r.pc = p /\ r.cfg = bucket
    BY <1>1, <2>2 DEF Work, Requests
  <2> HIDE DEF r
  <2> QED
    BY <2>2, <2>3, <2>4 DEF UnversionedClient, Begin, Start
<1>3. CASE BeginCopy(c)
  <2> DEFINE r == [Idle EXCEPT !.op = "copy", !.pc = "body", !.cfg = bucket, !.lock = NoLock]
  <2>1. NoLock \in Locks
    BY VersionsAssumption DEF NoLock, Locks, Dates
  <2>2. r \in Work /\ r.op = "copy" /\ r.pc = "body" /\ r.cfg = bucket
    BY <1>1, <2>1 DEF Work, Requests
  <2>3. Begin(c, r)
    BY <1>3 DEF BeginCopy
  <2> HIDE DEF r
  <2> QED
    BY <2>2, <2>3 DEF UnversionedClient, Begin, Start
<1>4. CASE BeginDelete(c)
  <2> DEFINE r == [Idle EXCEPT !.op = "delete", !.pc = "check", !.id = NullVersion]
  <2>1. r \in Work /\ r.op = "delete" /\ r.id = NullVersion
    BY <1>1 DEF Work, Requests
  <2>2. Begin(c, r)
    BY <1>4 DEF BeginDelete
  <2> HIDE DEF r
  <2> QED
    BY <2>1, <2>2 DEF UnversionedClient, Begin, Start
<1>5. CASE BeginDeleteVersion(c)
  <2>1. PICK id \in Ids :
          Begin(c, [Idle EXCEPT !.op = "deleteVersion", !.pc = "check", !.id = id])
    BY <1>5 DEF BeginDeleteVersion
  <2> DEFINE r == [Idle EXCEPT !.op = "deleteVersion", !.pc = "check", !.id = id]
  <2>2. r \in Work /\ r.op = "deleteVersion"
    BY <1>1 DEF Work, Requests
  <2> HIDE DEF r
  <2> QED
    BY <2>1, <2>2 DEF r, UnversionedClient, Begin, Start
<1>6. CASE BeginCreate(c)
  <2>1. PICK id \in Uuids \ used :
          Begin(c, [Idle EXCEPT !.op = "create", !.pc = "commit", !.id = id,
                                !.row = Upload(clock)])
    BY <1>6 DEF BeginCreate
  <2> DEFINE row == Upload(clock)
             r == [Idle EXCEPT !.op = "create", !.pc = "commit", !.id = id, !.row = row]
  <2>2. row \in Rows /\ IsUpload(row)
    <3>1. NoLock \in Locks
      BY VersionsAssumption DEF NoLock, Locks, Dates
    <3> QED
      BY <1>1, <3>1, NewRows, VersionsAssumption DEF IsUpload
  <2>3. Begin(c, r)
    BY <2>1
  <2> HIDE DEF row
  <2>4. r \in Work /\ r.op = "create" /\ r.row = row
    BY <1>1, <2>2, RowTypes DEF Work, Requests, VersionsInv
  <2> HIDE DEF r
  <2> QED
    BY <2>2, <2>3, <2>4 DEF UnversionedClient, Begin, Start
<1>7. CASE BeginComplete(c) \/ BeginAbort(c) \/ BeginRetention(c) \/ BeginLegalHold(c)
  <2>1. \E r : Begin(c, r) /\ r.op \in {"complete", "abort", "retention", "legalHold"}
    <3>1. CASE BeginComplete(c)
      <4> DEFINE r(id, row) == [Idle EXCEPT !.op = "complete", !.pc = "commit", !.id = id, !.row = row]
      <4>1. \E id, row : Begin(c, r(id, row))
        BY <3>1 DEF BeginComplete
      <4>2. \A id, row : r(id, row).op = "complete"
        BY DEF Idle
      <4> HIDE DEF r
      <4> QED
        BY <4>1, <4>2
    <3>2. CASE BeginAbort(c)
      <4> DEFINE r(id, read) == [Idle EXCEPT !.op = "abort", !.pc = "commit", !.id = id, !.read = read]
      <4>1. \E id, read : Begin(c, r(id, read))
        BY <3>2 DEF BeginAbort
      <4>2. \A id, read : r(id, read).op = "abort"
        BY DEF Idle
      <4> HIDE DEF r
      <4> QED
        BY <4>1, <4>2
    <3>3. CASE BeginRetention(c)
      <4> DEFINE r(id, read, lock) == [Idle EXCEPT !.op = "retention", !.pc = "commit", !.id = id,
                                                   !.read = read, !.lock = lock]
      <4>1. \E id, read, lock : Begin(c, r(id, read, lock))
        BY <3>3 DEF BeginRetention
      <4>2. \A id, read, lock : r(id, read, lock).op = "retention"
        BY DEF Idle
      <4> HIDE DEF r
      <4> QED
        BY <4>1, <4>2
    <3>4. CASE BeginLegalHold(c)
      <4> DEFINE r(id, read, lock) == [Idle EXCEPT !.op = "legalHold", !.pc = "commit", !.id = id,
                                                   !.read = read, !.lock = lock]
      <4>1. \E id, read, lock : Begin(c, r(id, read, lock))
        BY <3>4 DEF BeginLegalHold
      <4>2. \A id, read, lock : r(id, read, lock).op = "legalHold"
        BY DEF Idle
      <4> HIDE DEF r
      <4> QED
        BY <4>1, <4>2
    <3> QED
      BY <1>7, <3>1, <3>2, <3>3, <3>4
  <2> QED
    BY <2>1 DEF UnversionedClient, Begin, Start
<1> QED
  BY <1>2, <1>3, <1>4, <1>5, <1>6, <1>7 DEF Request

\* What a request goes on to, and the rows it leaves.
LEMMA UnversionedContinue ==
  ASSUME VersionsInv, UnversionedInv, bucket.versioning = "Off", NEW c \in Clients, Continue(c)
  PROVE  /\ UNCHANGED bucket
         /\ \A id \in Uuids : versions'[id] = Absent \/ IsUpload(versions'[id])
         /\ \E r : work' = [work EXCEPT ![c] = r] /\ UnversionedClient(r)
<1> DEFINE Rest == \A id \in Uuids : versions'[id] = Absent \/ IsUpload(versions'[id])
           Goes(r) == work' = [work EXCEPT ![c] = r] /\ UnversionedClient(r)
<1>1. /\ \A id \in Uuids : versions[id] = Absent \/ IsUpload(versions[id])
      /\ UnversionedClient(work[c]) /\ work[c] \in Work /\ c \in Workers
      /\ work \in [Workers -> Work] /\ ClientOK(work[c], clock)
      /\ versions \in [Ids -> Rows \cup {Absent}] /\ NullVersion \in Ids
      /\ NullVersion \notin Uuids /\ Uuids \subseteq Ids
  BY RowTypes DEF VersionsInv, UnversionedInv, TypeOK, WorkersOK
<1>2. UnversionedClient(Idle)
  BY DEF Idle, UnversionedClient
<1>3. CASE CheckPut(c) \/ CheckDelete(c)
  <2>1. UNCHANGED <<bucket, versions>>
    BY <1>3 DEF CheckPut, CheckDelete
  <2>2. ASSUME NEW p \in {"body", "commit"}, NEW row \in Rows \cup {Absent},
               work[c].op \in {"put", "delete", "deleteVersion"},
               work[c].op = "put" => p = "body"
        PROVE  UnversionedClient([work[c] EXCEPT !.pc = p, !.read = row])
    <3> DEFINE r == [work[c] EXCEPT !.pc = p, !.read = row]
    <3>1. r.op = work[c].op /\ r.pc = p /\ r.cfg = work[c].cfg /\ r.id = work[c].id
      BY <1>1 DEF Work
    <3> HIDE DEF r
    <3> QED
      BY <1>1, <2>2, <3>1 DEF r, UnversionedClient
  <2>3. CASE CheckPut(c)
    <3>1. versions[NullVersion] \in Rows \cup {Absent}
      BY <1>1
    <3> QED
      BY <1>1, <1>2, <2>1, <2>2, <2>3, <3>1 DEF CheckPut
  <2>4. CASE CheckDelete(c)
    <3>1. versions[work[c].id] \in Rows \cup {Absent}
      BY <1>1, <2>4 DEF CheckDelete, ClientOK
    <3> QED
      BY <1>1, <1>2, <2>1, <2>2, <2>4, <3>1 DEF CheckDelete
  <2> QED
    BY <1>3, <2>3, <2>4
<1>4. CASE Body(c)
  <2>1. UNCHANGED <<bucket, versions>> /\ work[c].op \in {"put", "copy"}
    BY <1>1, <1>4 DEF Body, ClientOK
  <2>2. NewIds(work[c].cfg) = {NullVersion}
    BY <1>1, <2>1 DEF NewIds, UnversionedClient
  <2>3. PICK row : work' = [work EXCEPT ![c].pc = "commit", ![c].id = NullVersion, ![c].row = row]
    BY <1>4, <2>2 DEF Body
  <2> DEFINE r == [work[c] EXCEPT !.pc = "commit", !.id = NullVersion, !.row = row]
  <2>4. work' = [work EXCEPT ![c] = r]
    BY <1>1, <2>3
  <2>5. r.op = work[c].op /\ r.id = NullVersion /\ r.cfg = work[c].cfg
    BY <1>1 DEF Work
  <2> HIDE DEF r
  <2>6. UnversionedClient(r)
    BY <1>1, <2>1, <2>5 DEF UnversionedClient
  <2> QED
    BY <1>1, <2>1, <2>4, <2>6
<1>5. CASE CommitWrite(c) \/ CommitDelete(c) \/ CommitComplete(c) \/ CommitLock(c)
  <2>1. UNCHANGED bucket /\ work' = [work EXCEPT ![c] = Idle]
    BY <1>5 DEF CommitWrite, CommitDelete, CommitComplete, CommitLock, Finish
  <2>2. CASE CommitWrite(c)
    <3>1. versions' = [versions EXCEPT ![work[c].id] = work[c].row]
      BY <2>2 DEF CommitWrite, Finish
    <3>2. work[c].id \in Uuids => IsUpload(work[c].row)
      BY <1>1, <2>2 DEF CommitWrite, UnversionedClient
    <3>3. Rest
      BY <1>1, <3>1, <3>2
    <3> QED
      BY <1>2, <2>1, <3>3
  <2>3. CASE CommitDelete(c)
    <3>1. versions' = [versions EXCEPT ![work[c].id] = Absent]
      BY <2>3 DEF CommitDelete, Finish
    <3> QED
      BY <1>1, <1>2, <2>1, <3>1
  <2>4. CASE CommitComplete(c)
    <3>1. \/ versions' = versions
          \/ versions' = [versions EXCEPT ![NullVersion] = work[c].row, ![work[c].id] = Absent]
      BY <2>4 DEF CommitComplete, Finish
    <3>2. Rest
      BY <1>1, <3>1
    <3> QED
      BY <1>2, <2>1, <3>2
  <2>5. CASE CommitLock(c)
    <3>1. SetsLock(work[c])
      BY <2>5 DEF CommitLock, SetsLock
    <3>2. work[c].id \in Ids /\ ~ IsUpload(versions[work[c].id])
      BY <1>1, <3>1 DEF VersionsInv, UploadsOK, ClientOK
    <3>3. CASE versions[work[c].id] = Absent
      BY <1>1, <1>2, <2>1, <2>5, <3>3 DEF CommitLock, Finish
    <3>4. CASE versions[work[c].id] # Absent
      <4>1. versions' = Relocked(c)
        BY <2>5, <3>4 DEF CommitLock, Relocked, Finish
      <4>2. \A k \in Ids : k # work[c].id => versions'[k] = versions[k]
        BY <3>1, <3>4, <4>1, LockedRow
      <4>3. Rest
        BY <1>1, <3>2, <3>4, <4>2
      <4> QED
        BY <1>2, <2>1, <4>3
    <3> QED
      BY <3>3, <3>4
  <2> QED
    BY <1>5, <2>2, <2>3, <2>4, <2>5
<1> QED
  BY <1>3, <1>4, <1>5 DEF Continue

\* The sweeper deletes the current version itself and writes no delete marker.
LEMMA UnversionedSweep ==
  ASSUME VersionsInv, UnversionedInv, bucket.versioning = "Off", Sweep
  PROVE  /\ UNCHANGED bucket
         /\ \A id \in Uuids : versions'[id] = Absent \/ IsUpload(versions'[id])
         /\ \E r : work' = [work EXCEPT ![Sweeper] = r] /\ UnversionedSweeper(r)
<1>1. /\ \A id \in Uuids : versions[id] = Absent \/ IsUpload(versions[id])
      /\ UnversionedSweeper(work[Sweeper]) /\ work[Sweeper] \in Work
      /\ versions \in [Ids -> Rows \cup {Absent}] /\ Uuids \subseteq Ids
  BY RowTypes DEF VersionsInv, UnversionedInv, TypeOK
<1>2. UnversionedSweeper(Idle)
  BY IdleFacts DEF UnversionedSweeper
<1>3. CASE SweepStart
  <2> DEFINE r == [Idle EXCEPT !.op = "sweep", !.pc = "list", !.cfg = bucket, !.now = clock]
  <2>1. work' = [work EXCEPT ![Sweeper] = r] /\ UNCHANGED <<bucket, versions>>
    BY <1>3 DEF SweepStart, Start
  <2>2. r.cfg = bucket
    BY DEF Idle
  <2> QED
    BY <1>1, <2>1, <2>2 DEF UnversionedSweeper
<1>4. CASE SweepList
  <2> DEFINE rows == {id \in Ids : versions[id] # Absent}
             r == [work[Sweeper] EXCEPT !.pc = "evaluate", !.snap = versions, !.todo = rows]
  <2>1. /\ work' = [work EXCEPT ![Sweeper] = IF rows = {} THEN Idle ELSE r]
        /\ UNCHANGED <<bucket, versions>> /\ work[Sweeper].pc = "list"
    BY <1>4 DEF SweepList
  <2> HIDE DEF rows
  <2>2. r.cfg = work[Sweeper].cfg
    BY <1>1 DEF Work
  <2> HIDE DEF r
  <2> QED
    BY <1>1, <1>2, <2>1, <2>2 DEF UnversionedSweeper
<1>5. ASSUME Evaluated, work[Sweeper].pc = "evaluate"
      PROVE  \E r : work' = [work EXCEPT ![Sweeper] = r] /\ UnversionedSweeper(r)
  <2> DEFINE rest == work[Sweeper].todo \ {NextUp}
             r == [work[Sweeper] EXCEPT !.todo = rest]
  <2>1. \/ work' = [work EXCEPT ![Sweeper] = Idle]
        \/ work' = [work EXCEPT ![Sweeper] = r]
    BY <1>5 DEF Evaluated
  <2> HIDE DEF rest
  <2>2. r.cfg = work[Sweeper].cfg /\ r.pc = work[Sweeper].pc
    BY <1>1 DEF Work
  <2> HIDE DEF r
  <2> QED
    BY <1>1, <1>2, <2>1, <2>2 DEF UnversionedSweeper
<1>6. CASE SweepKeep \/ SweepDelete \/ SweepFails
  <2>1. UNCHANGED bucket /\ work[Sweeper].pc = "evaluate"
    BY <1>6 DEF SweepKeep, SweepDelete, SweepFails
  <2>2. versions' = versions \/ versions' = [versions EXCEPT ![NextUp] = Absent]
    BY <1>6 DEF SweepKeep, SweepDelete, SweepFails
  <2>3. Evaluated \/ work' = [work EXCEPT ![Sweeper] = Idle]
    BY <1>6 DEF SweepKeep, SweepDelete, SweepFails
  <2> QED
    BY <1>1, <1>2, <1>5, <2>1, <2>2, <2>3
<1>7. CASE SweepExpire
  <2>1. work[Sweeper].pc = "evaluate" /\ Verdict(NextUp) = "expire"
    BY <1>7 DEF SweepExpire
  <2>2. work[Sweeper].cfg.versioning = "Off"
    BY <1>1, <2>1 DEF UnversionedSweeper
  <2> QED
    BY <2>1, <2>2 DEF Verdict
<1> QED
  BY <1>3, <1>4, <1>6, <1>7 DEF Sweep

\* No step takes a bucket that was never versioned out of the invariant.
LEMMA UnversionedStep ==
  ASSUME VersionsInv, UnversionedInv, [Next]_vars
  PROVE  UnversionedInv'
<1>1. /\ work \in [Workers -> Work] /\ Clients \subseteq Workers /\ Sweeper \in Workers
      /\ Sweeper \notin Clients /\ bucket \in BucketConfigs
  BY RowTypes DEF VersionsInv, TypeOK
<1>2. CASE UNCHANGED vars
  BY <1>2 DEF vars, UnversionedInv
<1>3. CASE PutVersioning
  <2>1. bucket'.versioning # "Off"
    BY <1>1, <1>3 DEF PutVersioning, Configure, BucketConfigs
  <2> QED
    BY <2>1 DEF UnversionedInv
<1>4. CASE PutLockConfig \/ PutLifecycle \/ Tick
  <2>1. bucket'.versioning = bucket.versioning /\ UNCHANGED <<versions, work>>
    BY <1>1, <1>4 DEF PutLockConfig, PutLifecycle, Tick, Configure, BucketConfigs
  <2> QED
    BY <2>1 DEF UnversionedInv
<1>5. ASSUME NEW c \in Clients, Request(c) \/ Continue(c)
      PROVE  UnversionedInv'
  <2>1. UNCHANGED bucket
    BY <1>5 DEF Request, BeginPut, BeginCopy, BeginDelete, BeginDeleteVersion, BeginCreate,
       BeginComplete, BeginAbort, BeginRetention, BeginLegalHold, Begin, Start, Continue,
       CheckPut, CheckDelete, Body, CommitWrite, CommitDelete, CommitComplete, CommitLock, Finish
  <2> SUFFICES ASSUME bucket.versioning = "Off"
               PROVE  UnversionedInv'
    BY <2>1 DEF UnversionedInv
  <2>2. \A id \in Uuids : versions'[id] = Absent \/ IsUpload(versions'[id])
    BY <1>5, UnversionedRequest, UnversionedContinue DEF UnversionedInv
  <2>3. PICK r : work' = [work EXCEPT ![c] = r] /\ UnversionedClient(r)
    BY <1>5, UnversionedRequest, UnversionedContinue
  <2>4. /\ \A d \in Clients : work'[d] = r \/ work'[d] = work[d]
        /\ work'[Sweeper] = work[Sweeper]
    BY <1>1, <2>3
  <2> QED
    BY <2>2, <2>3, <2>4 DEF UnversionedInv
<1>6. CASE Sweep
  <2>1. UNCHANGED bucket
    BY <1>6 DEF Sweep, SweepStart, Start, SweepList, SweepKeep, SweepDelete, SweepFails, SweepExpire
  <2> SUFFICES ASSUME bucket.versioning = "Off"
               PROVE  UnversionedInv'
    BY <2>1 DEF UnversionedInv
  <2>2. \A id \in Uuids : versions'[id] = Absent \/ IsUpload(versions'[id])
    BY <1>6, UnversionedSweep
  <2>3. PICK r : work' = [work EXCEPT ![Sweeper] = r] /\ UnversionedSweeper(r)
    BY <1>6, UnversionedSweep
  <2>4. work'[Sweeper] = r /\ \A d \in Clients : work'[d] = work[d]
    BY <1>1, <2>3
  <2> QED
    BY <2>2, <2>3, <2>4 DEF UnversionedInv
<1> QED
  BY <1>2, <1>3, <1>4, <1>5, <1>6 DEF Next

LEMMA UnversionedInvariant == Spec => []UnversionedInv
<1>1. Init => UnversionedInv
  <2> SUFFICES ASSUME Init
               PROVE  UnversionedInv
    OBVIOUS
  <2>1. /\ \A id \in Ids : versions[id] = Absent
        /\ \A w \in Workers : work[w] = Idle
    BY DEF Init
  <2>2. UnversionedClient(Idle) /\ UnversionedSweeper(Idle)
    BY DEF Idle, UnversionedClient, UnversionedSweeper
  <2> QED
    BY <2>1, <2>2 DEF UnversionedInv, Ids, Workers
<1>2. VersionsInv /\ UnversionedInv /\ [Next]_vars => UnversionedInv'
  BY UnversionedStep
<1> QED
  BY <1>1, <1>2, VersionsInvariant, PTL DEF Spec

\* A bucket that was never versioned has no current version with a uuid.
LEMMA UnversionedCurrent ==
  ASSUME VersionsInv, UnversionedInv, bucket.versioning = "Off"
  PROVE  Current(versions) \notin Uuids
<1> DEFINE committed == {i \in Ids : versions[i] # Absent /\ versions[i].state = "Committed"}
<1>1. /\ versions \in [Ids -> Rows \cup {Absent}] /\ NullVersion \notin Uuids /\ Absent \notin Ids
      /\ \A id \in Uuids : versions[id] = Absent \/ versions[id].state = "InProgress"
  BY RowTypes, VersionsAssumption DEF VersionsInv, UnversionedInv, TypeOK, IsUpload, Ids
<1>2. \A i \in committed : i \notin Uuids
  BY <1>1
<1>3. Current(versions) \in committed \cup {Absent}
  BY <1>1, FirstIsListed DEF Current
<1> QED
  BY <1>1, <1>2, <1>3 DEF Ids

\* Where the current version is no uuid, the "null" row tells whether there is one.
LEMMA CurrentIsNull ==
  ASSUME VersionsInv, Current(versions) \notin Uuids
  PROVE  CurrentIsObject <=> IsObject(versions[NullVersion])
<1> DEFINE committed == {i \in Ids : versions[i] # Absent /\ versions[i].state = "Committed"}
<1>1. versions \in [Ids -> Rows \cup {Absent}] /\ NullVersion \in Ids
  BY RowTypes DEF VersionsInv, TypeOK
<1>2. committed # {} => Current(versions) \in committed
  BY <1>1, FirstIsListed DEF Current
<1>3. ASSUME CurrentIsObject
      PROVE  IsObject(versions[NullVersion])
  <2>1. PICK id \in Ids : id = Current(versions) /\ IsObject(versions[id])
    BY <1>3 DEF CurrentIsObject
  <2> QED
    BY <2>1 DEF Ids
<1>4. ASSUME IsObject(versions[NullVersion])
      PROVE  CurrentIsObject
  <2>1. NullVersion \in committed
    BY <1>1, <1>4 DEF IsObject
  <2>2. Current(versions) = NullVersion
    BY <1>2, <2>1 DEF Ids
  <2> QED
    BY <1>1, <1>4, <2>2 DEF CurrentIsObject
<1> QED
  BY <1>3, <1>4

\* If-None-Match never replaces the current object and If-Match never creates one,
\* unless the "null" row changed while the body was stored or the current version of a
\* bucket that has been versioned has a uuid.
THEOREM ConditionsHold == Spec => PreconditionHolds
<1> DEFINE Holds ==
      \A c \in Clients :
        /\ work[c].op = "put" /\ work[c].pc = "commit" /\ work'[c].pc = "idle"
        /\ work[c].cond = IF CurrentIsObject THEN "ifNoneMatch" ELSE "ifMatch"
        => \/ work[c].read # versions[NullVersion]
           \/ bucket.versioning # "Off" /\ Current(versions) \in Uuids
<1>1. ASSUME VersionsInv, UnversionedInv
      PROVE  Holds
  <2> SUFFICES ASSUME NEW c \in Clients, work[c].op = "put", work[c].pc = "commit",
                      work[c].cond = IF CurrentIsObject THEN "ifNoneMatch" ELSE "ifMatch",
                      work[c].read = versions[NullVersion],
                      Current(versions) \notin Uuids
               PROVE  FALSE
    BY <1>1, UnversionedCurrent
  <2>1. ~ PreconditionFails(work[c].cond, work[c].read)
    BY <1>1 DEF VersionsInv, WorkersOK, ClientOK
  <2> QED
    BY <1>1, <2>1, CurrentIsNull DEF PreconditionFails
<1>2. ASSUME VersionsInv, UnversionedInv, [Next]_vars
      PROVE  [Holds]_vars
  BY <1>1, <1>2
<1> QED
  BY <1>2, VersionsInvariant, UnversionedInvariant, PTL DEF Spec, PreconditionHolds

==============================================================================
