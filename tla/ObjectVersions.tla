--------------------------- MODULE ObjectVersions ---------------------------
(***************************************************************************)
(* The versions of one key: versioning, object lock, conditional writes    *)
(* and the lifecycle rules of its bucket (src/src/s3/object.rs, lock.rs,   *)
(* multipart.rs, copy.rs, bucket.rs and maintenance.rs).                   *)
(*                                                                         *)
(* A handler decides on what it reads in one operation of the metadata     *)
(* actor and acts in a later one; every worker has a program counter, and  *)
(* a step is one awaited operation together with the code up to the next:  *)
(*                                                                         *)
(*   check     the manifest to be checked is still to be read              *)
(*   body      the body or the source of a copy is still to be read        *)
(*   commit    the transaction is still to be sent                         *)
(*   list      the sweeper has the bucket, the manifests are still to come *)
(*   evaluate  the sweeper goes through its list of manifests              *)
(*                                                                         *)
(* Time is a clock in units of a day.  The parts of the objects are left   *)
(* out: ObjectStore has them.                                              *)
(***************************************************************************)
EXTENDS Integers, FiniteSets

CONSTANTS
  Uuids,        \* ids of versions and uploads, numbers in their byte order
  NullVersion,  \* the id "null", which sorts after every uuid
  Clients,      \* concurrent requests
  Sweeper,      \* the maintenance task
  Periods,      \* numbers of days used in rules and default retentions
  Workload,     \* the kinds of request that clients send in this instance
  MaxInFlight,  \* bound: workers active at a time
  MaxRequests,  \* bound: requests that clients send
  MaxTime,      \* bound: the clock
  MaxDate,      \* bound: dates of a retention
  PutHeaders,   \* lock headers (Never for none) and preconditions of puts
  Configurations,  \* configurations that the bucket is given
  Absent,       \* no row; nothing read
  Never         \* no such rule; no default retention

Requests == {"put", "copy", "delete", "deleteVersion", "create", "complete",
             "abort", "retention", "legalHold", "versioning", "lockConfig",
             "lifecycle"}

VARIABLES
  bucket,    \* the bucket's configuration
  versions,  \* the key's rows of the OBJECTS table, by version id
  used,      \* uuids handed out so far
  clock,     \* the wall clock
  sent,      \* requests so far, for the bound
  work       \* what each worker is doing

vars == <<bucket, versions, used, clock, sent, work>>

Ids == Uuids \cup {NullVersion}

Workers == Clients \cup {Sweeper}

Times == 0..MaxTime

Dates == 0..MaxDate

\* Manifest, as far as this module looks at it.  until is the date of the
\* retention, 0 for none; hold the legal hold.
Rows == [state : {"InProgress", "Committed"},
         kind : {"Object", "Tombstone"},
         until : Dates,
         hold : BOOLEAN,
         created_at : Times,
         last_modified : Times]

Options == Periods \cup {Never}

\* BucketConfig.  For each action of the rules that are enabled and match the
\* key, the least number of days: evaluate_manifest takes the action as soon as
\* one of the rules is due.
BucketConfigs == [versioning : {"Off", "Enabled", "Suspended"},
                  enabled : BOOLEAN,
                  default_retention : Options,
                  expiration : Options,
                  noncurrent : Options,
                  abort : Options]

Locks == [until : Dates, hold : BOOLEAN]

NoLock == [until |-> 0, hold |-> FALSE]

Conditions == {"none", "ifMatch", "ifNoneMatch"}

ASSUME VersionsAssumption ==
  /\ Uuids \subseteq Nat
  /\ NullVersion \in Nat /\ \A id \in Uuids : id < NullVersion
  /\ Sweeper \notin Clients
  /\ Periods \subseteq Nat
  /\ Workload \subseteq Requests
  /\ Configurations \subseteq
       {cfg \in BucketConfigs : cfg.enabled => cfg.versioning # "Off"}
  /\ PutHeaders \subseteq [lock : Locks \cup {Never}, cond : Conditions]
  /\ \A p \in Periods : MaxTime + p <= MaxDate
  /\ MaxInFlight \in Nat /\ MaxRequests \in Nat /\ MaxTime \in Nat /\ MaxDate \in Nat
  /\ Absent \notin Ids /\ Absent \notin Rows /\ Absent \notin [Ids -> Rows \cup {Absent}]

\* cfg: the bucket as read.  id, row: the manifest to be written, or the one to
\* be checked and deleted, of which read is what the check saw.  lock: the lock
\* to be set; Never in a put without lock headers.  cond: the precondition.
\* snap, todo, now: the manifests listed by the sweeper, the ids of those still
\* to be evaluated, and the time of the sweep.
Work == [op : Requests \cup {"none", "sweep"},
         pc : {"idle", "check", "body", "commit", "list", "evaluate"},
         cfg : BucketConfigs \cup {Absent},
         id : Ids \cup {Absent},
         row : Rows \cup {Absent},
         read : Rows \cup {Absent},
         lock : Locks \cup {Never},
         cond : Conditions,
         snap : [Ids -> Rows \cup {Absent}] \cup {Absent},
         todo : SUBSET Ids,
         now : Times]

Idle == [op |-> "none", pc |-> "idle", cfg |-> Absent, id |-> Absent,
         row |-> Absent, read |-> Absent, lock |-> Never, cond |-> "none",
         snap |-> Absent, todo |-> {}, now |-> 0]

------------------------------------------------------------------------------
(* Manifests.                                                              *)

Object(lock, now) ==
  [state |-> "Committed", kind |-> "Object", until |-> lock.until,
   hold |-> lock.hold, created_at |-> now, last_modified |-> now]

Upload(now) == [Object(NoLock, now) EXCEPT !.state = "InProgress"]

Tombstone(now) == [Object(NoLock, now) EXCEPT !.kind = "Tombstone"]

\* The object an upload becomes: it keeps the date of the upload.
Completed(upload, now) ==
  [upload EXCEPT !.state = "Committed", !.last_modified = now]

IsObject(row) ==
  row # Absent /\ row.state = "Committed" /\ row.kind = "Object"

IsUpload(row) == row # Absent /\ row.state = "InProgress"

\* ObjectLock::forbids_delete.
ForbidsDelete(row, now) == row.hold \/ row.until > now

\* Newest first, and among rows of the same time in the order of the ids.
Before(table, i, j) ==
  \/ table[i].last_modified > table[j].last_modified
  \/ table[i].last_modified = table[j].last_modified /\ i <= j

First(table, ids) == CHOOSE i \in ids : \A j \in ids : Before(table, i, j)

\* The version that counts as current, Absent if there is none.
Current(table) ==
  LET committed == {i \in Ids : table[i] # Absent /\ table[i].state = "Committed"}
  IN  IF committed = {} THEN Absent ELSE First(table, committed)

------------------------------------------------------------------------------
(* Requests arrive.  The first step is the first await.                    *)

Active == {w \in Workers : work[w].pc # "idle"}

Start(w, r) ==
  /\ work[w].pc = "idle"
  /\ Cardinality(Active) < MaxInFlight
  /\ work' = [work EXCEPT ![w] = r]
  /\ UNCHANGED <<bucket, versions, clock>>

\* A request of client c.
Begin(c, r) ==
  /\ r.op \in Workload
  /\ sent < MaxRequests
  /\ sent' = sent + 1
  /\ Start(c, r)

\* next_version_id.
NewIds(cfg) ==
  IF cfg.versioning = "Enabled" THEN Uuids \ used ELSE {NullVersion}

Take(id) == used' = used \cup ({id} \ {NullVersion})

\* put_object: the bucket is read, then what the precondition needs.
BeginPut(c) ==
  \E h \in PutHeaders :
    /\ Begin(c, [Idle EXCEPT !.op = "put", !.cfg = bucket, !.lock = h.lock,
                             !.cond = h.cond,
                             !.pc = IF h.cond = "none" THEN "body" ELSE "check"])
    /\ UNCHANGED used

BeginCopy(c) ==
  /\ Begin(c, [Idle EXCEPT !.op = "copy", !.pc = "body", !.cfg = bucket,
                           !.lock = NoLock])
  /\ UNCHANGED used

\* delete_object without a version id: while versioning is Off the row of
\* "null" is checked and deleted, otherwise a delete marker is written.
BeginDelete(c) ==
  IF bucket.versioning = "Off"
  THEN /\ Begin(c, [Idle EXCEPT !.op = "delete", !.pc = "check",
                                !.id = NullVersion])
       /\ UNCHANGED used
  ELSE \E id \in NewIds(bucket) :
         /\ Begin(c, [Idle EXCEPT !.op = "delete", !.pc = "commit", !.id = id,
                                  !.row = Tombstone(clock)])
         /\ Take(id)

BeginDeleteVersion(c) ==
  \E id \in Ids :
    /\ Begin(c, [Idle EXCEPT !.op = "deleteVersion", !.pc = "check", !.id = id])
    /\ UNCHANGED used

BeginCreate(c) ==
  \E id \in Uuids \ used :
    /\ Begin(c, [Idle EXCEPT !.op = "create", !.pc = "commit", !.id = id,
                             !.row = Upload(clock)])
    /\ Take(id)

BeginComplete(c) ==
  \E id \in Ids :
    /\ IsUpload(versions[id])
    /\ Begin(c, [Idle EXCEPT !.op = "complete", !.pc = "commit", !.id = id,
                             !.row = Completed(versions[id], clock)])
    /\ UNCHANGED used

BeginAbort(c) ==
  \E id \in Ids :
    /\ IsUpload(versions[id])
    /\ Begin(c, [Idle EXCEPT !.op = "abort", !.pc = "commit", !.id = id,
                             !.read = versions[id]])
    /\ UNCHANGED used

\* put_object_retention refuses a date before that of the retention it reads.
Extends(row, until) == until >= row.until

\* Mutant of RetentionLock: the legal hold is dropped.
RetentionLockAlone(row, until) == [until |-> until, hold |-> FALSE]

\* The lock with a new retention; the legal hold is written back as it was read.
RetentionLock(row, until) == [until |-> until, hold |-> row.hold]

\* The lock with a new legal hold; the retention is written back as it was read.
LegalHoldLock(row, on) == [until |-> row.until, hold |-> on]

BeginRetention(c) ==
  \E id \in Ids, until \in Dates \ {0} :
    /\ IsObject(versions[id])
    /\ Extends(versions[id], until)
    /\ Begin(c, [Idle EXCEPT !.op = "retention", !.pc = "commit", !.id = id,
                   !.read = versions[id],
                   !.lock = RetentionLock(versions[id], until)])
    /\ UNCHANGED used

BeginLegalHold(c) ==
  \E id \in Ids, on \in BOOLEAN :
    /\ IsObject(versions[id])
    /\ Begin(c, [Idle EXCEPT !.op = "legalHold", !.pc = "commit", !.id = id,
                   !.read = versions[id],
                   !.lock = LegalHoldLock(versions[id], on)])
    /\ UNCHANGED used

------------------------------------------------------------------------------
(* The middle of a handler.                                                *)

\* Mutant of PreconditionFails: If-None-Match is not looked at.
PreconditionFailsIfMatchOnly(cond, row) == cond = "ifMatch" /\ ~ IsObject(row)

\* check_put_preconditions for the header value "*".
PreconditionFails(cond, row) ==
  \/ cond = "ifMatch" /\ ~ IsObject(row)
  \/ cond = "ifNoneMatch" /\ IsObject(row)

\* Reads the "null" version, whatever the bucket's versioning.
CheckPut(c) ==
  /\ work[c].pc = "check" /\ work[c].op = "put"
  /\ work' = [work EXCEPT ![c] =
                IF PreconditionFails(@.cond, versions[NullVersion]) THEN Idle
                ELSE [@ EXCEPT !.pc = "body", !.read = versions[NullVersion]]]
  /\ UNCHANGED <<bucket, versions, used, clock, sent>>

\* Mutant of DeleteForbidden: only the retention is looked at.
DeleteForbiddenByDate(row) == row # Absent /\ row.until > clock

\* The lock checks of delete_object and delete_specific_version.
DeleteForbidden(row) == row # Absent /\ ForbidsDelete(row, clock)

CheckDelete(c) ==
  /\ work[c].pc = "check" /\ work[c].op \in {"delete", "deleteVersion"}
  /\ work' = [work EXCEPT ![c] =
                IF DeleteForbidden(versions[@.id]) THEN Idle
                ELSE [@ EXCEPT !.pc = "commit", !.read = versions[work[c].id]]]
  /\ UNCHANGED <<bucket, versions, used, clock, sent>>

\* Mutant of DefaultLock: days are taken for years.
DefaultLockYears(cfg) ==
  IF cfg.enabled /\ cfg.default_retention # Never
  THEN [until |-> clock + 365 * cfg.default_retention, hold |-> FALSE]
  ELSE NoLock

\* default_lock_for_bucket.
DefaultLock(cfg) ==
  IF cfg.enabled /\ cfg.default_retention # Never
  THEN [until |-> clock + cfg.default_retention, hold |-> FALSE]
  ELSE NoLock

\* Lock headers take precedence over the bucket's default.
LockOf(r) == IF r.lock = Never THEN DefaultLock(r.cfg) ELSE r.lock

\* The body is stored, or the source of the copy found; then the manifest is
\* made.
Body(c) ==
  /\ work[c].pc = "body"
  /\ \E id \in NewIds(work[c].cfg) :
       /\ Take(id)
       /\ work' = [work EXCEPT ![c].pc = "commit", ![c].id = id,
                               ![c].row = Object(LockOf(work[c]), clock)]
  /\ UNCHANGED <<bucket, versions, clock, sent>>

------------------------------------------------------------------------------
(* The transaction of a handler.                                           *)

Finish(c, table) ==
  /\ versions' = table
  /\ work' = [work EXCEPT ![c] = Idle]
  /\ UNCHANGED <<bucket, used, clock, sent>>

\* put_manifest: an object, a delete marker or a new upload, over what is there.
CommitWrite(c) ==
  /\ work[c].pc = "commit"
  /\ work[c].op \in {"put", "copy", "delete", "create"}
  /\ work[c].row # Absent
  /\ Finish(c, [versions EXCEPT ![work[c].id] = work[c].row])

\* delete_manifest; a row that is gone already counts as deleted.
CommitDelete(c) ==
  /\ work[c].pc = "commit"
  /\ work[c].op \in {"delete", "deleteVersion", "abort"}
  /\ work[c].row = Absent
  /\ Finish(c, [versions EXCEPT ![work[c].id] = Absent])

\* complete_multipart_upload goes to the "null" version in any bucket.
CommitComplete(c) ==
  /\ work[c].pc = "commit" /\ work[c].op = "complete"
  /\ Finish(c, IF IsUpload(versions[work[c].id])
               THEN [versions EXCEPT ![NullVersion] = work[c].row,
                                     ![work[c].id] = Absent]
               ELSE versions)

CommitLock(c) ==
  /\ work[c].pc = "commit" /\ work[c].op \in {"retention", "legalHold"}
  /\ Finish(c, IF versions[work[c].id] = Absent THEN versions
               ELSE [versions EXCEPT ![work[c].id].until = work[c].lock.until,
                                     ![work[c].id].hold = work[c].lock.hold])

\* A request on the bucket is one operation that gives it configuration cfg.
Configure(op, cfg) ==
  /\ op \in Workload
  /\ sent < MaxRequests
  /\ sent' = sent + 1
  /\ bucket' = cfg
  /\ UNCHANGED <<versions, used, clock, work>>

PutVersioning ==
  \E v \in {"Enabled", "Suspended"} :
    Configure("versioning", [bucket EXCEPT !.versioning = v])

\* Object lock is enabled when the bucket is created; afterwards only the
\* default retention changes.
PutLockConfig ==
  \E cfg \in Configurations :
    Configure("lockConfig",
              [bucket EXCEPT !.default_retention = cfg.default_retention])

PutLifecycle ==
  \E cfg \in Configurations :
    Configure("lifecycle",
              [bucket EXCEPT !.expiration = cfg.expiration,
                             !.noncurrent = cfg.noncurrent,
                             !.abort = cfg.abort])

------------------------------------------------------------------------------
(* The lifecycle sweep.                                                    *)

\* The buckets are listed; one without an active rule is left alone.
SweepStart ==
  /\ {bucket.expiration, bucket.noncurrent, bucket.abort} # {Never}
  /\ Start(Sweeper, [Idle EXCEPT !.op = "sweep", !.pc = "list", !.cfg = bucket,
                                 !.now = clock])
  /\ UNCHANGED <<used, sent>>

\* list_all_manifests_in_bucket: what follows is decided on this list.
SweepList ==
  LET rows == {id \in Ids : versions[id] # Absent}
  IN  /\ work[Sweeper].pc = "list"
      /\ work' = [work EXCEPT ![Sweeper] =
                    IF rows = {} THEN Idle
                    ELSE [@ EXCEPT !.pc = "evaluate", !.snap = versions,
                                   !.todo = rows]]
      /\ UNCHANGED <<bucket, versions, used, clock, sent>>

\* Mutant of Due: off by one.
DueLate(period, row) ==
  period # Never /\ work[Sweeper].now - row.created_at > period

Due(period, row) ==
  period # Never /\ work[Sweeper].now - row.created_at >= period

\* A lock takes precedence over the rules.
Protected(row) ==
  row.state = "Committed" /\ ForbidsDelete(row, work[Sweeper].now)

\* What evaluate_manifest does with the manifest id of the list: "delete" it,
\* "expire" it as the current version, or "keep" it.
Verdict(id) ==
  LET s == work[Sweeper]
      row == s.snap[id]
      current == id = Current(s.snap)
  IN  IF Protected(row) THEN "keep"
      ELSE IF IsUpload(row) THEN IF Due(s.cfg.abort, row) THEN "delete" ELSE "keep"
      ELSE IF current
      THEN IF row.kind = "Object" /\ Due(s.cfg.expiration, row)
           THEN IF s.cfg.versioning = "Off" THEN "delete" ELSE "expire"
           ELSE "keep"
      ELSE IF Due(s.cfg.noncurrent, row) THEN "delete" ELSE "keep"

\* The manifest to be evaluated next, newest first.
NextUp == First(work[Sweeper].snap, work[Sweeper].todo)

Evaluated ==
  work' = [work EXCEPT ![Sweeper] =
             IF @.todo = {NextUp} THEN Idle
             ELSE [@ EXCEPT !.todo = work[Sweeper].todo \ {NextUp}]]

SweepKeep ==
  /\ work[Sweeper].pc = "evaluate"
  /\ Verdict(NextUp) = "keep"
  /\ Evaluated
  /\ UNCHANGED <<bucket, versions, used, clock, sent>>

SweepDelete ==
  /\ work[Sweeper].pc = "evaluate"
  /\ Verdict(NextUp) = "delete"
  /\ versions[NextUp] # Absent
  /\ versions' = [versions EXCEPT ![NextUp] = Absent]
  /\ Evaluated
  /\ UNCHANGED <<bucket, used, clock, sent>>

\* The manifest is gone by now: the error ends the whole sweep.
SweepFails ==
  /\ work[Sweeper].pc = "evaluate"
  /\ Verdict(NextUp) = "delete"
  /\ versions[NextUp] = Absent
  /\ work' = [work EXCEPT ![Sweeper] = Idle]
  /\ UNCHANGED <<bucket, versions, used, clock, sent>>

\* expire_current with versioning: a delete marker dated at the sweep.
SweepExpire ==
  /\ work[Sweeper].pc = "evaluate"
  /\ Verdict(NextUp) = "expire"
  /\ \E id \in NewIds(work[Sweeper].cfg) :
       /\ versions' = [versions EXCEPT ![id] = Tombstone(work[Sweeper].now)]
       /\ Take(id)
  /\ Evaluated
  /\ UNCHANGED <<bucket, clock, sent>>

------------------------------------------------------------------------------

\* Time passes.
Tick ==
  /\ clock < MaxTime
  /\ clock' = clock + 1
  /\ UNCHANGED <<bucket, versions, used, sent, work>>

Request(c) ==
  \/ BeginPut(c)
  \/ BeginCopy(c)
  \/ BeginDelete(c)
  \/ BeginDeleteVersion(c)
  \/ BeginCreate(c)
  \/ BeginComplete(c)
  \/ BeginAbort(c)
  \/ BeginRetention(c)
  \/ BeginLegalHold(c)

\* What a request does once it has started.
Continue(c) ==
  \/ CheckPut(c)
  \/ CheckDelete(c)
  \/ Body(c)
  \/ CommitWrite(c)
  \/ CommitDelete(c)
  \/ CommitComplete(c)
  \/ CommitLock(c)

Sweep ==
  \/ SweepStart
  \/ SweepList
  \/ SweepKeep
  \/ SweepDelete
  \/ SweepFails
  \/ SweepExpire

\* A bucket that has been configured and holds nothing yet.
Init ==
  /\ bucket \in Configurations
  /\ versions = [id \in Ids |-> Absent]
  /\ used = {}
  /\ clock = 0
  /\ sent = 0
  /\ work = [w \in Workers |-> Idle]

Next ==
  \/ \E c \in Clients : Request(c) \/ Continue(c)
  \/ PutVersioning
  \/ PutLockConfig
  \/ PutLifecycle
  \/ Sweep
  \/ Tick

\* The runtime polls every task that can go on, the actor answers every
\* operation, and the maintenance task sweeps again and again.
Fairness ==
  /\ \A c \in Clients : WF_vars(Continue(c))
  /\ WF_vars(Sweep)

Spec == Init /\ [][Next]_vars /\ Fairness

------------------------------------------------------------------------------
(* Properties.                                                             *)

\* The rows, the configuration and every worker hold values of their types.
TypeOK ==
  /\ bucket \in BucketConfigs
  /\ versions \in [Ids -> Rows \cup {Absent}]
  /\ used \subseteq Uuids
  /\ clock \in Times
  /\ sent \in 0..MaxRequests
  /\ work \in [Workers -> Work]

Locked(id) == versions[id] # Absent /\ ForbidsDelete(versions[id], clock)

\* This step is one of a worker whose decision about a row rests on something
\* that is no longer there: the row has changed since the worker read it.
Overtaken(id) ==
  \E w \in Workers :
    /\ work'[w] # work[w]
    /\ IF w = Sweeper THEN work[w].snap # Absent /\ work[w].snap[id] # versions[id]
       ELSE work[w].id = id /\ work[w].read # versions[id]

\* Object lock is enforced: no request and no lifecycle rule removes a version
\* that is under retention or legal hold, but for one that had checked the
\* version before the lock was set.  In particular whoever begins after the
\* answer to put_object_retention or put_object_legal_hold is refused.
LockedVersionKept ==
  [][\A id \in Uuids :
       Locked(id) /\ versions'[id] = Absent => Overtaken(id)]_vars

\* A lock is only strengthened: a retention never ends earlier than before and
\* a retention request never lifts a legal hold, but for a request that read
\* the lock before another one changed it.
LockOnlyStrengthened ==
  [][\A id \in Uuids :
       versions[id] # Absent /\ versions'[id] # Absent /\ ~ Overtaken(id)
         => /\ versions'[id].until >= versions[id].until
            /\ \/ ~ versions[id].hold
               \/ versions'[id].hold
               \/ \E c \in Clients : work[c].op = "legalHold" /\ work'[c] # work[c]]_vars

\* What a GET of the key would find.
CurrentIsObject == \E id \in Ids : id = Current(versions) /\ IsObject(versions[id])

\* A conditional put keeps its word about the current object: If-None-Match never
\* replaces one and If-Match never creates one.  The check reads the "null" row alone,
\* so there are two ways out: that row changed while the body was stored, or the
\* bucket has been versioned and its current version has a uuid, which the check does
\* not see, against what the comment on check_put_preconditions says.
PreconditionHolds ==
  [][\A c \in Clients :
       /\ work[c].op = "put" /\ work[c].pc = "commit" /\ work'[c].pc = "idle"
       /\ work[c].cond = IF CurrentIsObject THEN "ifNoneMatch" ELSE "ifMatch"
       => \/ work[c].read # versions[NullVersion]
          \/ bucket.versioning # "Off" /\ Current(versions) \in Uuids]_vars

\* A version or upload with a uuid that the rules of the bucket call for the
\* removal of: an upload that is too old, or a version that is not the current
\* one, is old enough and not locked.
Overdue(id) ==
  LET row == versions[id]
      due(period) == period # Never /\ clock - row.created_at >= period
  IN  /\ row # Absent
      /\ IF row.state = "InProgress" THEN due(bucket.abort)
         ELSE /\ id # Current(versions)
              /\ ~ Locked(id)
              /\ due(bucket.noncurrent)

\* The rules are enforced in the end, though a manifest that a request deletes
\* under the sweeper's hands ends the sweep with an error.
RulesEnforced == \A id \in Uuids : Overdue(id) ~> ~ Overdue(id)

\* Compliance mode cannot be bypassed: a version under lock, the "null" version
\* too, stays what it is but for its lock, at least while requests come one at a
\* time.
LockBinding ==
  [][\A id \in Ids :
       Locked(id) => /\ versions'[id] # Absent
                     /\ versions'[id].kind = "Object"
                     /\ versions'[id].created_at = versions[id].created_at
                     /\ versions'[id].last_modified = versions[id].last_modified]_vars

=============================================================================
