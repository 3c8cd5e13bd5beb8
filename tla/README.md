# s3lite in TLA+

s3lite is a single-node S3 server in Rust. Object metadata lives in a redb
database that one actor thread owns; object data lives in content-addressed
part files, shared by every object with the same content and kept alive by
reference counts. This directory models the parts of the server that carry its
correctness, checks them with TLC on small instances and proves all their safety
properties with TLAPS for every value of the constants.

Paths below are those of the repository with the prefix `src/`, as in
`PROJECT.json`, which also holds the line ranges for every definition.

## 1. The system

| Component | Source | State | Operations |
|---|---|---|---|
| metadata actor | `storage/db/actor.rs`, `db/mod.rs` | tables BUCKETS, OBJECTS, PARTS, EVENTS_DLQ | one transaction per message: bucket, manifest and part operations, listings, dead letters |
| part store | `storage/parts.rs` | files `parts/aa/bb/<hash>`, `tmp/` | write to a temporary file and rename, read, delete |
| object requests | `s3/object.rs` | locals across awaits | put, get, head, delete, delete of a version, inline GC |
| multipart requests | `s3/multipart.rs` | an InProgress manifest per upload | create, upload part, complete, abort, list |
| copy requests | `s3/copy.rs` | - | copy object, upload part copy |
| object lock | `s3/lock.rs` | lock of a manifest, lock configuration of a bucket | retention, legal hold, lock headers, default retention |
| maintenance | `s3/maintenance.rs` | - | lifecycle rules, GC sweep, repeated by a task |
| bucket requests | `s3/bucket.rs` | configuration of a bucket | create, delete, versioning, lifecycle rules |
| listing | `s3/listing.rs` | continuation tokens | ListObjects V1 and V2, ListObjectVersions |
| tagging | `s3/tagging.rs` | tags of a manifest | put, get, delete |
| events | `s3/events.rs` | a task for each delivery, EVENTS_DLQ | emit, deliver with a retry, dead letter |
| admin | `admin.rs` | a data directory, a snapshot | backup, restore, scan |
| configuration | `config.rs`, `s3/state.rs`, `main.rs` | the current configuration, the certificate | load, boot, reload on SIGHUP, stop |
| authentication | `http/middleware/auth.rs`, `presigned.rs` | - | signatures in headers and in URLs |
| routing | `http/router.rs`, `s3/dispatch.rs`, `s3/addressing.rs` | - | public routes, addressing, choice of the handler |
| text | `s3/xml.rs`, `s3/cors.rs`, `s3/checksum.rs`, ... | - | encoding and parsing |

Handlers are async functions on a thread pool. They talk to the actor through a
bounded channel and wait for the answer, so every *transaction* is atomic and every
*handler* is a sequence of transactions and file operations between which other
handlers and the maintenance task run. Nothing else is shared: there are no
locks, no per-key queue and no transaction across two messages. A client that
disconnects drops its handler at the await it has reached.

What is hard in this code follows from that:

- the refcount of a part must equal the number of manifest entries that name it,
  through replacements, re-uploaded part numbers, completions and deletions, some
  of which name the same part several times;
- the file of a part is deleted in three steps (mark the row GcPending, unlink the
  file, remove the row) that race with puts of the same content, with a second
  collector of the same part, and with crashes;
- handlers check in one message (bucket exists, object not locked, precondition
  holds, upload in progress) and act in another;
- the lifecycle sweep decides on a list of manifests that changes under it;
- a listing is read in pages, each from where the last one ended, while keys come
  and go;
- offsets and ranges are computed on unsigned integers, over parts of any size;
- a caller may be gone when its operation is executed, the actor may panic with
  operations in its channel, and Drop waits for a thread that waits for messages;
- a request reads the configuration three times while the operator reloads it, and
  its notifications outlive it, but not the process;
- backup and restore copy file by file, can be interrupted within one, and leave
  no mark of how far they came.

`PROJECT.json` lists these hazards one by one, at the line where each bites, with
the properties about it.

## 2. Modules

| Module | Models | State |
|---|---|---|
| `MetaStore` | the actor's transactions on BUCKETS, OBJECTS and PARTS | `buckets`, `objects`, `parts` |
| `MetaStoreProofs` | theorems about `MetaStore` | |
| `ObjectStore` (extends `MetaStore`) | handlers, part files, inline GC, GC sweep, disconnects, crashes | and `files`, `used`, `work`, `faults` |
| `ObjectStoreProofs` | theorems about `ObjectStore`: it implements `MetaSpec`; with one worker at a time no data is lost and it implements `DisciplinedSpec` | |
| `ObjectVersions` | the versions of one key: versioning, object lock, preconditions, lifecycle rules | `bucket`, `versions`, `used`, `clock`, `sent`, `work` |
| `RangeRead` | range headers and the walk over the parts of an object | `sizes`, `req`, `status`, `range`, `next`, `cursor`, `out` |
| `Listing` | the pages of ListObjects and ListObjectVersions while others write | `rows`, `bucket`, `req`, `status`, `cursor`, `out`, `pages`, `changes`, `steady`, `ever` |
| `AtomicCalls` | what a call of the metadata store promises: an abstract specification | `status`, `log`, `answer` |
| `Channel` | the actor's thread and channel, calls, open and Drop; implements `AtomicCalls` | `store`, `actor`, `lock`, `queue`, `call`, `reply`, `log`, `faults` |
| `Dispatch` | loading of a configuration, signatures, addressing, the routing table, event filters, as operators | |
| `Service` (extends `Dispatch`) | the process around the store: boot, reload, stop, requests from entry to answer, webhook deliveries, dead letters | `file`, `current`, `cert`, `hup`, `reload`, `proc`, `req`, `task`, `dlq`, `used` |
| `Backup` | backup, restore and scan beside runs of the server | `dir`, `server`, `deleted`, `backup`, `restore`, `ops`, `faults` |
| `ObjectVersionsProofs`, `RangeReadProofs`, `ListingProofs`, `ChannelProofs`, `ServiceProofs`, `BackupProofs` | theorems about these modules | |
| `MCObjectStore`, `MCObjectVersions`, `MCListing`, `MCService`, `MCBackup` | instances for TLC | |

### MetaStore

A table is a function with the value `Absent` where there is no row; a manifest's
part list is a function from part numbers to hashes. One action is one
transaction that commits: its guards are the negated error conditions of the
handler, and a transaction that fails changes nothing. `IncParts` and `DecParts`
are the loops over `inc_part_refcount` and `dec_part_refcount`, with the
saturation of the `u32` (`RefMax`), the stop at zero and the row created for a
part seen for the first time. The refusal of a GcPending part is the guard
`Referenceable`. The order of increments and decrements is that of the code: put
increments first, append and complete decrement first. `...Freed` are the
`DeletionEffect`s returned to the handlers.

Two specifications use the same transactions:

- `MetaSpec`: any caller, any order. `put_manifest` is given what the handlers
  can build (`SubmittedManifests`), with any list of parts for a copy because its
  source was read in an earlier message;
- `DisciplinedSpec`: the same, but a row is removed only while it is GcPending,
  which is what the GC protocol means its callers to do.

Both are abstract specifications that the server is checked against.

### ObjectStore

Each worker (clients and the sweeper) has a record with a program counter; one
step is one awaited operation, a transaction of `MetaStore` or a system call on a
part file. `Begin...` is a handler up to its first await, `Resolve`,
`ReadSource` and `WriteBytes` its middle, `Commit...` its transaction, and
`GcMark`, `GcUnlink`, `GcRemove` the collection of what it freed
(`gc_freed_parts`), which the sweeper shares (`sweep_gc`). `Disconnect`, `Crash`
and `GcUnlinkFails` are the faults; tables and renamed files survive them.

Abstractions: reads that only feed an early return are left out (a request may
always not arrive); the list of freed parts is a set (the code's list could name
a part twice only when the count is already too low, and the second visit would
find the row gone); `write_stream`'s check for the file and its rename are one
step, after which the file is there in both cases; temporary files and `fsync`
are not modelled; configuration, tags and locks are opaque.

### ObjectVersions

One key, whose version ids are numbers in their byte order ("null" sorts after
every uuid), a bucket configuration, a clock in days. Requests and the lifecycle
sweep are workers as above. A row keeps what decides: state, kind, retention
date, legal hold, creation and modification time. For each lifecycle action the
configuration holds the least number of days among the rules that are enabled and
match the key, because the code takes the action as soon as one of them is due.
Ties in time are broken as in the code, by the order of the ids. The sweeper works
through its list newest first and ends at the first manifest that is gone.
Preconditions have the value `*`; the comparison of ETags is left out. Their check
reads the row "null", as the code does whatever the versioning of the bucket, although
the comment at `object.rs:581-584` speaks of the current object.

### RangeRead

Byte i of the object is the number i, so that what is returned can be compared
with `Meant`, the definition of a byte range as a set of positions. `Offsets` are
the running sums of the part sizes, the last of which is the manifest's size. `get` buffers
all parts and slices; `copy` walks the parts with a cursor whose arithmetic wraps
at `Wrap`, as a `u64` does in a release build.

### Listing

A client reads a bucket page by page (`Admit` is `require_bucket`, `ListPage` the
read transaction with the answer) while others write rows. Keys are short byte
strings, because what decides is the byte arithmetic of `after_key` and
`after_prefix` and the order of `bucket\0key\0version`. `steady` and `ever` are
history: the keys the bucket has shown at every moment, and at some moment, since
the listing began. The code's loop over the keys is written as a sorted set of
items cut at the limit. A V2 token holds a cursor, which is after a key or after a
prefix; a V1 marker and the key marker of ListObjectVersions hold a name and come
back as a key. Percent encoding, base64 and the query string are left out. Keys,
prefixes, delimiters and markers have no byte 0, which separates the fields of a row
key, and no byte 255, which UTF-8 does not have; an empty delimiter counts as none
(`list_v2`). A version is one byte: what matters
is that it follows the 0, and its order among rows of the same time.

Three things the code does that the properties except by name: a V1 listing with a
delimiter repeats the common prefix a page ended with (with max-keys 1, for ever);
ListObjectVersions goes on after the last key, so the remaining versions of a key
cut by the end of a page are on no page (`VersionsLostAtSeams` says that no others
are); and a start before the prefix ends the scan at the first key without the prefix,
with an empty listing.

### Channel and AtomicCalls

`AtomicCalls` is what every handler relies on when it awaits the store: a call
takes effect at most once, between its beginning and its return, its answer is
that of its own operation, and a refused call has no effect, then or later.
`Channel` has the means: `Send` waits while the channel is full, `Execute` is one
turn of the actor's loop (transaction, then answer), `Receive` and `ReplyDropped`
are the two ways the one-shot channel ends, `Cancel` drops a caller at either of
its awaits, `ActorPanics` unwinds the thread, and `Open`, `Drop`, `ActorStops` and
`Join` are the life of the store, with the lock that redb holds on its file and a
second process that may want it. An open goes through the thread: `ActorCreates` is
`Database::create`, which takes the lock, or `ActorNotReady` if that fails; then
`ActorReady`, when `bootstrap_tables` has succeeded, or `BootstrapFails`, where the
error is sent while the thread still owns the database and open returns without a
join; the lock is "unjoined" until the thread has dropped it (`UnjoinedReleases`).
`CallsAreAtomic` is the refinement. Its mapping takes a refused call for refused even
if the log has it, so that one executed and then answered with ActorDied would be no
behaviour of `AtomicCalls`.
An operation is its call and a transaction its place in `log`: what it does to the
tables is `MetaStore`.

### Dispatch and Service

`Dispatch` holds what is a function of a request and of a configuration. A request
keeps what these functions look at: method, host, path segments, the query
parameters and headers that some arm asks for, who signed it, whether the
signature fits, its age and lifetime. `Arms` lists the arms of the match in
`dispatch.rs` one by one.

`Service` is the process. `EditConfig`, `Hup` and `Stop` are the operator's;
`ReloadConfig` and `ReloadCert` the two halves of `reload_loop`; `Arrive`,
`Authenticate`, `Route`, `Commit`, `Emit` a request, with its three snapshots of the
configuration in `Arrive`, `Route` and `Emit`; `Check`, `Succeed`, `Fail`, `Wake`
and `InsertDlq` a delivery. A stop waits for requests (with TLS for ten seconds)
and not for deliveries; what is under way when the process ends is lost. The store
is reduced to whether a handler commits.

### Backup

Three directories: the source, the snapshot, the target. A directory is the content
of `meta.redb` (buckets, and the parts that manifests under each bucket name refer
to) and the state of each part file: absent, torn or whole. `BackupList` is the
part of backup under the lock, `BackupMeta` and `BackupPart` copy after it was
released. `RestoreCheck` looks for a database in the target, `RestoreMeta` and
`RestorePart` copy back; restore takes no lock, so a server may create and use one
between the check and the copy, and of a database that is overwritten while it is open
anything may become. Each command may be interrupted within a file, and the operator
may run any of them again. The server, on either directory, is one step per change;
`deleted` are the buckets that a put under way may have found before they were
deleted. Since requests are atomic here, what their race does to files (`lost_data`) is
`LosePart`, in the source and in the target; `restore.lost` remembers the latter.

## 3. What TLC checks

| Run | Shows | Distinct states |
|---|---|---|
| `server_sequential` | all requests with disconnects, crashes and failed unlinks, one worker at a time: the server implements `DisciplinedSpec`, so refcounts are exact (`RefcountExact`) and no GcPending part is referenced (`GcPendingUnreferenced`); the `DeletionEffect` of every transaction is exactly the set of parts that lost their last reference (`EffectIsExact`); every referenced part has its file (`ReferencedPartsOnDisk`); a file loses its last row and its last worker only by a fault or by a refused part upload (`LeaksOnlyByFault`) | 108 000 |
| `server_concurrent` | all requests, two workers at a time: the server implements `MetaSpec`, rows and workers keep their types (`TypeOK`), no refcount exceeds the number of references (`RefcountNeverOverstates`), a marked row has count zero (`GcPendingAtZero`) and gets no new reference (`NoNewReferenceToPending`), an upload or version that is gone never comes back (`NoResurrection`); without faults a part at refcount zero is in the end collected or referenced again (`OrphansReclaimed`) | 330 000 |
| `range_reads` | get and part copy return exactly the bytes the header means over every split into parts, empty ones included (`RangeExact`), and a slice leaves its buffer only in a part copy from an object whose first part is empty (`OnlyEmptyFirstPartPanics`) | 25 000 |
| `version_locks` | two workers on the versions of a key: a locked version is removed (`LockedVersionKept`) or a lock weakened (`LockOnlyStrengthened`) only by a request that had read the row before it changed, and a precondition on the current object is broken (`PreconditionHolds`) only by such a request or, in a bucket that has been versioned, where the current version has a uuid | 654 000 |
| `lifecycle_liveness` | overdue uploads and noncurrent versions are removed in the end (`RulesEnforced`), although a concurrent delete ends a sweep | 194 000 |
| `listing` | listings of every kind with a write at any point: a key that is there throughout is on some page (`NothingMissed`), names ascend across all pages (`ListedOnce`), nothing hidden or never there is listed (`NothingInvented`), without a write a version is on no page only if one ended among the versions of its key (`VersionsLostAtSeams`), and the pages come to an end (`ListingEnds`) | 106 000 |
| `actor_channel` | three calls on a channel for two, with cancelled callers, two faults (failed opens, panics, crashes) and a second process: calls are atomic, and ActorDied means that nothing was executed (`CallsAreAtomic`), they end (`EveryCallEnds`), Drop returns if its message found room (`DropReturns`), a closed store holds the lock at most through the thread of an open that failed in `bootstrap_tables` (`ClosedMeansUnlocked`), the channel keeps its bound (`TypeOK`) | 19 000 |
| `service` | two requests, two subscriptions, three contents of the file, an edit, two signals and a fault: only preflights and what was signed with the key current on entry are handled (`HandledOnlyIfSigned`), by the most specific arm (`MostSpecificArm`); what is answered was notified to every subscription that stayed configured (`AnsweredIsNotified`); a dead letter is stored once and is the fate of its delivery (`DeliveryLedger`); deliveries end (`EveryDeliveryEnds`); a signal is never lost (`ReloadTakesEffect`) | 90 000 |
| `backup_restore` | four changes and two faults: a backup that ended well and had the source to itself is complete (`SnapshotComplete`), what is restored from it stays whole but for parts that are lost later and the others it names (`RestoredIsWhole`), and what a restore has still to copy stays in the snapshot (`TypeOK`) | 4 700 000 |

`LockedVersionKept` and `LockOnlyStrengthened` describe the window exactly: the
exception `Overtaken` is a step of a worker whose read of the row is out of date. A
request that begins after the lock was acknowledged is always refused.
`PreconditionHolds` has the same window and a second exception, which is no race: with
versioning Enabled objects have uuids and the check does not see them, so
`If-None-Match: *` replaces an object as current and `If-Match: *` fails for one; in a
suspended bucket the null version need not be the current one. Only in a bucket that
was never versioned is the window all there is.

Three runs end in a violation: the code does not do what a comment or the
repository's README says. Each is a finding in `PROJECT.json`.

| Run | What happens |
|---|---|
| `lost_data` | a put finds the content on disk and keeps the file; a collector that had marked the part unlinks it and removes the row; the put then commits with a new row: an object without a file |
| `stuck_pending` | a fault between mark and remove leaves a GcPending row; `list_orphan_parts` lists only Live rows, so it is never collected, and the content can never be stored again |
| `lock_bypassed` | `complete_multipart_upload` writes the null version without looking at its lock: a second upload replaces an object under legal hold |

The passing runs say under which conditions each claim does hold: one worker at a
time for `ReferencedPartsOnDisk` and `DisciplinedSpec`, no faults for
`OrphansReclaimed`, versions with a uuid for the lock properties.

Further places where the code does other than a reader would expect, each an
exception that a property or a definition names:

- `cursor + p.size - 1` wraps for an empty first part, and a part copy from such an
  object panics (`copy.rs:277`; `OnlyEmptyFirstPartPanics`).
- A precondition is checked against the null version and not against the current
  object of which `object.rs:581-584` speaks (`PreconditionHolds`).
- ListObjectVersions does not list "all committed versions and delete markers"
  (`listing.rs:153`) when a page ends among the versions of a key
  (`actor.rs:870`; `VersionsLostAtSeams`).
- Drop hangs when the channel is full of operations whose callers went away,
  because `try_send` gives up (`db/mod.rs:363`; the condition of `DropReturns`),
  although `db/mod.rs:80-82` counts on the lock being released.
- An open that fails in `bootstrap_tables` returns while its thread still has the
  database open, so another that follows at once may find it locked
  (`actor.rs:158-161`; "unjoined" in `ClosedMeansUnlocked`).
- restore "refuses to overwrite" (`admin.rs:123`) a database that it finds when it
  looks, not one that a server has made by the time it copies (`RestoreMeta`; a
  property that no database is ever overwritten is false and is not stated).
- A request does not run on one snapshot of the configuration, as `auth.rs:90-92`
  and the repository's README (147-148) say: dispatch and emit take their own
  (`Route`, `Emit`).
- No presigned URL lives longer than the clock skew of five minutes, although
  lifetimes of up to seven days are accepted (`presigned.rs:142`; `InTime`).
- A subresource without an arm is not answered with 501 as the README (26) says: the
  request falls to the catch-all of its method, so a PUT of an ACL replaces the
  object (`dispatch.rs:69`; `Arms`).
- The comment at `main.rs:457-459` takes it for granted that a configuration keeps
  TLS when the process booted with it; a reload can drop it, and the old certificate
  stays (`ReloadCert`).
- A torn part file left in a snapshot or a target counts as stored: a put of the
  same content keeps it (`parts.rs:97`; `leftover` in `RestoredIsWhole`, which a
  scan reports).
- backup copies "only the part files referenced by some manifest" (`admin.rs:54-56`)
  and not all of those: a manifest whose bucket was deleted under the request is in the
  copied database, its part is neither copied nor reported (`excused`).
- `upload_part` stores the body before it finds that there is no upload, and the
  file stays (`UploadRefused` in `LeaksOnlyByFault`).

### Bounds

- *Names.* One bucket and one key: keys do not interact but through parts, and
  two version ids already give two manifests that share parts. Two hashes where
  parts replace each other, one where only the race on a part matters. Two part
  numbers where a manifest may name a part twice.
- `RefMax` is large enough for every reference; what holds of counts that saturate
  is proved, not checked (section 4).
- `MaxInFlight`: 2, for the races of two requests or of one with the sweeper (3
  where a finding needs two requests and the sweeper).
  `MaxFaults` is 1 in `ObjectStore` and `Service`: after a fault everything in flight
  starts anew.
- `Times` has one value in `ObjectStore`: nothing there depends on time.
- `MaxRequests` is 3 in `version_locks`: a version, a lock and a request that
  races with it; with `MaxTime` 1 and periods of 1 a row is due or not.
- `MaxParts` 3 and `MaxSize` 2: a range that starts in one part, spans a second
  and ends in a third, with empty parts; `MaxBound` 7 goes past the largest
  object; `Wrap` is larger than every offset, so that only the underflow wraps.
- `Listing` has five keys: one is a prefix of three others, two share a common
  prefix, and one is the first key past that group; one byte is 1, the byte that
  `after_key` appends. One write (`MaxChanges`) falls at any point of the listing.
  `MaxPages` 7 is more than pages of one item need, so only the V1 listings that
  repeat a group meet it.
- `Capacity` 2 and three calls: a channel that is full with a caller waiting, and
  one whose operations all belong to callers that went away. Two faults, so that an
  open that failed is followed by one that ends in a panic.
- `Service` has one request that takes every kind of route and signature and one
  that writes; a second file that rotates the key, turns on virtual hosting, adds a
  subscription and drops TLS; and a third that does not load. `MaxRetries` is that
  of the code. Two signals, so that one falls into the reload of the other. `Skew`
  and `MaxExpires` are 3 and 9: only their order matters.
- `Backup` has one bucket and two parts: one that is copied and one still to be
  copied. Two faults, so that a repeated command is interrupted again or meets a
  part lost in the source or in the target. Four changes: a bucket is created,
  deleted under a put and created again.
- Hashes and clients are symmetric where symmetry is declared (never with
  liveness); version ids in `ObjectVersions` are ordered and are not.

`CHECK_DEADLOCK FALSE` is set where the instance ends: a range read is over when
it is done, a listing after its last page, `ObjectVersions`, `Service` and `Backup`
stop when the bounds on their environment are used up, and in `Channel` Drop may
hang. The server models (`ObjectStore`) never stop.

### Fairness

`OrphansReclaimed` and `RulesEnforced` assume weak fairness of every worker's next
step and of the start of a sweep: tokio polls every task that can go on, the actor
answers every message in turn, and `spawn_daemon` is a loop. No fairness is
assumed of clients (requests may stop) or of time. `ListingEnds` is about a client
that keeps asking while the answers say that there is more; it assumes weak
fairness of its requests and of the answers, none of the writers.

`Channel` assumes weak fairness of the actor's thread, also of one that nobody joins,
and of callers whose answer is there, and strong fairness of `Send`: tokio's semaphore gives room in the order
of the waiters. `Service` assumes that the awaits of `reload_loop` and of a delivery
end: each is a file read, a lookup, an attempt with a timeout, a sleep or a call of
the actor. Nothing is assumed of operators, clients or receivers.

## 4. What is proved

`MetaStoreProofs` holds for every set of buckets, keys, ids, hashes and part
numbers with finitely many manifest keys and part numbers (`MetaAssumption`,
`AbsentAssumption`).

| Theorem | Statement |
|---|---|
| `MetaTypeCorrect` | `MetaSpec => []MetaTypeOK` |
| `RefcountBound` | `MetaSpec => []RefcountNeverOverstates` |
| `PendingStaysAtZero` | `MetaSpec => []GcPendingAtZero` |
| `InterlockHolds` | `MetaSpec => NoNewReferenceToPending` |
| `RefcountsAreExact` | if `RefcountsFit`: `DisciplinedSpec => []RefcountExact` |
| `PendingIsUnreferenced` | if `RefcountsFit`: `DisciplinedSpec => []GcPendingUnreferenced` |
| `EffectsAreExact` | if `RefcountsFit`: `DisciplinedSpec => EffectIsExact` |

`RefcountsFit` says that the width of the refcount exceeds all references there
can be together with those of one manifest more, because `put_manifest` counts
the new manifest before it gives back the old one; without it counts saturate and
exactness is false.

The argument. References and counts are different sums over the same tables, so
the core is a lemma (`CommonMoves`) that for each hash every transaction but
`remove_part` takes away a set of references and adds a disjoint set, and moves
the refcount by the sizes of the same two sets, up to saturation and the stop at
zero. It rests on the counting lemmas for one manifest replaced in the OBJECTS
table and for what `IncParts` and `DecParts` do to one row. From it:

- `RefcountNeverOverstates` is inductive with the types (`OverstateInv`): a count
  that is too low may stop at zero early, never late;
- `RefcountExact` needs two more conjuncts (`ProtocolInv`): a GcPending row has
  count zero (`GcPendingAtZero`), so removing it loses no reference, and an upload
  in progress has a uuid (`UploadsHaveIds`), so that completing it does not delete
  the row just written under "null";
- `GcPendingUnreferenced` follows: count zero and exact means no reference;
- the interlock is an action property, from the same facts about `IncParts` and
  the guard `Referenceable` (`InterlockInv`);
- `EffectIsExact` is an action property too: with exact counts before and after, a
  decrement that stops at zero is the loss of the last reference.

`ObjectStoreProofs` lifts this to the server, for every set of clients, every
workload, any number of workers at a time and of faults (`ObjectAssumption`).

| Theorem | Statement |
|---|---|
| `ServerImplementsStore` | `Spec => MetaSpec` |
| `ServerTypeCorrect` | `Spec => []TypeOK` |
| `NothingResurrected` | `Spec => NoResurrection` |
| `ServerRefcountBound` | `Spec => []RefcountNeverOverstates` |
| `ServerInterlock` | `Spec => NoNewReferenceToPending` |

The argument. `MetaSpec` restricts what callers submit: a copy has parts, an upload
has a uuid, and a completion is the upload that is in the table, completed. A
handler decides these things awaits before its transaction, so the invariant
(`ServerInv`) carries them across the steps of everyone else: what a worker holds
at each place of its handler (`Holds`), that a committed object has parts and that
a row under a uuid has an id that was handed out (`RowsOK`), and that the object a
completion has built still has the tags and the lock of its upload, if the upload
is still there (`SnapshotFits`). The last needs that no step recreates a row or
changes its tags or lock (`Kept`), which is also what `NoResurrection` says. It is
true of the code beyond the requests of `ObjectStore`: the tagging and lock
handlers (`load_target`, `require_object_with_version`) find committed objects only,
and the uuid of an upload never becomes the id of one. A step of one worker is shown `Good` handler by handler;
what the others hold then stays valid (`HoldsStays`).

### One worker at a time

The last part of `ObjectStoreProofs` has the hypotheses `MaxInFlight <= 1` and
`RefcountsFit`; all other constants, among them the number of faults, are arbitrary. The first is needed: with
two workers `lost_data` loses a file. The theorems say that the
order of steps within one request or sweep is right, wherever it is cut off, and
that only interleavings break it.

| Theorem | Statement |
|---|---|
| `NothingLost` | `Spec => []ReferencedPartsOnDisk` |
| `ServerIsDisciplined` | `Spec => DisciplinedSpec` |
| `ServerRefcountsExact` | `Spec => []RefcountExact` |
| `ServerPendingUnreferenced` | `Spec => []GcPendingUnreferenced` |
| `ServerEffectsExact` | `Spec => EffectIsExact` |
| `OnlyFaultsLeak` | `Spec => LeaksOnlyByFault` |

The invariant (`SeqInv`) is `ServerInv` and `ProtocolInv`, at most one active worker
(`Solo`), and what that worker has achieved at its place: what it is about to commit
is on disk (`HasData`), the part whose file it deletes is marked (`Deleting`), hence
unreferenced by the exactness of the counts, and it names a part only while it stores
or deletes it (`Tidy`). `ServerIsDisciplined` then needs only that the row
`remove_part` drops is still marked; the next three theorems come through it from
those about `DisciplinedSpec`.

### Channel

For every set of calls, every capacity and every number of panics and crashes
(`ChannelAssumption`).

| Theorem | Statement |
|---|---|
| `ChannelTypeCorrect` | `Spec => []TypeOK` |
| `ClosedIsUnlocked` | `Spec => []ClosedMeansUnlocked` |
| `DispatchIsAtomic` | `Spec => CallsAreAtomic` |

`ChannelInv` says that thread, lock and handle go together, from the thread that has
just created the database to the one that has dropped it, and only a running actor
has operations in its channel (`ThreadOK`), that an operation is in the channel once
and has not been executed (`QueueOK`), and that answers are places in the log and
refused calls have none (`RepliesOK`), which is what makes `AbstractStatus` a
refinement: ActorDied is answered only where nothing was executed. With it every step maps to a step of
`AtomicCalls` or to a stutter: `Execute` to the call taking effect, the return of a
caller to its end.

### ObjectVersions

For every set of clients and uuids, any requests, days and configurations with
`VersionsAssumption`: in particular lock is enabled only where versioning is not Off
(`create_bucket` enables both together, and `put_bucket_versioning` knows only Enabled
and Suspended), and dates do not overflow.

| Theorem | Statement |
|---|---|
| `VersionsTypeCorrect` | `Spec => []TypeOK` |
| `LockIsEnforced` | `Spec => LockedVersionKept` |
| `LocksOnlyGrow` | `Spec => LockOnlyStrengthened` |
| `ConditionsHold` | `Spec => PreconditionHolds` |

`VersionsInv` carries each check of a handler to its transaction: the row to be
deleted, as read, is not locked, a new retention ends no earlier than the one read,
the precondition held of what was read (`ClientOK`), and the list of a sweep was made
no later than now (`SweeperOK`). So at the transaction either the row is the one read
and the check still stands, or the step is `Overtaken`. Two facts keep other steps
out of the way: uploads have no lock and nobody is about to lock one (`UploadsOK`),
and a uuid goes to one worker only (`FreshOK`).

`PreconditionHolds` speaks of the current version and the check of the null row. Where
the current version is no uuid the two agree (`CurrentIsNull`); that this is always so
in a bucket with versioning Off is a second invariant (`UnversionedInv`): versioning
that was turned on is never Off again, so nobody there has ever read another state of
it, and under uuids are uploads only (`UnversionedCurrent`).

### Service

For every set of requests, files and subscriptions and any bounds
(`ServiceAssumption`).

| Theorem | Statement |
|---|---|
| `ServiceTypeCorrect` | `Spec => []TypeOK` |
| `SignaturesHold` | `Spec => []HandledOnlyIfSigned` |
| `RoutingIsSpecific` | `Spec => []MostSpecificArm` |
| `SubscribersAreNotified` | `Spec => []AnsweredIsNotified` |
| `LedgerIsExact` | `Spec => []DeliveryLedger` |

`ServiceInv` (`ServiceInvariant`): from signature check to answer a request is one
that the snapshot taken on entry admits, and its arm is the one chosen for the address
that some loadable file gave it (`RequestsOK`); deliveries exist only of answered
requests, and the queue holds the dead ones, each once (`LedgerOK`); a stop counts
as a fault (`ProcessOK`). The routing theorem rests on lemmas about
the table: where each arm stands and what it needs (`TableRows`), that an arm which
asks for more stands before one of the same method and level which asks for less
(`SpecificFirst`), and that the first match is taken (`ChosenIsFirst`).

### Backup

For every set of buckets and parts and any number of changes and faults
(`BackupAssumption`).

| Theorem | Statement |
|---|---|
| `BackupTypeCorrect` | `Spec => []TypeOK` |
| `BackupIsComplete` | `Spec => []SnapshotComplete` |
| `RestoreIsWhole` | `Spec => []RestoredIsWhole` |

`BackupInv`: the source is never torn (`SourceOK`); an undisturbed backup has, part by
part, copied it, found it missing or still to do it (`BackupOK`); restore has to do
only what the snapshot has, and a torn file in the target is also in the snapshot, so
that a repeated restore mends it (`CopiesOK`); while a sound restore runs the snapshot
stays the one the backup made (`SoundOK`), and what the target refers to is there,
still to do or lost (`RestoreOK`). `RestoredIsWhole` so says what restore and the
server's operations, each taken as a step, contribute to a loss, which is nothing; that
their interleaving can lose a part is `ObjectStore`'s subject.

### RangeRead

For objects of every number and sizes of parts and headers with any bounds below the
wrap of the offsets (`RangeAssumption`).

| Theorem | Statement |
|---|---|
| `RangesAreExact` | `Spec => []RangeExact` |
| `PanicsAreKnown` | `Spec => []OnlyEmptyFirstPartPanics` |

`RangeInv` (`RangeInvariant`): the header was resolved to what it means
(`ResolvedOK`), and what has been collected is what falls into the parts before the
next one, with the cursor of a copy at the end of these (`ReadOK`), past the first
part no longer at 0, so that the subtraction wraps at no other. The offsets are a
recursive function; what is needed of it (each offset exists, they ascend, their
differences are the sizes) is proved by the least counterexample: the numbers that do
not have the property are a set, and a nonempty one has a least element
(`LeastNumber`, `SetInduction`). This takes a set where the induction theorems of the
library take an operator, which the installed provers cannot instantiate.

### Listing

For every set of keys, every request, every size of the pages and any number of pages
and of writes between them (`ListingAssumption`).

| Theorem | Statement |
|---|---|
| `NothingIsMissed` | `Spec => []NothingMissed` |
| `EachIsListedOnce` | `Spec => []ListedOnce` |
| `NothingIsInvented` | `Spec => []NothingInvented` |
| `LostOnlyAtSeams` | `Spec => []VersionsLostAtSeams` |
| `CursorsAdvance` | `Spec => [][CursorAdvances]_vars` |

The invariant (`ListingInv`, theorem `ListingInvariant`) is the three properties and
what they need of the past: what the bucket shows lies between `steady` and `ever`
(`HistoryOK`); each listed item is the item of its own name, so that it can be told
from the name alone where its group ends (`ListedOK`); the cursor is the place of the
last listed item (`CursorOK`); and a steady key is on a page or ahead of the cursor
(`CoverageOK`), where `Ahead` speaks of keys, not of bytes. `NothingMissed` is not
inductive without the last: it says nothing before the listing is done.

The argument goes up in four layers.

- Bytes. `Less` is a strict total order with the prefixes of a string in one interval
  (`LessIs`, `LessTransitive`, `LessTotal`, `BeyondPrefix`). The proofs read a string
  as infinite with a least value past its end (`At`), so that a prefix is no case of
  its own.
- Scans. A scan from `after_key(n)` takes up exactly the rows of keys greater than n
  (`ScanAfterKey`), one from `after_prefix(p)` exactly those of keys greater than p
  that do not begin with p (`ScanAfterPrefix`); so `Scanned` has all versions of a key
  or none, and reaches every key with the prefix (`ScannedIs`, `ScanReaches`).
- Items. A common prefix is its own common prefix, takes in every key that begins with
  it, and the items of ascending keys ascend (`GroupIs`, `GroupTakesAll`, `ItemAfter`).
- Pages. A finite set sorted by ranks lists each member once in order (`SortedIs`), and
  what a cut leaves out comes after all that it keeps (`PageOfSorted`).

`ListPageKeeps` puts them together: what a page shows comes after what was listed
(`PageShows`, `PageComesAfter`), and what it does not reach is ahead of the next
cursor (`PageReaches`). A write only has to leave one row for a key and a version
(`WriteKeeps`).

`LostOnlyAtSeams` has an invariant of its own beside that one (`SeamOK`): all pages of
versions but the last are full, so that the place where page n ended is n times the
limit, and each version is listed, ahead of the cursor or one of a key that a page
ended with.

`CursorsAdvance` is the safety half of `ListingEnds`: after the first page, a page
that is followed by another ends strictly past the place where it began, but for V1
with a delimiter. What is left to TLC is that requests are made and answered.

### Only model-checked

- Liveness, out of the prover's reach with its fairness: `OrphansReclaimed`,
  `RulesEnforced`, `ListingEnds`, `EveryCallEnds`, `DropReturns`,
  `EveryDeliveryEnds`, `ReloadTakesEffect`.

Every invariant and every action property of the runs that pass is proved, those under
"One worker at a time" with its hypotheses.

## 5. Not modelled

- XML, checksums, CORS rules, error bodies and request ids: text in, text out, no
  state.
- The canonical request and the HMAC of a signature, the parsing of TOML, of
  environment variables and of query strings, and the syntax of bucket names: a
  request or a file has the result as a field.
- The commands that write a first configuration (`init`, `auto`): one process
  writing one file.
- Power loss below the file system: a renamed file survives a crash here, though
  its directory is not synced. Leaked temporary files lose no data.
- `update_state` is in `MetaStore`, but no handler of the server calls it; hence
  no Aborted manifest in the other modules.

## 6. Plan

What a read without a version id returns after each write in `ObjectVersions`, with a
clock that may go back; tags.
