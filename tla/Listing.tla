------------------------------- MODULE Listing -------------------------------
(***************************************************************************)
(* ListObjects V1 and V2 and ListObjectVersions: a client that reads a     *)
(* bucket page by page while others write to it (src/src/s3/listing.rs and *)
(* the two listing transactions of src/src/storage/db/actor.rs).           *)
(*                                                                         *)
(* A key is a sequence of bytes.  Its rows are stored under the bytes      *)
(* bucket, 0, key, 0, version; since one bucket is modelled its bytes and  *)
(* the first 0 are left out.  A key does not contain 0, which S3 forbids,  *)
(* nor 255, which UTF-8 does not have.  A version is a single byte.        *)
(*                                                                         *)
(* A page is two messages to the actor: the check that the bucket exists,  *)
(* then the read transaction.  Writes of others fall between any two.      *)
(***************************************************************************)
EXTENDS Integers, Sequences, FiniteSets, SequencesExt

CONSTANTS
  Keys,         \* the keys that are written
  Versions,     \* version ids, as bytes
  Times,        \* values of last_modified
  Requests,     \* the listings that are asked for
  Contents,     \* what the bucket may hold when the listing begins
  Writable,     \* the rows that are written while it goes on
  MaxMaxKeys,   \* the cap on max-keys, also its default
  MaxChanges,   \* bound: writes during the listing
  MaxPages,     \* bound: pages the client asks for
  Missing       \* no such parameter, or no such value

Bytes == 1..254

Names == Seq(Bytes)

Rows == [key : Keys, version : Versions, last_modified : Times,
         kind : {"Object", "Tombstone"}, state : {"Committed", "InProgress"}]

Cursors == [after : {"key", "prefix"}, name : Names]

\* An empty delimiter counts as none.
ASSUME ListingAssumption ==
  /\ Keys \subseteq Names \ {<<>>}
  /\ Versions \subseteq Bytes
  /\ Times \subseteq Nat
  /\ Requests \subseteq [op : {"v1", "v2", "versions"},
                         prefix : Names,
                         delimiter : (Names \ {<<>>}) \cup {Missing},
                         max_keys : Nat \cup {Missing},
                         start : Names \cup {Missing}]
  /\ Writable \subseteq Rows
  /\ \A c \in Contents :
       /\ c \subseteq Rows /\ IsFiniteSet(c)
       /\ \A r, s \in c : r.key = s.key /\ r.version = s.version => r = s
  /\ MaxMaxKeys \in Nat \ {0}
  /\ MaxChanges \in Nat
  /\ MaxPages \in Nat
  /\ Missing \notin Nat \cup Names \cup Cursors

VARIABLES
  rows,     \* the rows of the bucket in OBJECTS
  bucket,   \* does the bucket exist?
  req,      \* the request: op, prefix, delimiter, max_keys and start
  status,   \* ready, admitted, done or refused
  cursor,   \* where the next page begins, Missing for the beginning
  out,      \* the items the client has received, in order
  pages,    \* how many pages that was
  changes,  \* how many writes there were
  steady,   \* keys that were in the listing at every moment since it began
  ever      \* keys that were in it at some moment

bucketVars == <<rows, bucket, changes, steady, ever>>
listVars == <<req, status, cursor, out, pages>>
vars == <<bucketVars, listVars>>

------------------------------------------------------------------------------
(* The order of the table.                                                 *)

\* The order of byte strings.
Less(s, t) ==
  \/ IsStrictPrefix(s, t)
  \/ \E i \in DOMAIN s \cap DOMAIN t :
       s[i] < t[i] /\ \A j \in 1..(i - 1) : s[j] = t[j]

\* The members of S as a sequence, in the order lt.
InOrder(S, lt(_, _)) ==
  [i \in 1..Cardinality(S) |->
     CHOOSE x \in S : Cardinality({y \in S : lt(y, x)}) = i - 1]

RowKey(r) == r.key \o <<0, r.version>>

\* Mutant of AfterKey: the scan begins at the key again.
AfterKeyInclusive(k) == k

\* Past every version of k, before every longer key that begins with k.
AfterKey(k) == k \o <<1>>

\* Mutant of AfterPrefix: the first byte is raised in place of the last.
AfterPrefixFirstByte(p) == IF p = <<>> THEN <<1>> ELSE <<p[1] + 1>>

\* Past every key that begins with p.
AfterPrefix(p) ==
  IF p = <<>> THEN <<1>> ELSE Front(p) \o <<Last(p) + 1>>

ScanStart ==
  IF cursor = Missing THEN req.prefix
  ELSE IF cursor.after = "key" THEN AfterKey(cursor.name)
  ELSE AfterPrefix(cursor.name)

\* The committed rows of a scan: it goes on until the first of them that does
\* not begin with the prefix.
Scanned ==
  LET start == ScanStart
      from == {r \in rows : r.state = "Committed" /\ ~ Less(RowKey(r), start)}
      beyond == {r \in from : ~ IsPrefix(req.prefix, r.key)}
  IN  {r \in from : \A s \in beyond : Less(RowKey(r), RowKey(s))}

------------------------------------------------------------------------------
(* What the bucket shows of a key.                                         *)

\* The newest first; rows of the same time stay in the order of the table.
Newer(r, s) ==
  \/ r.last_modified > s.last_modified
  \/ r.last_modified = s.last_modified /\ r.version < s.version

\* Mutant of Latest: the first row of the key in the table is taken.
LatestFirst(k, S) ==
  CHOOSE r \in S : r.key = k /\ \A s \in S : s.key = k => r.version <= s.version

Latest(k, S) ==
  CHOOSE r \in S : r.key = k /\ \A s \in S : s.key = k /\ s # r => Newer(r, s)

KeysOf(S) == {r.key : r \in S}

\* A tombstone hides its key.
Visible(S) == {k \in KeysOf(S) : Latest(k, S).kind = "Object"}

------------------------------------------------------------------------------
(* One page of objects and common prefixes.                                *)

\* The common prefix of k under the delimiter of the request, Missing for none:
\* it ends with the first delimiter after the request's prefix.
CommonPrefix(k) ==
  LET p == Len(req.prefix)
      d == req.delimiter
      at == {e \in (p + Len(d))..Len(k) : SubSeq(k, e - Len(d) + 1, e) = d}
  IN  IF d = Missing \/ at = {} THEN Missing
      ELSE SubSeq(k, 1, CHOOSE e \in at : \A f \in at : e <= f)

Item(k) ==
  IF CommonPrefix(k) = Missing
  THEN [what |-> "object", name |-> k]
  ELSE [what |-> "prefix", name |-> CommonPrefix(k)]

\* parse_max_keys
Limit ==
  IF req.max_keys = Missing \/ req.max_keys > MaxMaxKeys
  THEN MaxMaxKeys ELSE req.max_keys

\* The first Limit members of a sequence, and whether there are more.
PageOf(seq) ==
  LET len == Len(seq)
  IN  [items |-> SubSeq(seq, 1, IF len > Limit THEN Limit ELSE len),
       truncated |-> len > Limit]

NameBefore(a, b) == Less(a.name, b.name)

\* handle_list_objects: the keys of a group follow one another in the table, and
\* the loop passes over all but the first of them, also when the page is full; so
\* the items are taken in the order of their names, each once.
ObjectsPage(scanned) ==
  PageOf(InOrder({Item(k) : k \in Visible(scanned)}, NameBefore))

RowBefore(r, s) == Less(r.key, s.key) \/ (r.key = s.key /\ Newer(r, s))

\* Mutant of VersionsPage: keys already seen are passed over, as in a page of objects.
VersionsPageOnce(scanned) ==
  LET entry(k) == [what |-> "version", name |-> k,
                   version |-> Latest(k, scanned).version, is_latest |-> TRUE]
  IN  PageOf(InOrder({entry(k) : k \in KeysOf(scanned)}, NameBefore))

\* handle_list_object_versions: every committed version, those of a key newest
\* first.  The delimiter plays no part.
VersionsPage(scanned) ==
  LET entry(r) == [what |-> "version", name |-> r.key, version |-> r.version,
                   is_latest |-> r = Latest(r.key, scanned)]
      sorted == InOrder(scanned, RowBefore)
  IN  PageOf([i \in DOMAIN sorted |-> entry(sorted[i])])

Page(scanned) ==
  IF req.op = "versions" THEN VersionsPage(scanned) ELSE ObjectsPage(scanned)

\* Mutant of NextCursor: the token keeps a name, not what kind of name it is.
NextCursorNameOnly(item) == [after |-> "key", name |-> item.name]

\* Where the client goes on after a page that ended with item.  A V2 token holds
\* the cursor of the page.  A V1 marker is a name and comes back as a key, whether
\* it is the NextMarker of the answer or the last key the client saw; so is the
\* key marker of ListObjectVersions.
NextCursor(item) ==
  [after |-> IF req.op = "v2" /\ item.what = "prefix" THEN "prefix" ELSE "key",
   name |-> item.name]

------------------------------------------------------------------------------
(* The requests.                                                           *)

\* An empty marker counts as none; an empty start-after does not.
FirstCursor(r) ==
  IF r.start = Missing \/ (r.op # "v2" /\ r.start = <<>>) THEN Missing
  ELSE [after |-> "key", name |-> r.start]

\* What a listing of rs without pages, prefix or start is to show: the keys with a
\* committed version or, of objects, those where none is newer than some object.
Shown(rs) ==
  LET committed == {r \in rs : r.state = "Committed"}
      current == {r \in committed : \A s \in committed : s.key = r.key => ~ Newer(s, r)}
  IN  KeysOf(IF req.op = "versions" THEN committed
             ELSE {r \in current : r.kind = "Object"})

Init ==
  /\ rows \in Contents
  /\ bucket = TRUE
  /\ req \in Requests
  /\ status = "ready"
  /\ cursor = FirstCursor(req)
  /\ out = <<>>
  /\ pages = 0
  /\ changes = 0
  /\ steady = Shown(rows)
  /\ ever = Shown(rows)

\* require_bucket and the checks of the parameters.
Admit ==
  /\ status = "ready" /\ pages < MaxPages
  /\ status' = IF bucket /\ req.max_keys # 0 THEN "admitted" ELSE "refused"
  /\ UNCHANGED <<bucketVars, req, cursor, out, pages>>

\* The transaction, the answer and what the client makes of it.
ListPage ==
  /\ status = "admitted"
  /\ \E scanned \in {Scanned} : \E page \in {Page(scanned)} :
         /\ out' = out \o page.items
         /\ status' = IF page.truncated THEN "ready" ELSE "done"
         /\ cursor' = IF page.truncated THEN NextCursor(Last(page.items)) ELSE cursor
  /\ pages' = pages + 1
  /\ UNCHANGED <<bucketVars, req>>

------------------------------------------------------------------------------
(* The writes of others.                                                   *)

Write(rs) ==
  /\ changes < MaxChanges
  /\ changes' = changes + 1
  /\ rows' = rs
  /\ steady' = steady \cap Shown(rs)
  /\ ever' = ever \cup Shown(rs)
  /\ UNCHANGED <<bucket, listVars>>

Without(k, v) == {r \in rows : r.key # k \/ r.version # v}

\* A put, a copy, a delete marker or a new upload.  Its last_modified was read
\* before its transaction, so it may be older than what it meets.
PutManifest(r) == Write(Without(r.key, r.version) \cup {r})

DeleteManifest(r) == Write(rows \ {r})

\* The upload goes and the object comes in one transaction.
CompleteMultipart(upload, r) ==
  /\ upload.state = "InProgress" /\ r.state = "Committed" /\ r.kind = "Object"
  /\ r.key = upload.key /\ r.version # upload.version
  /\ Write((Without(r.key, r.version) \ {upload}) \cup {r})

DeleteBucket ==
  /\ bucket /\ rows = {}
  /\ bucket' = FALSE
  /\ UNCHANGED <<rows, changes, steady, ever, listVars>>

Next ==
  \/ Admit
  \/ ListPage
  \/ \E r \in Writable : PutManifest(r)
  \/ \E r \in rows : DeleteManifest(r)
  \/ \E u \in rows, r \in Writable : CompleteMultipart(u, r)
  \/ DeleteBucket

\* The server answers, and the client asks for the next page.
Spec == Init /\ [][Next]_vars /\ WF_vars(Admit) /\ WF_vars(ListPage)

------------------------------------------------------------------------------
(* Properties.                                                             *)

\* Is k something the request asks for?  A start that comes before the prefix is
\* left out: there the scan meets a key without the prefix and ends at once.
Asked(k) ==
  /\ IsPrefix(req.prefix, k)
  /\ \/ req.start = Missing
     \/ Less(req.start, k) /\ ~ Less(req.start, req.prefix)

Covers(item, k) ==
  IF item.what = "prefix" THEN IsPrefix(item.name, k) ELSE item.name = k

\* Does the item tell what is current under k?
Current(item, k) ==
  Covers(item, k) /\ (item.what = "version" => item.is_latest)

\* Nothing is lost between two pages: a key that the bucket shows all through the
\* listing is on some page, on its own or in its common prefix or, in a listing of
\* versions, with the version that is current, whatever is written, hidden or
\* removed around it, and wherever the pages are cut.
NothingMissed ==
  status = "done" =>
    \A k \in steady : Asked(k) => \E i \in DOMAIN out : Current(out[i], k)

\* Nothing comes back: across all pages the names ascend, so that each key and
\* each common prefix is listed once.  The versions of a key share its name.  In a
\* V1 listing the common prefix that a page ended with may be listed again.
ListedOnce ==
  \A i, j \in DOMAIN out : i < j =>
    \/ Less(out[i].name, out[j].name)
    \/ /\ req.op = "versions"
       /\ out[i].name = out[j].name /\ out[i].version # out[j].version
    \/ /\ req.op = "v1"
       /\ out[i] = out[j] /\ out[i].what = "prefix"

\* Nothing is made up: whatever is listed is what was asked for, and the bucket has
\* shown it at some moment since the listing began.  A key that was hidden by a
\* delete marker or existed as an upload only is on no page.
NothingInvented ==
  \A i \in DOMAIN out :
    \E k \in ever : IsPrefix(req.prefix, k) /\ Covers(out[i], k)

\* The listing comes to an end: no page is answered with a cursor that leads back
\* to it.  Only a V1 listing with a delimiter may go on for ever.
ListingEnds ==
  (req.op # "v1" \/ req.delimiter = Missing)
    ~> (status \in {"done", "refused"})

\* Did page n end with a version of k?
EndedWith(n, k) == n * Limit \in DOMAIN out /\ out[n * Limit].name = k

\* "List all committed versions and delete markers" (list_object_versions), when
\* nothing is written meanwhile, is true but for the ends of pages: a version is on
\* no page only when one ended among the versions of its key, since there is no
\* version-id marker to go on from.
VersionsLostAtSeams ==
  status = "done" /\ req.op = "versions" /\ changes = 0 =>
    \A r \in rows :
      r.state = "Committed" /\ Asked(r.key) =>
        \/ \E i \in DOMAIN out : out[i].name = r.key /\ out[i].version = r.version
        \/ \E n \in 1..pages : EndedWith(n, r.key)

==============================================================================
