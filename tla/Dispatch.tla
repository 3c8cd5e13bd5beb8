------------------------------ MODULE Dispatch ------------------------------
(***************************************************************************)
(* What decides how a request is treated, as functions of the request and  *)
(* of a configuration: the configuration file (config.rs), signatures      *)
(* (http/middleware), addressing (s3/addressing.rs), the routing table     *)
(* (s3/dispatch.rs) and the filters of webhook subscriptions (events.rs).  *)
(*                                                                         *)
(* A request keeps what these look at:                                     *)
(*   method                                                                *)
(*   host    the bucket in a virtual-hosted Host header, NoBucket if none  *)
(*   path    the segments of the path; an object key is the rest of them   *)
(*   has     the query parameters and the headers that routing looks for   *)
(*   bad     those of them whose value does not parse                      *)
(*   signer  the access key it is signed with                              *)
(*   sound   the signature is well formed and is that of this request      *)
(*   age     time since it was signed, negative if the clocks disagree     *)
(*   expires the lifetime of a presigned URL, NotPresigned if the          *)
(*           signature is in a header                                      *)
(***************************************************************************)
EXTENDS Integers, Sequences, FiniteSetsExt

CONSTANTS
  NoBucket,   \* no bucket in a Host header; a subscription to every bucket
  ValidNames, \* names that validate_bucket_name accepts
  NoConfig,   \* load_config failed
  NoCert,     \* TLS is not configured
  NotPresigned,
  Skew,       \* CLOCK_SKEW_SECS
  MaxExpires  \* MAX_EXPIRES

EventTypes == {"ObjectCreatedPut", "ObjectCreatedPost", "ObjectCreatedCopy",
               "ObjectCreatedCompleteMultipartUpload", "ObjectRemovedDelete",
               "ObjectRemovedDeleteMarkerCreated"}

------------------------------------------------------------------------------
(* Configuration.                                                          *)

\* load_config.  A file is rejected as a whole when it is not valid TOML, when a
\* webhook names an unknown event, or when only one of the two TLS paths is set.
LoadConfig(file) ==
  IF /\ file.toml
     /\ \A w \in file.webhooks : w.events \subseteq EventTypes
     /\ file.cert = NoCert <=> file.key = NoCert
  THEN [root |-> file.root, virtual |-> file.virtual,
        subs |-> file.webhooks, tls |-> file.cert]
  ELSE NoConfig

\* matches_subscription.  keys are the object keys that the prefix and suffix
\* of the subscription admit; no event types means all.
Matches(sub, event) ==
  /\ sub.bucket \in {NoBucket, event.bucket}
  /\ sub.events = {} \/ event.type \in sub.events
  /\ event.key \in sub.keys

------------------------------------------------------------------------------
(* Signatures.                                                             *)

\* build_app: two paths are served, or answered 405, ahead of everything else
\* and unsigned, whatever the Host header says.
Public(q) == q.path \in {<<"health">>, <<"metrics">>}

\* The dates that presigned::verify accepts.  The skew bounds the age of a URL
\* as well, so that one with a longer lifetime does not live that long.  The
\* library that verifies signed headers has a skew of its own, taken as the same.
InTime(q) ==
  /\ -Skew <= q.age /\ q.age <= Skew
  /\ q.expires # NotPresigned => q.expires \in 1 .. MaxExpires /\ q.age <= q.expires

\* presigned::verify or, for signed headers, sigv4_validate_request with
\* RootKeyService.
Authentic(q, config) == q.signer = config.root /\ q.sound /\ InTime(q)

\* sigv4_mw lets CORS preflights through unsigned.
Admitted(q, config) == q.method = "OPTIONS" \/ Authentic(q, config)

------------------------------------------------------------------------------
(* Addressing.                                                             *)

\* extract: virtual-hosted if the endpoint host is configured and the Host
\* header names a bucket under it, else the first segment of the path.
Address(q, config) ==
  IF config.virtual /\ q.host # NoBucket
  THEN [bucket |-> q.host, key |-> q.path]
  ELSE IF q.path = <<>> THEN [bucket |-> NoBucket, key |-> <<>>]
  ELSE [bucket |-> Head(q.path), key |-> Tail(q.path)]

Level(a) ==
  IF a.bucket = NoBucket THEN "service"
  ELSE IF a.key = <<>> THEN "bucket" ELSE "object"

------------------------------------------------------------------------------
(* Routing.                                                                *)

Arm(method, level, needs, handler) ==
  [method |-> method, levels |-> {level}, needs |-> needs, handler |-> handler]

\* The arms of the match in dispatch::handle, in their order.
Arms == <<
  Arm("GET", "service", {}, "list_buckets"),
  Arm("PUT", "bucket", {"versioning"}, "put_bucket_versioning"),
  Arm("GET", "bucket", {"versioning"}, "get_bucket_versioning"),
  Arm("GET", "bucket", {"location"}, "get_bucket_location"),
  Arm("GET", "bucket", {"versions"}, "list_object_versions"),
  Arm("PUT", "bucket", {"cors"}, "put_bucket_cors"),
  Arm("GET", "bucket", {"cors"}, "get_bucket_cors"),
  Arm("DELETE", "bucket", {"cors"}, "delete_bucket_cors"),
  Arm("PUT", "bucket", {"object-lock"}, "put_bucket_object_lock_config"),
  Arm("GET", "bucket", {"object-lock"}, "get_bucket_object_lock_config"),
  Arm("PUT", "bucket", {"lifecycle"}, "put_bucket_lifecycle"),
  Arm("GET", "bucket", {"lifecycle"}, "get_bucket_lifecycle"),
  Arm("DELETE", "bucket", {"lifecycle"}, "delete_bucket_lifecycle"),
  [method |-> "OPTIONS", levels |-> {"bucket", "object"}, needs |-> {}, handler |-> "preflight"],
  Arm("PUT", "bucket", {}, "create_bucket"),
  Arm("DELETE", "bucket", {}, "delete_bucket"),
  Arm("HEAD", "bucket", {}, "head_bucket"),
  Arm("GET", "bucket", {}, "list_objects"),
  Arm("POST", "object", {"uploads"}, "create_multipart_upload"),
  Arm("POST", "object", {"uploadId"}, "complete_multipart_upload"),
  Arm("PUT", "object", {"uploadId", "partNumber", "copy-source"}, "upload_part_copy"),
  Arm("PUT", "object", {"uploadId", "partNumber"}, "upload_part"),
  Arm("DELETE", "object", {"uploadId"}, "abort_multipart_upload"),
  Arm("GET", "object", {"uploadId"}, "list_parts"),
  Arm("PUT", "object", {"tagging"}, "put_object_tagging"),
  Arm("GET", "object", {"tagging"}, "get_object_tagging"),
  Arm("DELETE", "object", {"tagging"}, "delete_object_tagging"),
  Arm("PUT", "object", {"retention"}, "put_object_retention"),
  Arm("GET", "object", {"retention"}, "get_object_retention"),
  Arm("PUT", "object", {"legal-hold"}, "put_object_legal_hold"),
  Arm("GET", "object", {"legal-hold"}, "get_object_legal_hold"),
  Arm("PUT", "object", {"copy-source"}, "copy_object"),
  Arm("PUT", "object", {}, "put_object"),
  Arm("GET", "object", {}, "get_object"),
  Arm("HEAD", "object", {}, "head_object"),
  Arm("DELETE", "object", {}, "delete_object") >>

\* The arms that match a request addressed to a.
MatchingArms(q, a) ==
  {i \in DOMAIN Arms : /\ Arms[i].method = q.method
                       /\ Level(a) \in Arms[i].levels
                       /\ Arms[i].needs \subseteq q.has}

\* Mutant of ChosenArm: the arm of upload_part stands above that of
\* upload_part_copy.
PartArmMoved(q, a) ==
  LET part == {i \in MatchingArms(q, a) : Arms[i].handler = "upload_part"}
  IN  Min(IF part = {} THEN MatchingArms(q, a) ELSE part)

\* A match takes the first arm that fits.
ChosenArm(q, a) == Min(MatchingArms(q, a))

\* Whether the request gets as far as its handler: it is addressed to a bucket
\* with a valid name or to none, an arm matches, and what the arm itself parses
\* (a part number, a copy source) is well formed.
Routable(q, a) ==
  /\ a.bucket \in ValidNames \cup {NoBucket}
  /\ MatchingArms(q, a) # {}
  /\ Arms[ChosenArm(q, a)].needs \cap q.bad \cap {"partNumber", "copy-source"} = {}

\* The types of the event that a handler emits when it has succeeded; none for
\* most, and none for the deletion of one version.
EventsOf(handler, q) ==
  CASE handler = "put_object" -> {"ObjectCreatedPut"}
    [] handler = "copy_object" -> {"ObjectCreatedCopy"}
    [] handler = "complete_multipart_upload" ->
         {"ObjectCreatedCompleteMultipartUpload"}
    [] handler = "delete_object" /\ "versionId" \notin q.has ->
         {"ObjectRemovedDelete", "ObjectRemovedDeleteMarkerCreated"}
    [] OTHER -> {}

==============================================================================
