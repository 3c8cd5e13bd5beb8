----------------------------- MODULE MCService -----------------------------
(***************************************************************************)
(* Requests and configuration files for Service.                           *)
(***************************************************************************)
EXTENDS Service

CONSTANTS r1, bkt, key1, key2, cert1, unsigned

Object == <<bkt, "k">>

Request(method, path, has, signer) ==
  [method |-> method, host |-> NoBucket, path |-> path, has |-> has, bad |-> {},
   signer |-> signer, sound |-> signer # unsigned, age |-> 0, expires |-> NotPresigned]

Presigned(age, expires) ==
  [Request("GET", Object, {}, key1) EXCEPT !.age = age, !.expires = expires]

\* One request changes an object, signed with either root key or by nobody, is a
\* neighbour of that in the routing table, or comes from a presigned URL that
\* has expired, lives, or lives on only by its own lifetime; the other one writes.
MCWorkload ==
  LET changes == {Request("DELETE", Object, {}, key1), Request("PUT", Object, {}, unsigned),
                  [Request("PUT", <<"k">>, {}, key2) EXCEPT !.host = bkt]}
      others ==
        {Request("OPTIONS", Object, {}, unsigned),
         Request("PUT", Object, {"uploadId", "partNumber", "copy-source"}, key1),
         Request("GET", <<bkt>>, {"versioning"}, key1),
         Request("GET", <<"health">>, {}, unsigned),
         Presigned(2, 1), Presigned(1, 2), Presigned(Skew + 1, MaxExpires),
         [Request("PUT", Object, {"uploadId", "partNumber"}, key1) EXCEPT !.bad = {"partNumber"}]}
  IN [r \in Reqs |-> IF r = r1 THEN changes \cup others
                     ELSE {Request("PUT", Object, {}, key1)}]

\* A subscription to everything, and one to the deletions in a bucket.
Everything == [name |-> "all", bucket |-> NoBucket, events |-> {}, keys |-> {<<"k">>}]
Deletions == [name |-> "deletions", bucket |-> bkt,
              events |-> {"ObjectRemovedDelete"}, keys |-> {<<"k">>}]
Misspelt == [name |-> "misspelt", bucket |-> NoBucket, events |-> {"ObjectMoved"}, keys |-> {}]

MCFirstFile == [toml |-> TRUE, root |-> key1, virtual |-> FALSE,
                webhooks |-> {Everything}, cert |-> cert1, key |-> cert1]

\* The first file; one with a new root key, virtual hosting, a second
\* subscription and no TLS; and one that does not load.
MCFiles ==
  {MCFirstFile,
   [MCFirstFile EXCEPT !.root = key2, !.cert = NoCert, !.key = NoCert, !.virtual = TRUE,
                       !.webhooks = {Everything, Deletions}],
   [MCFirstFile EXCEPT !.webhooks = {Misspelt}]}

==============================================================================
