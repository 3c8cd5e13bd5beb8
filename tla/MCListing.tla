------------------------------ MODULE MCListing ------------------------------
(***************************************************************************)
(* A small instance of Listing for TLC.  The bytes: 1 is the least that    *)
(* a key can have, 3 is '/', 4 is '0', the byte after '/'.                 *)
(***************************************************************************)
EXTENDS Listing

\* The keys "\1", "0", "0/\1", "0/0" and "00": the last is the first key past the
\* group "0/", and "0" is a prefix of the three that follow it.
MCKeys == {<<1>>, <<4>>, <<4, 3, 1>>, <<4, 3, 4>>, <<4, 4>>}

Object(k, v, t) ==
  [key |-> k, version |-> v, last_modified |-> t, kind |-> "Object", state |-> "Committed"]

Marker(k, v, t) == [Object(k, v, t) EXCEPT !.kind = "Tombstone"]

Upload(k, v) == [Object(k, v, 1) EXCEPT !.state = "InProgress"]

Full == {Object(k, 2, 2) : k \in MCKeys}

\* Nothing; every key; a key that is hidden and one that was hidden; an upload
\* before, and uploads in place of, the keys of a group.
MCContents ==
  {{},
   Full,
   (Full \ {Object(<<4>>, 2, 2)})
      \cup {Object(<<4>>, 2, 1), Marker(<<4>>, 3, 2), Marker(<<4, 3, 4>>, 3, 1)},
   {Object(<<4, 3, 4>>, 2, 2), Object(<<4, 4>>, 2, 1), Object(<<4, 4>>, 3, 2),
    Upload(<<1>>, 3), Upload(<<4, 3, 1>>, 3)}}

\* A new object, a delete marker that may be older than what is there.
MCWritable ==
  {Object(k, 2, 2) : k \in MCKeys} \cup {Marker(k, 3, t) : k \in MCKeys, t \in {1, 2}}

MCRequests ==
  [op : {"v1", "v2", "versions"},
   prefix : {<<>>, <<4>>, <<4, 3>>},
   delimiter : {Missing, <<3>>},
   max_keys : {Missing, 0, 1, 2},
   start : {Missing, <<>>, <<1>>, <<4, 3, 1>>}]

==============================================================================
