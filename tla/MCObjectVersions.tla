-------------------------- MODULE MCObjectVersions --------------------------
(***************************************************************************)
(* Small instances of ObjectVersions for TLC.                              *)
(***************************************************************************)
EXTENDS ObjectVersions, TLC

\* A bucket that has never been versioned and one that was created with object
\* lock and has a default retention, both with rules.
MCConfigurations ==
  {[versioning |-> "Off", enabled |-> FALSE, default_retention |-> Never,
    expiration |-> 1, noncurrent |-> Never, abort |-> 1],
   [versioning |-> "Enabled", enabled |-> TRUE, default_retention |-> 1,
    expiration |-> 1, noncurrent |-> 1, abort |-> Never]}

\* A bucket created with object lock, and nothing else.
LockConfigurations ==
  {[versioning |-> "Enabled", enabled |-> TRUE, default_retention |-> Never,
    expiration |-> Never, noncurrent |-> Never, abort |-> Never]}

\* Buckets whose rules remove what is noncurrent and uploads, so that the sweeper
\* needs no ids of its own.
RuleConfigurations ==
  {[versioning |-> v, enabled |-> FALSE, default_retention |-> Never,
    expiration |-> Never, noncurrent |-> 1, abort |-> 1] :
     v \in {"Enabled", "Suspended"}}

\* No header at all, a precondition, a retention or a legal hold.
MCPutHeaders ==
  [lock : {Never}, cond : Conditions]
    \cup [lock : {[until |-> MaxDate, hold |-> FALSE], [until |-> 0, hold |-> TRUE]},
          cond : {"none"}]

ClientSymmetry == Permutations(Clients)

=============================================================================
