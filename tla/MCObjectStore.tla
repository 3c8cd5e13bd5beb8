---------------------------- MODULE MCObjectStore ----------------------------
(***************************************************************************)
(* Small instances of ObjectStore for TLC.  Clients and content addresses  *)
(* are only compared for equality, so both are symmetry sets.              *)
(***************************************************************************)
EXTENDS ObjectStore, TLC

DataSymmetry == Permutations(Clients) \cup Permutations(Hashes)

==============================================================================
