------------------------------ MODULE MCBackup ------------------------------
(* Backup with interchangeable parts. *)
EXTENDS Backup, TLC

PartSymmetry == Permutations(Parts)

==============================================================================
