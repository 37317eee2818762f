--------------------------- MODULE MCBackupStore ----------------------------
(* Instances of BackupStore for TLC. *)
EXTENDS BackupStore, TLC

(* Parts are interchangeable, and so are the commands in flight. *)
Symmetry == Permutations(Part) \cup Permutations(Op)
=============================================================================
