--------------------------- MODULE MCBackupService ---------------------------
(* Small instances of BackupService for TLC. *)
EXTENDS BackupService, TLC

Symmetry == Permutations(Keys) \cup Permutations(Settings)
=============================================================================
