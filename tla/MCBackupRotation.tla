--------------------------- MODULE MCBackupRotation ---------------------------
(* Small instances of BackupRotation for TLC: days of two times and of one  *)
(* in turn, two days to a week.                                             *)
EXTENDS BackupRotation, TLC

Days == [t \in 0..MaxTime |-> (2 * t) \div 3]
Weeks == [t \in 0..MaxTime |-> t \div 3]
WriterSymmetry == Permutations(Writers)
=============================================================================
