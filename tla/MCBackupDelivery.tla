--------------------------- MODULE MCBackupDelivery ---------------------------
(* Small instances of BackupDelivery for TLC: days of two times and of one  *)
(* in turn, two days to a week, as for BackupRotation; each time is a       *)
(* second of its own.                                                       *)
EXTENDS BackupDelivery, TLC

Days == [t \in 0..MaxTime |-> (2 * t) \div 3]
Weeks == [t \in 0..MaxTime |-> t \div 3]
Seconds == [t \in 0..MaxTime |-> t]
WriterSymmetry == Permutations(Writers)
=============================================================================
