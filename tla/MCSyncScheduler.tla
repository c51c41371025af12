--------------------------- MODULE MCSyncScheduler ---------------------------
(* Small instances of SyncScheduler for TLC. *)
EXTENDS SyncScheduler
=============================================================================
