--------------------------- MODULE MCCalendarSync ---------------------------
(* Small instances of CalendarSync for TLC. *)
EXTENDS CalendarSync, TLC

Symmetry == Permutations(Uids)
=============================================================================
