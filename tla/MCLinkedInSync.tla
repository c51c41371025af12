---------------------------- MODULE MCLinkedInSync ----------------------------
(* Small instances of LinkedInSync for TLC. *)
EXTENDS LinkedInSync, TLC

RunSymmetry == Permutations(Runs) \cup Permutations(Accounts)
=============================================================================
