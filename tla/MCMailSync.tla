------------------------------ MODULE MCMailSync ------------------------------
(* Small instances of MailSync for TLC. *)
EXTENDS MailSync, TLC

RunSymmetry == Permutations(Runs)
=============================================================================
