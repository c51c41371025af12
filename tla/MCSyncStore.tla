----------------------------- MODULE MCSyncStore -----------------------------
(* Small instances of SyncStore for TLC.  Items are symmetric; so are the   *)
(* sessions of an instance whose runs are all on the event loop.            *)
EXTENDS SyncStore, TLC

ItemSymmetry == Permutations(Items)
Symmetry == Permutations(Sessions) \cup ItemSymmetry
=============================================================================
