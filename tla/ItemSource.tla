----------------------------- MODULE ItemSource -----------------------------
(***************************************************************************)
(* What the syncs promise about the items of the sources, whatever path an *)
(* item takes: `known` holds the keys the ledger knows and `filed` counts  *)
(* the timeline entries each application has of a key.                     *)
(*                                                                         *)
(* An import files only keys the ledger did not know, once in each         *)
(* application it picks, and in one application unless the key may be      *)
(* shared; the ledger knows them from the same moment on.  Nothing but a   *)
(* person files what is known already or moves an entry, and the ledger    *)
(* forgets only when somebody asks for it.                                 *)
(***************************************************************************)
EXTENDS Naturals

CONSTANTS
    Apps,       \* applications
    Keys,       \* what the ledger and the timeline call an item
    Shared      \* keys an import may file in several applications

VARIABLES known, filed

Count == [Apps \X Keys -> Nat]

Init ==
    /\ known = {}
    /\ filed = [p \in Apps \X Keys |-> 0]

(* The entries that appear with the step.                                   *)
Added == {p \in Apps \X Keys : filed'[p] # filed[p]}

(* A run commits: the entries it filed and the keys it marked.              *)
Import ==
    /\ known \subseteq known'
    /\ \A p \in Added :
          /\ filed'[p] = filed[p] + 1
          /\ p[2] \notin known
          /\ p[2] \in known'
    /\ \A p, q \in Added : p[2] = q[2] => p = q \/ p[2] \in Shared

(* A person puts one item into an application's timeline, perhaps taking it *)
(* out of another one's.                                                    *)
Assign ==
    /\ known \subseteq known'
    /\ \E p \in Added :
          /\ filed'[p] = filed[p] + 1
          /\ \A q \in Added \ {p} : q[2] = p[2] /\ filed'[q] + 1 = filed[q]
          /\ known' \subseteq known \cup {p[2]}

(* Resets and deletions.                                                    *)
Forget ==
    /\ known' \subseteq known
    /\ \A p \in Added : filed'[p] < filed[p]

Next == Import \/ Assign \/ Forget

Spec == Init /\ [][Next]_<<known, filed>>
=============================================================================
