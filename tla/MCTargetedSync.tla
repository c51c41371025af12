--------------------------- MODULE MCTargetedSync ---------------------------
(* One item of each kind.  Application 2 has no dated event of its own.     *)
EXTENDS TargetedSync, TLC

MCKind == [i \in Items |-> i]
MCNames == [i \in Items |-> [mail |-> {1}, entry |-> {}, note |-> {1, 2}, call |-> {}, file |-> {1}][i]]
MCFrom == [i \in Items |-> "recruiter"]
MCDay == [i \in Items |-> [mail |-> 1, entry |-> 2, note |-> 1, call |-> 2, file |-> 1][i]]
MCStart == 1 :> 1 @@ 2 :> NoDay
MCCompany == [a \in Apps |-> {}]
=============================================================================
