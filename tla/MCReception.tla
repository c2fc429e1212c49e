------------------------------ MODULE MCReception ------------------------------
(* Small instances of the admission handshake for TLC. *)
EXTENDS Reception, TLC

(* Receptions, callers and accounts are each interchangeable. *)
Symmetry == Permutations(Faxes) \cup Permutations(Callers) \cup Permutations(Accounts)
=============================================================================
