------------------------------- MODULE MCQueue -------------------------------
(* Small instances of the outgoing queue for TLC. *)
EXTENDS Queue, TLC

(* Jobs are interchangeable: only equality and the order of their rows,    *)
(* which is state, tell them apart.                                        *)
Symmetry == Permutations(Jobs)
=============================================================================
