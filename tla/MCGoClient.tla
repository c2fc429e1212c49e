------------------------------ MODULE MCGoClient ------------------------------
(* Small instances of the Go client for TLC: one Send with everything that *)
(* can happen to it, and two offers for one place in the application.      *)
EXTENDS GoClient

TheWorkloads == {Senders, Offers}
=============================================================================
