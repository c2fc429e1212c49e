------------------------------ MODULE MCCallPump ------------------------------
(***************************************************************************)
(* CallPump for TLC: one call between every two modes of its ends, with    *)
(* MaxSurprises of the refusals, challenges, broken bodies and late        *)
(* answers that the network may come up with.                              *)
(***************************************************************************)
EXTENDS CallPump
=============================================================================
