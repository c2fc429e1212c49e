------------------------------- MODULE MCExport -------------------------------
(* Small instances of the exporter for TLC. *)
EXTENDS Export

(* Where no directory is synced, crashes of the machine are trouble enough. *)
Faults    == [unix |-> 2, windows |-> 0]
NoFaults  == [unix |-> 0, windows |-> 0]
OneFault  == [unix |-> 1, windows |-> 1]
=============================================================================
