------------------------------ MODULE MCPackets -------------------------------
(* Small faxes over T.38 for TLC. *)
EXTENDS Packets

CONSTANTS caller, answerer

TheEnds == {caller, answerer}

Data(n, size) == [number |-> n, size |-> size, data |-> TRUE]
Indicator(n) == [number |-> n, size |-> 1, data |-> FALSE]
Fax(ours, theirs) == [e \in TheEnds |-> IF e = caller THEN ours ELSE theirs]

(* Five packets of a page, which do not all fit in a datagram; an answer and  *)
(* its indicator; packets no datagram can take. *)
TheFaxes ==
    {Fax(<<Data(1, 1), Data(2, 1), Data(3, 2), Data(4, 1), Data(5, 1)>>, <<Indicator(1)>>),
     Fax(<<Indicator(1), Data(2, 2), Data(3, 2)>>, <<Indicator(1), Data(2, 1)>>),
     Fax(<<Data(1, 3), Data(2, 5)>>, <<Data(1, 1)>>)}
=============================================================================
