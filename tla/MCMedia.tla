------------------------------- MODULE MCMedia --------------------------------
(* A small instance of a call's audio for TLC. *)
EXTENDS Media

CONSTANTS a, b

(* The gateway, another port of its host, and the address a re-INVITE moves to. *)
Gateway == [ip |-> 1, port |-> 1]
Relay == [ip |-> 1, port |-> 2]
Moved == [ip |-> 2, port |-> 1]

TheStreams == {a, b}
(* Both number and clock of stream a wrap within its first packets. *)
TheFirst == [s \in TheStreams |-> IF s = a THEN [sequence |-> 3, timestamp |-> 62]
                                           ELSE [sequence |-> 1, timestamp |-> 7]]
TheLength == [s \in TheStreams |-> IF s = a THEN 2 ELSE 1]

Of(from, codec_, s, numbers) ==
    {[from |-> from, codec |-> codec_, stream |-> s, number |-> n] : n \in numbers}

TheDatagrams ==
    Of(Gateway, "u", a, {0, 1, 3}) \cup Of(Gateway, "u", b, 0..2)
      \cup Of(Relay, "u", a, 0..2) \cup Of(Gateway, "A", b, {1}) \cup Of(Moved, "u", a, {1})

TheRemotes == {[address |-> Gateway, codec |-> "u"], [address |-> Gateway, codec |-> "A"],
               [address |-> Moved, codec |-> "u"]}
=============================================================================
