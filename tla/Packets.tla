------------------------------- MODULE Packets --------------------------------
(***************************************************************************)
(* A fax over T.38: the two ends of a call, each a PacketNetwork           *)
(* (network.rs) driven by its worker's frames (sip.rs).  A fax terminal    *)
(* queues IFP packets; each goes out in a UDPTL datagram together with up  *)
(* to three packets before it, as far as the peer's maximum datagram size  *)
(* allows.  Datagrams are lost, doubled and reordered; the receiver        *)
(* recovers what it missed from those that arrive.                         *)
(*                                                                         *)
(* The receiver's recovery is that of the udptl crate, which is external   *)
(* to this repository.  The n-th packet of an end has the sequence number  *)
(* n (modulo 2^16 in the code).  Time is counted in frames since the last  *)
(* activity.  The peer's address is chosen as in module Media.             *)
(***************************************************************************)
EXTENDS Naturals, Sequences, SequencesExt, FiniteSets, FiniteSetsExt

CONSTANTS Ends, Sender,     \* the end that sends the fax
          Faxes,        \* bound: what each end's terminal sends, its sizes and kinds
          MaxQueue,     \* the terminal's queue (1024)
          MaxDatagram,  \* the peer's maximum datagram size
          Patience      \* the watchdog, in frames (30 s)

(* A packet's place in the page, its bytes, and whether it is the fax's data. *)
Packet == [number : Nat, size : Nat \ {0}, data : BOOLEAN]

ASSUME PacketsAssumption ==
    /\ \A e \in Ends : \E o \in Ends : o # e /\ Ends = {e, o}
    /\ Sender \in Ends
    /\ MaxQueue \in Nat \ {0} /\ MaxDatagram \in Nat \ {0} /\ Patience \in Nat \ {0}
    /\ \A f \in Faxes : f \in [Ends -> Seq(Packet)]

VARIABLES
    fax,        \* all packets the terminals want to send
    phase,      \* each end's call: running, hungup (the other end's BYE), over
    produced,   \* how many packets its terminal has produced
    queue,      \* those not yet sent
    sequence, history,
    wire,       \* the datagrams an end has sent, each of which may arrive at any time
    expected,   \* RedundancyReceiver: the next sequence number
    heard,      \* what the end's terminal was given: sequence number and packet
    idle        \* the frames since last_activity

sender == <<produced, queue, sequence, history, wire>>
receiver == <<expected, heard>>
vars == <<fax, phase, sender, receiver, idle>>

Other(e) == CHOOSE o \in Ends : o # e

Init ==
    /\ fax \in Faxes
    /\ phase = [e \in Ends |-> "running"]
    /\ produced = [e \in Ends |-> 0] /\ queue = [e \in Ends |-> <<>>]
    /\ sequence = [e \in Ends |-> 0] /\ history = [e \in Ends |-> <<>>]
    /\ wire = [e \in Ends |-> <<>>]
    /\ expected = [e \in Ends |-> 0] /\ heard = [e \in Ends |-> <<>>]
    /\ idle = [e \in Ends |-> 0]

-----------------------------------------------------------------------------
(* The terminal gives a packet to tx_packet, which refuses it at a full queue. *)
Produce(e) ==
    /\ phase[e] = "running" /\ produced[e] < Len(fax[e])
    /\ produced' = [produced EXCEPT ![e] = @ + 1]
    /\ queue' = IF Len(queue[e]) < MaxQueue
                  THEN [queue EXCEPT ![e] = Append(@, fax[e][produced[e] + 1])]
                  ELSE queue
    /\ UNCHANGED <<fax, phase, sequence, history, wire, receiver, idle>>

(* The bytes of a datagram's packets, which are at most four. *)
Size(packets, i) == IF i \in DOMAIN packets THEN packets[i].size ELSE 0
Bytes(packets) == Size(packets, 1) + Size(packets, 2) + Size(packets, 3) + Size(packets, 4)

(* Mutant: the packets before this one are taken oldest first. *)
RedundantOldestFirst(e, packet) ==
    LET fits == {k \in 0..Min({3, Len(history[e])}) :
                    packet.size + Bytes(SubSeq(history[e], 1, k)) <= MaxDatagram}
    IN  SubSeq(history[e], 1, Max(fits))

(* Mutant: a datagram of exactly the maximum size loses its oldest packet. *)
RedundantTight(e, packet) ==
    LET before == Reverse(history[e])
        fits == {k \in 0..Min({3, Len(before)}) :
                    k = 0 \/ packet.size + Bytes(SubSeq(before, 1, k)) < MaxDatagram}
    IN  SubSeq(before, 1, Max(fits))

(* The newest packets before this one that fit, the newest first. *)
Redundant(e, packet) ==
    LET before == Reverse(history[e])
        fits == {k \in 0..Min({3, Len(before)}) :
                    packet.size + Bytes(SubSeq(before, 1, k)) <= MaxDatagram}
    IN  SubSeq(before, 1, Max(fits))

(* The last three packets sent. *)
Remembered(e, packet) ==
    LET all == Append(history[e], packet)
    IN  IF Len(all) > 3 THEN Tail(all) ELSE all

(* Only the fax's data, not an indicator, counts as activity. *)
Send(e) ==
    /\ phase[e] = "running" /\ queue[e] # <<>>
    /\ LET packet == Head(queue[e])
       IN  /\ packet.size <= MaxDatagram
           /\ wire' = [wire EXCEPT ![e] = Append(@, [sequence |-> sequence[e],
                                                     primary |-> packet,
                                                     redundant |-> Redundant(e, packet)])]
           /\ history' = [history EXCEPT ![e] = Remembered(e, packet)]
           /\ idle' = IF packet.data THEN [idle EXCEPT ![e] = 0] ELSE idle
    /\ sequence' = [sequence EXCEPT ![e] = @ + 1]
    /\ queue' = [queue EXCEPT ![e] = Tail(@)]
    /\ UNCHANGED <<fax, phase, produced, receiver>>

(* A packet that does not fit alone ends the call. *)
CannotSend(e) ==
    /\ phase[e] = "running" /\ queue[e] # <<>> /\ Head(queue[e]).size > MaxDatagram
    /\ phase' = [phase EXCEPT ![e] = "over"]
    /\ UNCHANGED <<fax, sender, receiver, idle>>

(* What the receiver makes of a datagram: those it missed, then the primary. *)
Recovered(e, datagram) ==
    LET missed == datagram.sequence - expected[e]
        known == Min({missed, Len(datagram.redundant)})
    IN  IF datagram.sequence < expected[e] THEN <<>>
        ELSE [i \in 1..known |->
                  [sequence |-> datagram.sequence - (known + 1 - i),
                   packet |-> datagram.redundant[known + 1 - i]]]
             \o <<[sequence |-> datagram.sequence, packet |-> datagram.primary]>>

(* Mutant: every datagram counts as activity. *)
ReceiveAlwaysActive(e, datagram) ==
    LET new == Recovered(e, datagram)
    IN  /\ phase[e] = "running" \/ (phase[e] = "hungup" /\ e = Sender)
        /\ heard' = [heard EXCEPT ![e] = @ \o new]
        /\ expected' = IF new = <<>> THEN expected
                       ELSE [expected EXCEPT ![e] = datagram.sequence + 1]
        /\ idle' = [idle EXCEPT ![e] = 0]
        /\ UNCHANGED <<fax, phase, sender>>

(* A datagram arrives.  One that brings nothing new is no activity. *)
Receive(e, datagram) ==
    LET new == Recovered(e, datagram)
    IN  /\ phase[e] = "running" \/ (phase[e] = "hungup" /\ e = Sender)
        /\ heard' = [heard EXCEPT ![e] = @ \o new]
        /\ expected' = IF new = <<>> THEN expected
                       ELSE [expected EXCEPT ![e] = datagram.sequence + 1]
        /\ idle' = IF new = <<>> THEN idle ELSE [idle EXCEPT ![e] = 0]
        /\ UNCHANGED <<fax, phase, sender>>

(* The end of a frame: the watchdog ends a call that is idle in both directions. *)
EndFrame(e) ==
    /\ phase[e] = "running" /\ queue[e] = <<>>
    /\ IF idle[e] > Patience
         THEN phase' = [phase EXCEPT ![e] = "over"] /\ UNCHANGED idle
         ELSE idle' = [idle EXCEPT ![e] = @ + 1] /\ UNCHANGED phase
    /\ UNCHANGED <<fax, sender, receiver>>

(* The other end's fax is over; its BYE comes.  The fax's sender reads what
   is readable before it ends its call. *)
PeerHangsUp(e) ==
    /\ phase[e] = "running" /\ phase[Other(e)] = "over"
    /\ phase' = [phase EXCEPT ![e] = "hungup"]
    /\ UNCHANGED <<fax, sender, receiver, idle>>

Disconnected(e) ==
    /\ phase[e] = "hungup"
    /\ phase' = [phase EXCEPT ![e] = "over"]
    /\ UNCHANGED <<fax, sender, receiver, idle>>

(* The terminal's fax is complete, or has failed. *)
Completes(e) ==
    /\ phase[e] = "running" /\ queue[e] = <<>> /\ produced[e] = Len(fax[e])
    /\ phase' = [phase EXCEPT ![e] = "over"]
    /\ UNCHANGED <<fax, sender, receiver, idle>>

Over == \A e \in Ends : phase[e] = "over"

Step(e) == Produce(e) \/ Send(e) \/ CannotSend(e) \/ EndFrame(e) \/ Disconnected(e)

Next ==
    \E e \in Ends :
        \/ Step(e) \/ PeerHangsUp(e) \/ Completes(e)
        \/ \E i \in DOMAIN wire[Other(e)] : Receive(e, wire[Other(e)][i])

Spec == Init /\ [][Next]_vars

(* Each worker's frames go on; the network owes nothing. *)
FairSpec == Spec /\ \A e \in Ends : WF_vars(Step(e))

-----------------------------------------------------------------------------
(* Properties. *)

(* The type invariant. *)
TypeOK ==
    /\ phase \in [Ends -> {"running", "hungup", "over"}]
    /\ \A e \in Ends :
          /\ produced[e] \in 0..Len(fax[e])
          /\ Len(queue[e]) <= MaxQueue /\ Len(history[e]) <= 3
          /\ sequence[e] = Len(wire[e]) /\ expected[e] \in 0..sequence[Other(e)]
          /\ idle[e] \in 0..(Patience + 1)
          /\ \A i \in DOMAIN wire[e] :
                wire[e][i].primary.size + Bytes(wire[e][i].redundant) <= MaxDatagram

(* A terminal is given each packet under the number it was sent with, once and in *)
(* order, whether it came as a primary or was recovered from a later datagram.    *)
HeardAsSent ==
    /\ TypeOK
    /\ \A e \in Ends : \A i \in DOMAIN heard[e] :
          /\ heard[e][i].packet = wire[Other(e)][heard[e][i].sequence + 1].primary
          /\ i > 1 => heard[e][i - 1].sequence < heard[e][i].sequence

(* A packet is only missed when four datagrams in a row did not arrive in time, *)
(* or the packets up to the next that did exceed a datagram.                    *)
OnlyLongGaps ==
    [][\A e \in Ends : \A n \in 0..Len(wire[Other(e)]) :
          (expected[e] <= n /\ n < expected'[e]
             /\ expected'[e] - n <= 4
             /\ Bytes([k \in 1..(expected'[e] - n) |-> wire[Other(e)][n + k].primary])
                    <= MaxDatagram) =>
                \E i \in DOMAIN heard'[e] : heard'[e][i].sequence = n]_vars

(* Both ends' calls end, however often old datagrams arrive again: "Duplicate *)
(* datagrams must not keep a stalled call alive" (network.rs).                *)
CallEnds == <>Over
=============================================================================
