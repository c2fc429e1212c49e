-------------------------------- MODULE Media ---------------------------------
(***************************************************************************)
(* The receive path of a G.711 fax call: the RTP socket, the choice of the *)
(* peer's address (nat.rs) and of its stream (network.rs), the ring of     *)
(* samples (playout.rs) and the frame of the call's worker that drives     *)
(* them (sip.rs).                                                          *)
(*                                                                         *)
(* A fax modem hears a damaged page where a sample is missing, doubled or  *)
(* shifted.  Datagrams are lost, doubled and reordered; the peer may send  *)
(* from a port its SDP did not name, restart with a new stream of an       *)
(* unrelated clock, and change the codec or the address by a re-INVITE;    *)
(* the worker may stall.                                                   *)
(*                                                                         *)
(* Time is counted in frames of 20 ms.  A packet is named by its stream    *)
(* and its number in it, a sample by its stream and its place there.  RTP  *)
(* timestamps are counted modulo Wrap, sequence numbers modulo WrapSeq.    *)
(* What the call sends (its own numbers, the modem's output) and the       *)
(* counters that are only logged are left out.                             *)
(***************************************************************************)
EXTENDS Integers, Sequences, SequencesExt, FiniteSetsExt

CONSTANTS Streams,      \* the peer's streams (SSRC)
          First,        \* First[s]: the sequence number and timestamp s begins with
          Length,       \* Length[s]: the samples of each packet of s
          Datagrams,    \* what may arrive: from, codec, stream, number
          Remotes,      \* what a re-INVITE may negotiate: address, codec
          FrameSamples, \* the samples of a frame (160)
          Capacity,     \* the ring's length (the delay and one second)
          Delay,        \* the playout delay
          Wrap, WrapSeq,    \* the widths of timestamps (2^32) and sequence numbers (2^16)
          Patience, Slack, CatchUp,     \* the watchdog (30 s), a stall (250 ms), 64 receptions
          Symmetric,    \* symmetric RTP is allowed
          None,
          MaxClock, MaxArrivals, MaxUpdates     \* bounds

ASSUME MediaAssumption ==
    /\ Capacity \in Nat \ {0} /\ FrameSamples \in 1..Capacity /\ Delay \in Nat \ {0}
    /\ Wrap \in Nat /\ WrapSeq \in Nat \ {0}
    /\ {Patience, Slack, CatchUp, MaxClock, MaxArrivals, MaxUpdates} \subseteq Nat
    /\ 2 * (MaxClock * FrameSamples + 3 * Capacity) <= Wrap  \* of a call: 74 hours of audio
    /\ \A s \in Streams : /\ Length[s] \in 1..Capacity
                          /\ First[s].sequence \in Nat /\ First[s].timestamp \in Nat
    /\ \A d \in Datagrams : /\ d.stream \in Streams /\ d.number \in Nat
                            /\ 2 * (d.number + 1) * Length[d.stream] <= Wrap
    /\ None \notin Streams /\ None \notin Int
    /\ None \notin [stream : Streams, place : Nat, anchor : 0..(Wrap - 1)]
    /\ Symmetric \in BOOLEAN

VARIABLES
    clock,
    phase,          \* what the worker does: idle, receiving, draining, ended, failed
    nextFrame,      \* when the worker's next frame is due
    turns,          \* the receptions of this frame
    signaled, codec,        \* what the last SDP named
    peer,           \* nat.rs: the address, whether it is pinned, the candidate
    source, pending, retired,   \* the selected stream, source_change_pending, the last one
    candidate,      \* the packets of the stream on probation
    lastReceived,
    playout,
    played,         \* all that has left the ring: the samples the modem hears
    taken,          \* the addresses packets were taken from since the SDP named one
    arrivals, updates

route == <<signaled, codec, peer, taken>>
stream == <<source, pending, retired, candidate>>
worker == <<phase, nextFrame, turns>>
bounds == <<arrivals, updates>>
vars == <<clock, worker, route, stream, lastReceived, playout, played, bounds>>

Larger(a, b) == IF a > b THEN a ELSE b

(* A timestamp's difference, as i32. *)
Signed(d) == IF d % Wrap < Wrap \div 2 THEN d % Wrap ELSE (d % Wrap) - Wrap

Sequence(s, n) == (First[s].sequence + n) % WrapSeq
Timestamp(s, n) == (First[s].timestamp + n * Length[s]) % Wrap

(* RTP packets that parse and have a payload; all others only count. *)
Packet(d) ==
    [stream |-> d.stream, number |-> d.number,
     sequence |-> Sequence(d.stream, d.number), timestamp |-> Timestamp(d.stream, d.number)]

NewPeer(address) == [address |-> address, pinned |-> FALSE, candidate |-> None]

Slots == 0..(Capacity - 1)

NewPlayout ==
    [ring |-> [i \in Slots |-> None], anchor |-> None, cursor |-> 0, end |-> 0,
     next |-> None, started |-> FALSE]

Init ==
    /\ \E r \in Remotes :
          signaled = r.address /\ codec = r.codec /\ peer = NewPeer(r.address)
    /\ source = None /\ pending = FALSE /\ retired = None /\ candidate = <<>>
    /\ playout = NewPlayout /\ played = <<>> /\ taken = {}
    /\ clock = 0 /\ lastReceived = 0
    /\ phase = "idle" /\ nextFrame = 0 /\ turns = 0
    /\ arrivals = 0 /\ updates = 0

-----------------------------------------------------------------------------
(* The ring. *)

Silence == [stream |-> None, place |-> 0, anchor |-> None]

(* A new stream's first sample joins the buffered tail. *)
Restart(p, timestamp) ==
    IF p.anchor = None THEN p
    ELSE [p EXCEPT !.anchor = (timestamp - Larger(p.end, p.cursor)) % Wrap]

(* Mutant: the samples the ring holds are not looked at. *)
MovesBackFar(p, offset) == ~p.started /\ offset < p.cursor

(* Mutant: a late packet moves the cursor back during playout as well. *)
MovesBackAlways(p, offset) == offset < p.cursor /\ p.end - offset <= Capacity

(* Before playout starts, preceding samples move the cursor back. *)
MovesBack(p, offset) == ~p.started /\ offset < p.cursor /\ p.end - offset <= Capacity

(* A packet's samples are put at their positions; those that are late, beyond *)
(* the ring, or there already, are dropped. *)
Anchor(p, packet) == IF p.anchor = None THEN packet.timestamp ELSE p.anchor
Offset(p, packet) == Signed(packet.timestamp - Anchor(p, packet))
Cursor(p, x) == IF MovesBack(p, x) THEN x ELSE p.cursor

Written(p, x, length) ==
    {k \in 0..(length - 1) :
        /\ Cursor(p, x) <= x + k /\ x + k < Cursor(p, x) + Capacity
        /\ p.ring[(x + k) % Capacity] = None}

Sample(p, packet, k) ==
    [stream |-> packet.stream, place |-> packet.number * Length[packet.stream] + k,
     anchor |-> Anchor(p, packet)]

Filled(p, packet, x, written) ==
    [i \in Slots |->
        IF \E k \in written : (x + k) % Capacity = i
          THEN Sample(p, packet, CHOOSE k \in written : (x + k) % Capacity = i)
          ELSE p.ring[i]]

Insert(p, packet) ==
    LET x == Offset(p, packet)
        written == Written(p, x, Length[packet.stream])
    IN  [p EXCEPT
            !.anchor = Anchor(p, packet),
            !.next = IF p.anchor = None THEN clock + Delay ELSE @,
            !.cursor = Cursor(p, x),
            !.ring = Filled(p, packet, x, written),
            !.end = Max({@} \cup {x + k + 1 : k \in written})]

(* The next count samples leave; silence stands for those that are missing. *)
Frame(p, count) ==
    [k \in 1..count |->
        LET held == p.ring[(p.cursor + k - 1) % Capacity]
        IN  IF held = None THEN Silence ELSE held]

TakeFrame(p, count) ==
    [p EXCEPT !.ring = [i \in Slots |->
                          IF \E k \in 0..(count - 1) : (p.cursor + k) % Capacity = i
                            THEN None ELSE @[i]],
              !.cursor = @ + count]

(* All that is buffered. *)
Remaining(p) == Larger(p.end - p.cursor, 0)

-----------------------------------------------------------------------------
(* The peer's address. *)

(* The candidate once a packet of that sequence number came from address. *)
Considered(address, packet) ==
    LET known == peer.candidate
        follows == IF known = None THEN FALSE
                   ELSE /\ known.from = address /\ known.stream = packet.stream
                        /\ packet.sequence = (known.sequence + 1) % WrapSeq
    IN  [from |-> address, stream |-> packet.stream, sequence |-> packet.sequence,
         count |-> IF follows THEN known.count + 1 ELSE 1]

Elsewhere(address) == ~Symmetric \/ peer.pinned \/ address.ip # peer.address.ip

(* Mutant: the address of the SDP is not pinned. *)
AcceptUnpinned(address, packet) ==
    IF address = peer.address THEN [taken |-> TRUE, peer |-> peer]
    ELSE IF Elsewhere(address) THEN [taken |-> FALSE, peer |-> peer]
    ELSE LET c == Considered(address, packet)
         IN  IF c.count < 3
               THEN [taken |-> FALSE, peer |-> [peer EXCEPT !.candidate = c]]
               ELSE [taken |-> TRUE,
                     peer |-> [address |-> address, pinned |-> TRUE, candidate |-> c]]

(* A port of the same host is learnt after three packets in sequence. *)
Accept(address, packet) ==
    IF address = peer.address THEN [taken |-> TRUE, peer |-> [peer EXCEPT !.pinned = TRUE]]
    ELSE IF Elsewhere(address) THEN [taken |-> FALSE, peer |-> peer]
    ELSE LET c == Considered(address, packet)
         IN  IF c.count < 3
               THEN [taken |-> FALSE, peer |-> [peer EXCEPT !.candidate = c]]
               ELSE [taken |-> TRUE,
                     peer |-> [address |-> address, pinned |-> TRUE, candidate |-> c]]

-----------------------------------------------------------------------------
(* The peer's stream. *)

(* The candidates once this packet joined them: those it does not follow go. *)
Probation(packet) ==
    IF candidate = <<>> THEN <<packet>>
    ELSE LET previous == Last(candidate)
         IN  IF /\ previous.stream = packet.stream
                /\ packet.sequence = (previous.sequence + 1) % WrapSeq
                /\ packet.timestamp = (previous.timestamp + Length[previous.stream]) % Wrap
               THEN Append(candidate, packet)
               ELSE <<packet>>

(* A packet of another stream during probation. *)
OnProbation(packet) ==
    /\ Len(Probation(packet)) < 3
    /\ candidate' = Probation(packet)
    /\ UNCHANGED <<source, pending, retired, lastReceived, playout>>

InsertAll(p, kept) == Insert(Insert(Insert(p, kept[1]), kept[2]), kept[3])

(* Mutant: the third packet, not the first, joins the tail. *)
EndsProbationAtThird(packet) ==
    LET kept == Probation(packet)
    IN  /\ Len(kept) = 3
        /\ playout' = InsertAll(Restart(playout, packet.timestamp), kept)
        /\ retired' = source /\ source' = packet.stream /\ candidate' = <<>>
        /\ lastReceived' = clock
        /\ UNCHANGED pending

(* The third packet in sequence: the samples of the first two were kept. *)
EndsProbation(packet) ==
    LET kept == Probation(packet)
    IN  /\ Len(kept) = 3
        /\ playout' = InsertAll(Restart(playout, Head(kept).timestamp), kept)
        /\ retired' = source /\ source' = packet.stream /\ candidate' = <<>>
        /\ lastReceived' = clock
        /\ UNCHANGED pending

(* The selected stream, the first one, or the one that follows a new codec. *)
Hears(packet) ==
    LET joins == source # packet.stream
    IN  /\ playout' = Insert(IF joins THEN Restart(playout, packet.timestamp) ELSE playout,
                             packet)
        /\ retired' = IF joins /\ source # None THEN source ELSE retired
        /\ source' = packet.stream /\ pending' = FALSE /\ candidate' = <<>>
        /\ lastReceived' = clock

Foreign(packet) == source # None /\ source # packet.stream

Ignores == UNCHANGED <<stream, lastReceived, playout>>

-----------------------------------------------------------------------------
(* The worker. *)

Tick ==
    /\ phase = "idle" /\ clock < MaxClock
    /\ clock' = clock + 1
    /\ UNCHANGED <<worker, route, stream, lastReceived, playout, played, bounds>>

(* A frame is due; after a stall the clock is set anew. *)
StartFrame ==
    /\ phase = "idle" /\ clock >= nextFrame
    /\ nextFrame' = 1 + (IF clock - nextFrame > Slack THEN clock ELSE nextFrame)
    /\ phase' = "receiving" /\ turns' = 0
    /\ UNCHANGED <<clock, route, stream, lastReceived, playout, played, bounds>>

(* One datagram of receive_packets. *)
Datagram(d) ==
    /\ phase \in {"receiving", "draining"} /\ arrivals < MaxArrivals
    /\ d.codec = codec
    /\ LET packet == Packet(d)
           answer == Accept(d.from, packet)
       IN  /\ peer' = answer.peer
           /\ taken' = IF answer.taken THEN taken \cup {d.from} ELSE taken
           /\ CASE ~answer.taken -> Ignores
                [] answer.taken /\ Foreign(packet) /\ retired = packet.stream -> Ignores
                [] answer.taken /\ Foreign(packet) /\ retired # packet.stream /\ ~pending ->
                      OnProbation(packet) \/ EndsProbation(packet)
                [] answer.taken /\ (Foreign(packet) => retired # packet.stream /\ pending) ->
                      Hears(packet)
    /\ arrivals' = arrivals + 1
    /\ UNCHANGED <<clock, worker, signaled, codec, played, updates>>

Due == playout.next # None /\ playout.next <= clock

(* A reception that gives a frame: the worker asks again, up to CatchUp times. *)
Play ==
    /\ phase = "receiving" /\ Due /\ turns < CatchUp
    /\ turns' = turns + 1
    /\ played' = played \o Frame(playout, FrameSamples)
    /\ playout' = [TakeFrame(playout, FrameSamples) EXCEPT !.next = @ + 1, !.started = TRUE]
    /\ UNCHANGED <<clock, phase, nextFrame, route, stream, lastReceived, bounds>>

(* The worker sends a frame of its own; 30 seconds without audio end the call. *)
EndFrame ==
    /\ phase = "receiving" /\ (Due => turns = CatchUp)
    /\ phase' = IF clock - lastReceived > Patience THEN "failed" ELSE "idle"
    /\ turns' = 0
    /\ UNCHANGED <<clock, nextFrame, route, stream, lastReceived, playout, played, bounds>>

(* A re-INVITE that negotiated audio once more. *)
UpdateRemote(r) ==
    /\ phase = "idle" /\ updates < MaxUpdates
    /\ signaled # r.address \/ codec # r.codec
    /\ IF signaled # r.address
         THEN /\ signaled' = r.address /\ peer' = NewPeer(r.address) /\ taken' = {}
              /\ source' = None /\ pending' = FALSE /\ retired' = None
              /\ lastReceived' = clock
         ELSE /\ pending' = TRUE
              /\ UNCHANGED <<signaled, peer, taken, source, retired, lastReceived>>
    /\ candidate' = <<>> /\ codec' = r.codec
    /\ updates' = updates + 1
    /\ UNCHANGED <<clock, worker, playout, played, arrivals>>

(* The peer hung up: what is readable is read, then all that is buffered is heard. *)
Disconnect ==
    /\ phase = "idle"
    /\ phase' = "draining"
    /\ UNCHANGED <<clock, nextFrame, turns, route, stream, lastReceived, playout, played, bounds>>

Drain ==
    /\ phase = "draining"
    /\ phase' = "ended"
    /\ played' = played \o Frame(playout, Remaining(playout))
    /\ playout' = TakeFrame(playout, Remaining(playout))
    /\ UNCHANGED <<clock, nextFrame, turns, route, stream, lastReceived, bounds>>

Next ==
    \/ Tick \/ StartFrame \/ Play \/ EndFrame \/ Disconnect \/ Drain
    \/ \E d \in Datagrams : Datagram(d)
    \/ \E r \in Remotes : UpdateRemote(r)

Spec == Init /\ [][Next]_vars

-----------------------------------------------------------------------------
(* Properties. *)

Samples == [stream : Streams, place : Nat, anchor : 0..(Wrap - 1)]

(* The type invariant. *)
TypeOK ==
    /\ clock \in Nat /\ nextFrame \in Nat /\ lastReceived \in 0..clock
    /\ phase \in {"idle", "receiving", "draining", "ended", "failed"}
    /\ turns \in 0..CatchUp
    /\ source \in Streams \cup {None} /\ retired \in Streams \cup {None}
    /\ pending \in BOOLEAN
    /\ Len(candidate) < 3 /\ \A i \in DOMAIN candidate : candidate[i].stream \in Streams
    /\ peer.pinned \in BOOLEAN /\ (peer.candidate # None => peer.candidate.count \in 1..3)
    /\ \A i \in Slots : playout.ring[i] \in Samples \cup {None}
    /\ playout.cursor \in Int /\ playout.end \in Int /\ playout.started \in BOOLEAN
    /\ playout.anchor \in 0..(Wrap - 1) \cup {None}

(* The one position of the window that slot i holds, and whether that is where *)
(* a sample belongs. *)
Position(p, i) == p.cursor + ((i - p.cursor) % Capacity)
Belongs(s, x) == (First[s.stream].timestamp + s.place - s.anchor - x) % Wrap = 0

(* Every slot of the ring holds the sample of its own position in the window, *)
(* before the end: moving the cursor back before playout, the wrap of the ring *)
(* and of the timestamps, and a new stream's clock never leave one elsewhere. *)
(* At the end of the call none is left: "Deliver all buffered samples before  *)
(* ending T.30" (playout.rs). *)
RingAgrees ==
    /\ TypeOK
    /\ \A i \in Slots :
          playout.ring[i] # None =>
              /\ phase # "ended" /\ Position(playout, i) < playout.end
              /\ Belongs(playout.ring[i], Position(playout, i))

(* Two samples of one stream are heard as far apart as they were spoken, in   *)
(* order and once, whatever was lost, doubled, late or reordered, however the *)
(* worker stalled, until the stream is joined anew: "Never progressively drop *)
(* samples to reduce latency: that damages fax modem waveforms"               *)
(* (playout.rs). *)
SamplesInPlace ==
    \A i \in DOMAIN played, j \in DOMAIN played :
        (i < j /\ played[i] # Silence /\ played[i].stream = played[j].stream
           /\ played[i].anchor = played[j].anchor) =>
              played[j].place - played[i].place = j - i

Holds(p, s, place) ==
    \E i \in Slots : p.ring[i] # None /\ p.ring[i].stream = s /\ p.ring[i].place = place

(* When a stream ends its probation, its first packets are all buffered, unless *)
(* the ring is full: "Keep the probation samples: they can contain fax         *)
(* training" (network.rs). *)
TrainingKept ==
    [][(source \in Streams /\ source' # source /\ source' # None /\ candidate # <<>>
          /\ Larger(playout.end, playout.cursor) + 3 * Length[source']
                <= playout.cursor + Capacity) =>
          \A k \in 0..(3 * Length[source'] - 1) :
              Holds(playout', source', candidate[1].number * Length[source'] + k)]_vars

(* Packets are taken from one address only between two addresses of the SDP, and *)
(* the call sends to it: "Once selected, pin the peer for the call" (nat.rs). *)
OnePeer == taken \subseteq {peer.address}
=============================================================================
