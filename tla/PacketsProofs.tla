---------------------------- MODULE PacketsProofs -----------------------------
(***************************************************************************)
(* Theorems of a fax over T.38, for every fax, queue and datagram size.    *)
(***************************************************************************)
EXTENDS Packets, SequenceTheorems, TLAPS

Datagram == [sequence : Nat, primary : Packet, redundant : Seq(Packet)]
Hearing == [sequence : Nat, packet : Packet]

(* The inductive invariant: every variable has its type, *)
Typed ==
    /\ fax \in [Ends -> Seq(Packet)]
    /\ phase \in [Ends -> {"running", "hungup", "over"}]
    /\ produced \in [Ends -> Nat] /\ queue \in [Ends -> Seq(Packet)]
    /\ sequence \in [Ends -> Nat] /\ history \in [Ends -> Seq(Packet)]
    /\ wire \in [Ends -> Seq(Datagram)]
    /\ expected \in [Ends -> Nat] /\ heard \in [Ends -> Seq(Hearing)]
    /\ idle \in [Ends -> Nat]

(* the counters stay within their bounds, *)
Bounded ==
    \A e \in Ends :
        /\ produced[e] <= Len(fax[e]) /\ Len(queue[e]) <= MaxQueue
        /\ idle[e] <= Patience + 1
        /\ sequence[e] = Len(wire[e]) /\ expected[e] <= Len(wire[Other(e)])

(* the history is the last three packets sent, *)
Kept(e) ==
    /\ Len(history[e]) = IF Len(wire[e]) <= 3 THEN Len(wire[e]) ELSE 3
    /\ \A k \in 1..Len(history[e]) :
          history[e][k] = wire[e][Len(wire[e]) - Len(history[e]) + k].primary

(* the i-th datagram of a wire carries the i-th packet and the packets just  *)
(* before it, as many of three as fit,                                       *)
Numbered(w, i) == w[i].sequence = i - 1

Repeats(w, i) ==
    /\ Len(w[i].redundant) <= 3 /\ Len(w[i].redundant) < i
    /\ \A k \in 1..Len(w[i].redundant) : w[i].redundant[k] = w[i - k].primary
    /\ w[i].primary.size + Bytes(w[i].redundant) <= MaxDatagram

Held(w, i) == IF i \in DOMAIN w THEN w[i].primary.size ELSE 0

Greedy(w, i) ==
    /\ 2 <= i /\ Held(w, i) + Held(w, i - 1) <= MaxDatagram =>
          1 <= Len(w[i].redundant)
    /\ 3 <= i /\ Held(w, i) + Held(w, i - 1) + Held(w, i - 2) <= MaxDatagram =>
          2 <= Len(w[i].redundant)
    /\ 4 <= i /\ Held(w, i) + Held(w, i - 1) + Held(w, i - 2) + Held(w, i - 3)
                    <= MaxDatagram =>
          3 <= Len(w[i].redundant)

Sent(e) ==
    \A i \in 1..Len(wire[e]) :
        Numbered(wire[e], i) /\ Repeats(wire[e], i) /\ Greedy(wire[e], i)

(* and what a terminal heard is what the other end sent, in order. *)
Faithful(e) ==
    \A i \in 1..Len(heard[e]) :
        /\ heard[e][i].sequence < expected[e]
        /\ heard[e][i].packet = wire[Other(e)][heard[e][i].sequence + 1].primary
        /\ i > 1 => heard[e][i - 1].sequence < heard[e][i].sequence

Inv == Typed /\ Bounded /\ \A e \in Ends : Kept(e) /\ Sent(e) /\ Faithful(e)

-----------------------------------------------------------------------------
(* Each end has one other end, and is that end's other. *)
LEMMA OtherEnd ==
    ASSUME NEW e \in Ends
    PROVE  /\ Other(e) \in Ends /\ Other(e) # e
           /\ Ends = {e, Other(e)} /\ Other(Other(e)) = e
  <1>1. Other(e) \in Ends /\ Other(e) # e /\ Ends = {e, Other(e)}
    BY PacketsAssumption DEF Other
  <1>2. Other(Other(e)) \in Ends /\ Other(Other(e)) # Other(e)
    BY <1>1, PacketsAssumption DEF Other
  <1> QED
    BY <1>1, <1>2

(* The largest of a few small numbers with zero among them. *)
LEMMA MaxOfFew ==
    ASSUME NEW S \in SUBSET (0..3), 0 \in S
    PROVE  Max(S) \in S /\ \A k \in S : k <= Max(S)
  <1>1. \E x \in S : \A y \in S : x >= y
    <2>1. CASE 3 \in S
      BY <2>1
    <2>2. CASE 3 \notin S /\ 2 \in S
      BY <2>2
    <2>3. CASE 3 \notin S /\ 2 \notin S /\ 1 \in S
      BY <2>3
    <2>4. CASE 3 \notin S /\ 2 \notin S /\ 1 \notin S
      BY <2>4
    <2> QED
      BY <2>1, <2>2, <2>3, <2>4
  <1>2. Max(S) \in S /\ \A y \in S : Max(S) >= y
    BY <1>1 DEF Max
  <1> QED
    BY <1>2

(* The smaller of two numbers. *)
LEMMA MinOfTwo ==
    ASSUME NEW a \in Nat, NEW b \in Nat
    PROVE  Min({a, b}) = IF a <= b THEN a ELSE b
  <1>1. \E x \in {a, b} : \A y \in {a, b} : x <= y
    BY DEF Min
  <1>2. Min({a, b}) \in {a, b} /\ \A y \in {a, b} : Min({a, b}) <= y
    BY <1>1 DEF Min
  <1> QED
    BY <1>2

(* A length of at most three is one of four numbers. *)
LEMMA AtMostThree ==
    ASSUME NEW l \in Nat, l <= 3
    PROVE  \E c \in 0..3 : l = c
  OBVIOUS

(* A datagram repeats the newest packets of the history, the newest first: as *)
(* many as fit beside its own.                                                *)
LEMMA RedundantOf ==
    ASSUME NEW e \in Ends, NEW h \in Seq(Packet), history[e] = h,
           NEW n \in 0..3, Len(h) = n,
           NEW packet \in Packet, packet.size <= MaxDatagram
    PROVE  LET r == Redundant(e, packet)
           IN  /\ r \in Seq(Packet) /\ Len(r) <= n
               /\ \A k \in 1..Len(r) : r[k] = h[n - k + 1]
               /\ packet.size + Bytes(r) <= MaxDatagram
               /\ 1 <= n /\ packet.size + h[n].size <= MaxDatagram => 1 <= Len(r)
               /\ 2 <= n /\ packet.size + h[n].size + h[n - 1].size <= MaxDatagram =>
                     2 <= Len(r)
               /\ 3 <= n /\ packet.size + h[n].size + h[n - 1].size + h[n - 2].size
                               <= MaxDatagram =>
                     3 <= Len(r)
  <1> DEFINE before == Reverse(h)
             cut(k) == SubSeq(before, 1, k)
             fits == {k \in 0..Min({3, Len(before)}) :
                         packet.size + Bytes(cut(k)) <= MaxDatagram}
  <1>1. MaxDatagram \in Nat /\ packet.size \in Nat
    BY PacketsAssumption DEF Packet
  <1>2. /\ before \in Seq(Packet) /\ Len(before) = n
        /\ \A i \in 1..n : before[i] = h[n - i + 1]
    <2>1. \A i \in 1..n : h[n - i + 1] \in Packet
      BY <1>1, ElementOfSeq
    <2> QED
      BY <1>1, <2>1 DEF Reverse
  <1>3. ASSUME NEW k \in 0..n
        PROVE  /\ cut(k) \in Seq(Packet) /\ Len(cut(k)) = k
               /\ \A i \in 1..k : cut(k)[i] = h[n - i + 1]
    <2>1. \A i \in 1..k : before[i] \in Packet
      BY <1>1, <1>2, ElementOfSeq
    <2>2. /\ cut(k) \in Seq(Packet) /\ Len(cut(k)) = IF 1 <= k THEN k - 1 + 1 ELSE 0
          /\ \A i \in 1..(k - 1 + 1) : cut(k)[i] = before[1 + i - 1]
      BY <1>1, <2>1, SubSeqProperties
    <2> QED
      BY <1>1, <1>2, <2>2
  <1>4. ASSUME NEW k \in 0..n, NEW i \in 1..4
        PROVE  Size(cut(k), i) = IF i <= k THEN h[n - i + 1].size ELSE 0
    <2> HIDE DEF cut
    <2>1. DOMAIN cut(k) = 1..k
      BY <1>3, LenProperties
    <2>2. CASE i <= k
      <3>1. i \in 1..k
        BY <2>2
      <3>2. cut(k)[i] = h[n - i + 1] /\ i \in DOMAIN cut(k)
        BY <1>3, <2>1, <3>1
      <3> QED
        BY <2>2, <3>2 DEF Size
    <2>3. CASE k < i
      <3>1. i \notin DOMAIN cut(k) /\ ~(i <= k)
        BY <2>1, <2>3
      <3> QED
        BY <3>1 DEF Size
    <2> QED
      BY <2>2, <2>3
  <1>5. \A i \in 1..n : h[i].size \in Nat
    <2>1. \A i \in 1..n : h[i] \in Packet
      BY ElementOfSeq
    <2> QED
      BY <2>1 DEF Packet
  <1>6. /\ Bytes(cut(0)) = 0
        /\ 1 <= n => Bytes(cut(1)) = h[n].size
        /\ 2 <= n => Bytes(cut(2)) = h[n].size + h[n - 1].size
        /\ 3 <= n => Bytes(cut(3)) = h[n].size + h[n - 1].size + h[n - 2].size
    <2> HIDE DEF cut
    <2>1. ASSUME NEW k \in 0..n
          PROVE  /\ Size(cut(k), 1) = IF 1 <= k THEN h[n].size ELSE 0
                 /\ Size(cut(k), 2) = IF 2 <= k THEN h[n - 1].size ELSE 0
                 /\ Size(cut(k), 3) = IF 3 <= k THEN h[n - 2].size ELSE 0
                 /\ Size(cut(k), 4) = 0
      <3>1. \A i \in 1..4 : Size(cut(k), i) = IF i <= k THEN h[n - i + 1].size ELSE 0
        BY <1>4
      <3>2. n - 1 + 1 = n /\ n - 2 + 1 = n - 1 /\ n - 3 + 1 = n - 2 /\ ~(4 <= k)
        OBVIOUS
      <3> QED
        BY <3>1, <3>2
    <2>2. Bytes(cut(0)) = 0
      BY <2>1 DEF Bytes
    <2>3. ASSUME 1 <= n PROVE Bytes(cut(1)) = h[n].size
      BY <1>5, <2>1, <2>3 DEF Bytes
    <2>4. ASSUME 2 <= n PROVE Bytes(cut(2)) = h[n].size + h[n - 1].size
      BY <1>5, <2>1, <2>4 DEF Bytes
    <2>5. ASSUME 3 <= n PROVE Bytes(cut(3)) = h[n].size + h[n - 1].size + h[n - 2].size
      BY <1>5, <2>1, <2>5 DEF Bytes
    <2> QED
      BY <2>2, <2>3, <2>4, <2>5
  <1>7. fits = {k \in 0..n : packet.size + Bytes(cut(k)) <= MaxDatagram}
    BY <1>1, <1>2, MinOfTwo
  <1>8. Max(fits) \in fits /\ \A k \in fits : k <= Max(fits)
    <2> HIDE DEF cut, fits
    <2>1. 0 \in fits
      BY <1>1, <1>6, <1>7
    <2>2. fits \in SUBSET (0..3)
      BY <1>7
    <2> QED
      BY <2>1, <2>2, MaxOfFew
  <1>9. Redundant(e, packet) = cut(Max(fits))
    BY DEF Redundant
  <1>10. \A k \in 0..n : packet.size + Bytes(cut(k)) <= MaxDatagram => k <= Max(fits)
    BY <1>7, <1>8
  <1>11. Max(fits) \in 0..n /\ packet.size + Bytes(cut(Max(fits))) <= MaxDatagram
    BY <1>7, <1>8
  <1> HIDE DEF cut, fits, before
  <1>12. /\ cut(Max(fits)) \in Seq(Packet) /\ Len(cut(Max(fits))) = Max(fits)
         /\ \A i \in 1..Max(fits) : cut(Max(fits))[i] = h[n - i + 1]
    BY <1>3, <1>11
  <1>13. ASSUME 1 <= n, packet.size + h[n].size <= MaxDatagram PROVE 1 <= Max(fits)
    BY <1>6, <1>10, <1>13
  <1>14. ASSUME 2 <= n, packet.size + h[n].size + h[n - 1].size <= MaxDatagram
         PROVE  2 <= Max(fits)
    BY <1>1, <1>5, <1>6, <1>10, <1>14
  <1>16. ASSUME 3 <= n,
                packet.size + h[n].size + h[n - 1].size + h[n - 2].size <= MaxDatagram
         PROVE  3 <= Max(fits)
    BY <1>1, <1>5, <1>6, <1>10, <1>16
  <1>15. /\ Redundant(e, packet) \in Seq(Packet) /\ Len(Redundant(e, packet)) <= n
         /\ \A k \in 1..Len(Redundant(e, packet)) : Redundant(e, packet)[k] = h[n - k + 1]
         /\ packet.size + Bytes(Redundant(e, packet)) <= MaxDatagram
         /\ Len(Redundant(e, packet)) = Max(fits)
    BY <1>1, <1>9, <1>11, <1>12
  <1> QED
    BY <1>13, <1>14, <1>15, <1>16

(* The new history is the old one and the packet, without the oldest of four. *)
LEMMA RememberedOf ==
    ASSUME NEW e \in Ends, NEW h \in Seq(Packet), history[e] = h, Len(h) <= 3,
           NEW packet \in Packet
    PROVE  LET new == Remembered(e, packet)
               n == Len(h)
           IN  /\ new \in Seq(Packet)
               /\ Len(new) = IF n <= 2 THEN n + 1 ELSE 3
               /\ \A k \in 1..Len(new) : new[k] = Append(h, packet)[n + 1 - Len(new) + k]
  <1> DEFINE all == Append(h, packet)
             new == Remembered(e, packet)
  <1>1. all \in Seq(Packet) /\ Len(all) = Len(h) + 1 /\ all # <<>> /\ Len(h) \in Nat
    BY AppendProperties, LenProperties
  <1>2. new = IF Len(all) > 3 THEN Tail(all) ELSE all
    BY DEF Remembered
  <1>3. /\ Tail(all) \in Seq(Packet) /\ Len(Tail(all)) = Len(all) - 1
        /\ \A i \in 1..Len(Tail(all)) : Tail(all)[i] = all[i + 1]
    BY <1>1, HeadTailProperties
  <1> HIDE DEF all, new
  <1>4. CASE Len(h) <= 2
    <2>1. new = all
      BY <1>1, <1>2, <1>4
    <2>2. Len(new) = Len(h) + 1
      BY <1>1, <2>1
    <2>3. ASSUME NEW k \in 1..Len(new) PROVE Len(h) + 1 - Len(new) + k = k
      BY <1>1, <2>2
    <2>4. \A k \in 1..Len(new) : new[k] = all[Len(h) + 1 - Len(new) + k]
      BY <2>1, <2>3
    <2> QED
      BY <1>1, <1>4, <2>1, <2>2, <2>4 DEF all, new
  <1>5. CASE ~(Len(h) <= 2)
    <2>1. new = Tail(all)
      BY <1>1, <1>2, <1>5
    <2>2. Len(new) = 3 /\ Len(h) = 3
      BY <1>1, <1>3, <1>5, <2>1
    <2>3. ASSUME NEW k \in 1..Len(new) PROVE Len(h) + 1 - Len(new) + k = k + 1
      BY <2>2
    <2>4. \A k \in 1..Len(new) : new[k] = all[Len(h) + 1 - Len(new) + k]
      BY <1>3, <2>1, <2>3
    <2> QED
      BY <1>1, <1>3, <1>5, <2>1, <2>2, <2>4 DEF all, new
  <1> QED
    BY <1>4, <1>5

(* What a datagram brings its receiver: a run of packets that ends with the     *)
(* datagram's own, none of them heard before, each as the other end sent it, as *)
(* far back as the datagram repeats or the receiver misses them.                *)
LEMMA RecoveredOf ==
    ASSUME NEW e \in Ends, NEW d \in Datagram, NEW j \in Nat, d.sequence = j - 1,
           NEW w, d.primary = w[j].primary,
           Len(d.redundant) <= 3, Len(d.redundant) < j,
           \A k \in 1..Len(d.redundant) : d.redundant[k] = w[j - k].primary,
           expected[e] \in Nat
    PROVE  LET new == Recovered(e, d)
               n == Len(new)
           IN  /\ new \in Seq(Hearing)
               /\ d.sequence < expected[e] => new = <<>>
               /\ expected[e] <= d.sequence =>
                    /\ n \in Nat /\ 1 <= n /\ n <= 4 /\ n - 1 <= j - 1 - expected[e]
                    /\ n - 1 = j - 1 - expected[e] \/ n - 1 = Len(d.redundant)
                    /\ \A i \in 1..n : /\ new[i].sequence = j - 1 - n + i
                                       /\ new[i].packet = w[j - n + i].primary
  <1> DEFINE r == d.redundant
             missed == d.sequence - expected[e]
             known == Min({missed, Len(r)})
             old == [i \in 1..known |-> [sequence |-> d.sequence - (known + 1 - i),
                                         packet |-> r[known + 1 - i]]]
             last == [sequence |-> d.sequence, packet |-> d.primary]
             new == Recovered(e, d)
  <1>1. d.sequence \in Nat /\ j \in Nat \ {0} /\ expected[e] \in Nat
    BY DEF Datagram
  <1>2. r \in Seq(Packet) /\ Len(r) \in Nat /\ Len(r) <= 3 /\ Len(r) < j
    <2>1. r \in Seq(Packet)
      BY DEF Datagram
    <2>2. Len(r) \in Nat
      BY <2>1, LenProperties
    <2> QED
      BY <2>1, <2>2
  <1>3. CASE d.sequence < expected[e]
    <2>1. new = <<>>
      BY <1>3 DEF Recovered
    <2>2. <<>> \in Seq(Hearing)
      BY EmptySeq
    <2> QED
      BY <1>1, <1>3, <2>1, <2>2
  <1>4. CASE expected[e] <= d.sequence
    <2>1. missed \in Nat /\ missed = j - 1 - expected[e]
      BY <1>1, <1>4
    <2> HIDE DEF missed, r
    <2>14. known = IF missed <= Len(r) THEN missed ELSE Len(r)
      BY <1>2, <2>1, MinOfTwo
    <2> HIDE DEF known
    <2>2. known \in Nat /\ known <= 3 /\ known <= missed /\ known <= Len(r)
          /\ (known = missed \/ known = Len(r))
      BY <1>2, <2>1, <2>14
    <2>3. \A i \in 1..known : old[i] \in Hearing
      <3> SUFFICES ASSUME NEW i \in 1..known
                   PROVE  old[i] \in Hearing
        OBVIOUS
      <3>1. known + 1 - i \in 1..Len(r)
        BY <1>2, <2>2
      <3>2. r[known + 1 - i] \in Packet
        BY <1>2, <3>1, ElementOfSeq
      <3>3. d.sequence - (known + 1 - i) \in Nat
        BY <1>1, <1>2, <2>2
      <3> QED
        BY <3>2, <3>3 DEF Hearing
    <2>4. old \in Seq(Hearing) /\ Len(old) = known
      <3>1. old \in [1..known -> Hearing]
        BY <2>3
      <3>2. DOMAIN old = 1..known /\ known \in Nat
        BY <2>2
      <3> HIDE DEF old
      <3> QED
        BY <3>1, <3>2
    <2>5. last \in Hearing
      BY <1>1 DEF Hearing, Datagram
    <2>6. <<last>> \in Seq(Hearing) /\ Len(<<last>>) = 1 /\ <<last>>[1] = last
      BY <2>5
    <2>7. new = old \o <<last>>
      <3>1. ~(d.sequence < expected[e])
        BY <1>1, <1>4
      <3> QED
        BY <3>1, Zenon DEF Recovered, known, missed, r
    <2>8. /\ new \in Seq(Hearing) /\ Len(new) = known + 1
          /\ \A i \in 1..(known + 1) :
                new[i] = IF i <= known THEN old[i] ELSE <<last>>[i - known]
      <3> HIDE DEF old, last, new
      <3> QED
        BY <2>4, <2>6, <2>7, ConcatProperties
    <2>9. ASSUME NEW i \in 1..(known + 1)
          PROVE  /\ new[i].sequence = j - 1 - (known + 1) + i
                 /\ new[i].packet = w[j - (known + 1) + i].primary
      <3>1. CASE i <= known
        <4>1. i \in 1..known /\ known + 1 - i \in 1..Len(r)
          BY <1>2, <2>2, <3>1
        <4>2. new[i] = [sequence |-> d.sequence - (known + 1 - i),
                        packet |-> r[known + 1 - i]]
          BY <2>8, <3>1, <4>1
        <4>3. r[known + 1 - i] = w[j - (known + 1 - i)].primary
          BY <4>1 DEF r
        <4>4. /\ d.sequence - (known + 1 - i) = j - 1 - (known + 1) + i
              /\ j - (known + 1 - i) = j - (known + 1) + i
          BY <1>1, <2>2
        <4> QED
          BY <4>2, <4>3, <4>4
      <3>2. CASE i = known + 1
        <4>1. new[i] = last
          <5>1. ~(i <= known) /\ i - known = 1
            BY <2>2, <3>2
          <5> QED
            BY <2>6, <2>8, <5>1
        <4>2. j - 1 - (known + 1) + i = j - 1 /\ j - (known + 1) + i = j
          BY <2>2, <3>2
        <4> QED
          BY <1>1, <4>1, <4>2
      <3> QED
        BY <2>2, <3>1, <3>2
    <2> HIDE DEF new
    <2>10. ~(d.sequence < expected[e])
      BY <1>1, <1>4
    <2>11. /\ Len(new) \in Nat /\ 1 <= Len(new) /\ Len(new) <= 4
           /\ Len(new) - 1 <= j - 1 - expected[e]
           /\ (Len(new) - 1 = j - 1 - expected[e] \/ Len(new) - 1 = Len(r))
      BY <1>1, <1>2, <2>1, <2>2, <2>8
    <2>12. \A i \in 1..Len(new) : /\ new[i].sequence = j - 1 - Len(new) + i
                                  /\ new[i].packet = w[j - Len(new) + i].primary
      BY <2>8, <2>9
    <2> QED
      BY <2>8, <2>10, <2>11, <2>12 DEF new, r
  <1> QED
    BY <1>1, <1>3, <1>4

-----------------------------------------------------------------------------
(* The initial state satisfies the invariant. *)
LEMMA InitInv == Init => Inv
  <1> SUFFICES ASSUME Init PROVE Inv
    OBVIOUS
  <1> USE DEF Init
  <1>1. fax \in [Ends -> Seq(Packet)]
    BY PacketsAssumption
  <1>2. <<>> \in Seq(Packet) /\ <<>> \in Seq(Datagram) /\ <<>> \in Seq(Hearing)
    BY EmptySeq
  <1>3. Typed
    BY <1>1, <1>2 DEF Typed
  <1>4. \A e \in Ends : /\ Len(history[e]) = 0 /\ Len(wire[e]) = 0 /\ Len(heard[e]) = 0
                        /\ Len(queue[e]) = 0 /\ Len(fax[e]) \in Nat
    BY <1>1, EmptySeq, LenProperties
  <1>5. Bounded
    BY <1>4, OtherEnd, PacketsAssumption DEF Bounded
  <1>6. \A e \in Ends : Kept(e) /\ Sent(e) /\ Faithful(e)
    BY <1>4 DEF Kept, Sent, Faithful
  <1> QED
    BY <1>3, <1>5, <1>6 DEF Inv

(* A datagram still carries and repeats what it did when more are sent. *)
LEMMA SentStays ==
    ASSUME NEW w \in Seq(Datagram), NEW v \in Seq(Datagram), Len(w) <= Len(v),
           \A i \in 1..Len(w) : v[i] = w[i],
           NEW i \in 1..Len(w), Numbered(w, i), Repeats(w, i), Greedy(w, i)
    PROVE  Numbered(v, i) /\ Repeats(v, i) /\ Greedy(v, i)
  <1>1. Len(w) \in Nat /\ Len(v) \in Nat /\ DOMAIN w = 1..Len(w) /\ DOMAIN v = 1..Len(v)
    BY LenProperties
  <1>2. v[i] = w[i] /\ w[i] \in Datagram
    BY ElementOfSeq
  <1>3. \A k \in 0..3 : Held(v, i - k) = Held(w, i - k)
    <2> SUFFICES ASSUME NEW k \in 0..3 PROVE Held(v, i - k) = Held(w, i - k)
      OBVIOUS
    <2>1. CASE i - k \in 1..Len(w)
      <3>1. i - k \in 1..Len(v)
        BY <1>1, <2>1
      <3> QED
        BY <1>1, <2>1, <3>1 DEF Held
    <2>2. CASE i - k \notin 1..Len(w)
      <3>1. i - k \notin 1..Len(v)
        BY <1>1, <2>2
      <3> QED
        BY <1>1, <2>2, <3>1 DEF Held
    <2> QED
      BY <2>1, <2>2
  <1>4. Held(v, i) = Held(w, i) /\ Held(v, i - 1) = Held(w, i - 1)
        /\ Held(v, i - 2) = Held(w, i - 2) /\ Held(v, i - 3) = Held(w, i - 3)
    BY <1>1, <1>3
  <1>5. Numbered(v, i)
    BY <1>2 DEF Numbered
  <1>6. Greedy(v, i)
    BY <1>2, <1>4 DEF Greedy
  <1>7. Repeats(v, i)
    <2>1. \A k \in 1..Len(w[i].redundant) : v[i - k] = w[i - k]
      <3>1. Len(w[i].redundant) \in Nat
        BY <1>2, LenProperties DEF Datagram
      <3>2. Len(w[i].redundant) < i
        BY DEF Repeats
      <3>3. \A k \in 1..Len(w[i].redundant) : i - k \in 1..Len(w)
        BY <1>1, <3>1, <3>2
      <3> QED
        BY <3>3
    <2> QED
      BY <1>2, <2>1 DEF Repeats
  <1> QED
    BY <1>5, <1>6, <1>7

(* Sending a packet: its datagram, and what becomes of the history. *)
LEMMA SendInv ==
    ASSUME Inv, NEW e \in Ends, Send(e)
    PROVE  Inv'
  <1> DEFINE packet == Head(queue[e])
             h == history[e]
             w == wire[e]
             r == Redundant(e, packet)
             d == [sequence |-> sequence[e], primary |-> packet, redundant |-> r]
  <1>1. Typed /\ Bounded /\ Kept(e) /\ Sent(e)
    BY DEF Inv
  <1>2. /\ queue[e] \in Seq(Packet) /\ queue[e] # <<>> /\ h \in Seq(Packet)
        /\ w \in Seq(Datagram) /\ sequence[e] \in Nat /\ idle[e] \in Nat
    BY <1>1 DEF Typed, Send
  <1>3. /\ packet \in Packet /\ Tail(queue[e]) \in Seq(Packet)
        /\ Len(Tail(queue[e])) = Len(queue[e]) - 1 /\ Len(queue[e]) \in Nat
    BY <1>2, HeadTailProperties, LenProperties
  <1>4. /\ wire' = [wire EXCEPT ![e] = Append(w, d)]
        /\ history' = [history EXCEPT ![e] = Remembered(e, packet)]
        /\ sequence' = [sequence EXCEPT ![e] = @ + 1]
        /\ queue' = [queue EXCEPT ![e] = Tail(@)]
        /\ packet.size <= MaxDatagram
        /\ idle' = idle \/ idle' = [idle EXCEPT ![e] = 0]
        /\ UNCHANGED <<fax, phase, produced, expected, heard>>
    BY DEF Send, receiver
  <1>5. /\ Len(h) \in Nat /\ Len(w) \in Nat /\ sequence[e] = Len(w)
        /\ Len(h) = IF Len(w) <= 3 THEN Len(w) ELSE 3
    BY <1>1, <1>2, LenProperties DEF Bounded, Kept
  <1> DEFINE n == Len(h)
             m == Len(w)
  <1>6. /\ r \in Seq(Packet) /\ Len(r) <= n
        /\ \A k \in 1..Len(r) : r[k] = h[n - k + 1]
        /\ packet.size + Bytes(r) <= MaxDatagram
        /\ 1 <= n /\ packet.size + h[n].size <= MaxDatagram => 1 <= Len(r)
        /\ 2 <= n /\ packet.size + h[n].size + h[n - 1].size <= MaxDatagram => 2 <= Len(r)
        /\ 3 <= n /\ packet.size + h[n].size + h[n - 1].size + h[n - 2].size
                         <= MaxDatagram => 3 <= Len(r)
    <2>1. Len(h) \in Nat /\ Len(h) <= 3
      BY <1>5
    <2>2. PICK c \in 0..3 : Len(h) = c
      BY <2>1, AtMostThree, Zenon
    <2> HIDE DEF h, packet
    <2>3. history[e] = h
      BY DEF h
    <2>4. packet \in Packet /\ packet.size <= MaxDatagram /\ h \in Seq(Packet)
      BY <1>2, <1>3, <1>4
    <2>5. /\ Redundant(e, packet) \in Seq(Packet) /\ Len(Redundant(e, packet)) <= c
          /\ \A k \in 1..Len(Redundant(e, packet)) : Redundant(e, packet)[k] = h[c - k + 1]
          /\ packet.size + Bytes(Redundant(e, packet)) <= MaxDatagram
          /\ 1 <= c /\ packet.size + h[c].size <= MaxDatagram =>
                1 <= Len(Redundant(e, packet))
          /\ 2 <= c /\ packet.size + h[c].size + h[c - 1].size <= MaxDatagram =>
                2 <= Len(Redundant(e, packet))
          /\ 3 <= c /\ packet.size + h[c].size + h[c - 1].size + h[c - 2].size
                          <= MaxDatagram => 3 <= Len(Redundant(e, packet))
      BY <2>2, <2>3, <2>4, RedundantOf
    <2> QED
      BY <2>2, <2>5
  <1>7. d \in Datagram
    BY <1>2, <1>3, <1>6 DEF Datagram
  <1>8. /\ Append(w, d) \in Seq(Datagram) /\ Len(Append(w, d)) = m + 1
        /\ \A i \in 1..m : Append(w, d)[i] = w[i]
        /\ Append(w, d)[m + 1] = d
    BY <1>2, <1>7, AppendProperties
  <1>9. /\ Remembered(e, packet) \in Seq(Packet)
        /\ Len(Remembered(e, packet)) = IF n <= 2 THEN n + 1 ELSE 3
        /\ \A k \in 1..Len(Remembered(e, packet)) :
              Remembered(e, packet)[k] =
                  Append(h, packet)[n + 1 - Len(Remembered(e, packet)) + k]
    <2> HIDE DEF h, packet
    <2>1. history[e] = h /\ Len(h) <= 3
      BY <1>5 DEF h
    <2> QED
      BY <1>2, <1>3, <2>1, RememberedOf
  <1> DEFINE v == Append(w, d)
             g == Remembered(e, packet)
  <1>10. wire'[e] = v /\ \A x \in Ends : x # e => wire'[x] = wire[x]
    BY <1>1, <1>4 DEF Typed
  <1>11. history'[e] = g /\ \A x \in Ends : x # e => history'[x] = history[x]
    BY <1>1, <1>4 DEF Typed
  <1>12. Typed'
    <2>1. wire' \in [Ends -> Seq(Datagram)]
      BY <1>1, <1>4, <1>8 DEF Typed
    <2>2. history' \in [Ends -> Seq(Packet)]
      BY <1>1, <1>4, <1>9 DEF Typed
    <2>3. sequence' \in [Ends -> Nat]
      BY <1>1, <1>4 DEF Typed
    <2>4. queue' \in [Ends -> Seq(Packet)]
      BY <1>1, <1>3, <1>4 DEF Typed
    <2>5. idle' \in [Ends -> Nat]
      <3>1. CASE idle' = idle
        BY <1>1, <3>1 DEF Typed
      <3>2. CASE idle' = [idle EXCEPT ![e] = 0]
        BY <1>1, <3>2 DEF Typed
      <3> QED
        BY <1>4, <3>1, <3>2
    <2> QED
      BY <1>1, <1>4, <2>1, <2>2, <2>3, <2>4, <2>5 DEF Typed
  <1>13. Bounded'
    <2> SUFFICES ASSUME NEW x \in Ends PROVE Bounded!(x)'
      BY DEF Bounded
    <2>1. /\ produced[x] <= Len(fax[x]) /\ Len(queue[x]) <= MaxQueue
          /\ idle[x] <= Patience + 1 /\ sequence[x] = Len(wire[x])
          /\ expected[x] <= Len(wire[Other(x)])
      BY <1>1 DEF Bounded
    <2>2. Len(wire[Other(x)]) <= Len(wire'[Other(x)]) /\ Len(wire[Other(x)]) \in Nat
          /\ Len(wire'[Other(x)]) \in Nat
      <3>1. CASE Other(x) = e
        <4>1. wire[Other(x)] = w /\ wire'[Other(x)] = v
          BY <1>10, <3>1
        <4>2. Len(w) <= Len(v) /\ Len(w) \in Nat /\ Len(v) \in Nat
          BY <1>5, <1>8
        <4> HIDE DEF v, w
        <4> QED
          BY <4>1, <4>2
      <3>2. CASE Other(x) # e
        <4>1. Other(x) \in Ends /\ wire'[Other(x)] = wire[Other(x)]
          BY <1>10, <3>2, OtherEnd
        <4>2. wire[Other(x)] \in Seq(Datagram)
          BY <1>1, <4>1 DEF Typed
        <4>3. Len(wire[Other(x)]) \in Nat
          BY <4>2, LenProperties
        <4> QED
          BY <4>1, <4>3
      <3> QED
        BY <3>1, <3>2
    <2>3. expected'[x] <= Len(wire'[Other(x)])
      BY <1>1, <1>4, <2>1, <2>2 DEF Typed
    <2>4. sequence'[x] = Len(wire'[x])
      BY <1>1, <1>4, <1>5, <1>8, <1>10, <2>1 DEF Typed
    <2>5. Len(queue'[x]) <= MaxQueue
      BY <1>1, <1>3, <1>4, <2>1, PacketsAssumption DEF Typed
    <2>6. idle'[x] <= Patience + 1
      <3>1. idle'[x] = idle[x] \/ idle'[x] = 0
        BY <1>1, <1>4 DEF Typed
      <3>2. 0 <= Patience + 1
        BY PacketsAssumption
      <3> QED
        BY <2>1, <3>1, <3>2
    <2> QED
      BY <1>4, <2>1, <2>3, <2>4, <2>5, <2>6
  <1>14. Kept(e)'
    <2>1. /\ Len(g) = IF n <= 2 THEN n + 1 ELSE 3
          /\ Len(v) = m + 1
      BY <1>8, <1>9
    <2> HIDE DEF g, v, h, w, packet, d
    <2>2. Len(g) = IF Len(v) <= 3 THEN Len(v) ELSE 3
      BY <1>5, <2>1
    <2>4. \A k \in 1..Len(g) : Len(v) - Len(g) + k = m - n + (n + 1 - Len(g) + k)
      <3>1. \A a, b, c, k \in Int : a + 1 - c + k = a - b + (b + 1 - c + k)
        OBVIOUS
      <3>2. Len(g) \in Int /\ m \in Int /\ n \in Int /\ Len(v) = m + 1
        BY <1>5, <2>1
      <3> HIDE DEF n, m
      <3> QED
        BY <3>1, <3>2
    <2>5. \A i \in 1..n : m - n + i \in 1..m
      <3>1. \A a, b \in Nat : b <= a => \A i \in 1..b : a - b + i \in 1..a
        OBVIOUS
      <3>2. m \in Nat /\ n \in Nat /\ n <= m
        BY <1>5
      <3> HIDE DEF n, m
      <3> QED
        BY <3>1, <3>2
    <2>3. ASSUME NEW k \in 1..Len(g)
          PROVE  g[k] = v[Len(v) - Len(g) + k].primary
      <3>1. g[k] = Append(h, packet)[n + 1 - Len(g) + k]
        BY <1>9 DEF g
      <3>2. n + 1 - Len(g) + k \in Nat /\ 1 <= n + 1 - Len(g) + k
            /\ n + 1 - Len(g) + k <= n + 1
        BY <1>5, <2>1
      <3>3. CASE n + 1 - Len(g) + k = n + 1
        <4>1. Append(h, packet)[n + 1] = packet
          BY <1>2, <1>3, AppendProperties
        <4>2. Len(v) - Len(g) + k = m + 1
          BY <2>4, <3>3
        <4>3. v[m + 1].primary = packet
          BY <1>8 DEF v, d
        <4> QED
          BY <3>1, <3>3, <4>1, <4>2, <4>3
      <3>4. CASE n + 1 - Len(g) + k # n + 1
        <4> DEFINE i == n + 1 - Len(g) + k
        <4>1. i \in Nat /\ 1 <= i /\ i <= n
          BY <1>5, <3>2, <3>4
        <4>2. m - n + i = Len(v) - Len(g) + k
          BY <2>4
        <4>7. m - n + i \in 1..m
          BY <2>5, <4>1
        <4> HIDE DEF i
        <4>3. i \in 1..Len(h)
          BY <1>5, <4>1
        <4>4. Append(h, packet)[i] = h[i]
          BY <1>2, <1>3, <4>3, AppendProperties
        <4>5. h[i] = w[m - n + i].primary
          BY <1>1, <4>3 DEF Kept, h, w
        <4>6. v[m - n + i] = w[m - n + i]
          BY <1>8, <4>7 DEF v
        <4> QED
          BY <3>1, <4>2, <4>4, <4>5, <4>6 DEF i
      <3> QED
        BY <3>3, <3>4
    <2> QED
      BY <1>10, <1>11, <2>2, <2>3 DEF Kept
  <1>15. \A i \in 1..m : Numbered(v, i) /\ Repeats(v, i) /\ Greedy(v, i)
    <2>1. \A i \in 1..m : Numbered(w, i) /\ Repeats(w, i) /\ Greedy(w, i)
      BY <1>1 DEF Sent
    <2>2. Len(w) <= Len(v)
      BY <1>5, <1>8
    <2>3. \A i \in 1..m : v[i] = w[i]
      BY <1>8
    <2> HIDE DEF v, w
    <2> QED
      BY <1>2, <1>8, <2>1, <2>2, <2>3, SentStays DEF v
  <1>16. Numbered(v, m + 1)
    BY <1>5, <1>8 DEF Numbered
  <1>17. Repeats(v, m + 1)
    <2>1. v[m + 1].redundant = r /\ v[m + 1].primary = packet
      BY <1>8
    <2> HIDE DEF v, r, h, w, packet
    <2>2. Len(r) \in Nat /\ Len(r) <= 3 /\ Len(r) < m + 1
      BY <1>5, <1>6, LenProperties
    <2>3. ASSUME NEW k \in 1..Len(r)
          PROVE  r[k] = v[m + 1 - k].primary
      <3>1. r[k] = h[n - k + 1]
        BY <1>6
      <3>2. k \in Nat /\ 1 <= k /\ k <= n
        BY <1>5, <1>6, <2>2
      <3>3. n - k + 1 \in 1..n
        <4>1. \A a \in Nat : \A b \in 1..a : a - b + 1 \in 1..a
          OBVIOUS
        <4>2. n \in Nat
          BY <1>5
        <4> HIDE DEF n
        <4>3. k \in 1..n
          BY <3>2, <4>2
        <4> QED
          BY <4>1, <4>2, <4>3
      <3>4. h[n - k + 1] = w[m - n + (n - k + 1)].primary
        BY <1>1, <3>3 DEF Kept, h, w
      <3>5. m - n + (n - k + 1) = m + 1 - k /\ m + 1 - k \in 1..m
        <4>1. \A a, b \in Nat : b <= a =>
                  \A c \in 1..b : a - b + (b - c + 1) = a + 1 - c /\ a + 1 - c \in 1..a
          OBVIOUS
        <4>2. m \in Nat /\ n \in Nat /\ n <= m
          BY <1>5
        <4> HIDE DEF n, m
        <4> QED
          BY <3>2, <4>1, <4>2
      <3>6. v[m + 1 - k] = w[m + 1 - k]
        BY <1>8, <3>5 DEF v
      <3> QED
        BY <3>1, <3>4, <3>5, <3>6
    <2>4. packet.size + Bytes(r) <= MaxDatagram
      BY <1>6
    <2> QED
      BY <2>1, <2>2, <2>3, <2>4 DEF Repeats
  <1>18. Greedy(v, m + 1)
    <2>1. v[m + 1].redundant = r /\ v[m + 1].primary = packet
      BY <1>8
    <2>2. Held(v, m + 1) = packet.size
      <3>1. m + 1 \in DOMAIN v
        BY <1>5, <1>8, LenProperties
      <3> QED
        BY <2>1, <3>1 DEF Held
    <2>3. ASSUME NEW k \in 0..2, k + 1 <= m
          PROVE  k + 1 <= n /\ Held(v, m + 1 - (k + 1)) = h[n - k].size
      <3>1. k + 1 <= n /\ n - k \in 1..n /\ m - k \in 1..m /\ m + 1 - (k + 1) = m - k
            /\ m - n + (n - k) = m - k
        <4>1. \A a, b \in Nat : (b = IF a <= 3 THEN a ELSE 3) /\ k + 1 <= a =>
                  /\ k + 1 <= b /\ b - k \in 1..b /\ a - k \in 1..a
                  /\ a + 1 - (k + 1) = a - k /\ a - b + (b - k) = a - k
          OBVIOUS
        <4>2. m \in Nat /\ n \in Nat /\ n = IF m <= 3 THEN m ELSE 3
          BY <1>5
        <4>3. k + 1 <= m
          BY <2>3
        <4> HIDE DEF n, m
        <4> QED
          BY <4>1, <4>2, <4>3
      <3>2. v[m - k] = w[m - k] /\ m - k \in DOMAIN v
        <4>1. m - k \in 1..(m + 1)
          BY <1>5, <3>1
        <4> QED
          BY <1>8, <3>1, <4>1, LenProperties
      <3>3. h[n - k] = w[m - k].primary
        BY <1>1, <3>1 DEF Kept
      <3> QED
        BY <3>1, <3>2, <3>3 DEF Held
    <2> HIDE DEF v, r, h, w, packet, n, m
    <2>4. m \in Nat /\ n \in Nat
      BY <1>5 DEF m, n
    <2>5. 1 <= m => 1 <= n /\ Held(v, m + 1 - 1) = h[n].size
      <3>1. 0 + 1 <= m => 0 + 1 <= n /\ Held(v, m + 1 - (0 + 1)) = h[n - 0].size
        BY <2>3
      <3> QED
        BY <2>4, <3>1
    <2>6. 2 <= m => 2 <= n /\ Held(v, m + 1 - 2) = h[n - 1].size
      <3>1. 1 + 1 <= m => 1 + 1 <= n /\ Held(v, m + 1 - (1 + 1)) = h[n - 1].size
        BY <2>3
      <3> QED
        BY <2>4, <3>1
    <2>7. 3 <= m => 3 <= n /\ Held(v, m + 1 - 3) = h[n - 2].size
      <3>1. 2 + 1 <= m => 2 + 1 <= n /\ Held(v, m + 1 - (2 + 1)) = h[n - 2].size
        BY <2>3
      <3> QED
        BY <2>4, <3>1
    <2>8. /\ 2 <= m + 1 => 1 <= m
          /\ 3 <= m + 1 => 2 <= m /\ 1 <= m
          /\ 4 <= m + 1 => 3 <= m /\ 2 <= m /\ 1 <= m
      BY <2>4
    <2>9. /\ 1 <= n /\ packet.size + h[n].size <= MaxDatagram => 1 <= Len(r)
          /\ 2 <= n /\ packet.size + h[n].size + h[n - 1].size <= MaxDatagram =>
                2 <= Len(r)
          /\ 3 <= n /\ packet.size + h[n].size + h[n - 1].size + h[n - 2].size
                          <= MaxDatagram => 3 <= Len(r)
      BY <1>6 DEF n
    <2>10. 2 <= m + 1 /\ Held(v, m + 1) + Held(v, m + 1 - 1) <= MaxDatagram =>
               1 <= Len(v[m + 1].redundant)
      BY <2>1, <2>2, <2>5, <2>8, <2>9
    <2>11. 3 <= m + 1
           /\ Held(v, m + 1) + Held(v, m + 1 - 1) + Held(v, m + 1 - 2) <= MaxDatagram =>
               2 <= Len(v[m + 1].redundant)
      BY <2>1, <2>2, <2>5, <2>6, <2>8, <2>9
    <2>12. 4 <= m + 1
           /\ Held(v, m + 1) + Held(v, m + 1 - 1) + Held(v, m + 1 - 2)
                 + Held(v, m + 1 - 3) <= MaxDatagram =>
               3 <= Len(v[m + 1].redundant)
      BY <2>1, <2>2, <2>5, <2>6, <2>7, <2>8, <2>9
    <2> QED
      BY <2>4, <2>10, <2>11, <2>12 DEF Greedy
  <1>19. Sent(e)'
    <2>1. \A i \in 1..(m + 1) : Numbered(v, i) /\ Repeats(v, i) /\ Greedy(v, i)
      BY <1>5, <1>15, <1>16, <1>17, <1>18
    <2>2. Len(v) = m + 1
      BY <1>8
    <2> HIDE DEF v
    <2> QED
      BY <1>10, <2>1, <2>2 DEF Sent, Numbered, Repeats, Greedy, Held
  <1>20. ASSUME NEW x \in Ends, x # e PROVE Kept(x)' /\ Sent(x)'
    <2>1. Kept(x) /\ Sent(x) /\ wire'[x] = wire[x] /\ history'[x] = history[x]
      BY <1>10, <1>11, <1>20 DEF Inv
    <2>2. Kept(x)'
      BY <2>1 DEF Kept
    <2>3. Sent(x)'
      BY <2>1 DEF Sent, Numbered, Repeats, Greedy, Held
    <2> QED
      BY <2>2, <2>3
  <1>21. ASSUME NEW x \in Ends PROVE Faithful(x)'
    <2>1. Faithful(x) /\ expected[x] <= Len(wire[Other(x)]) /\ expected[x] \in Nat
          /\ heard[x] \in Seq(Hearing) /\ Len(wire[Other(x)]) \in Nat
      BY <1>1, OtherEnd, LenProperties DEF Inv, Bounded, Typed
    <2>2. ASSUME NEW i \in 1..Len(wire[Other(x)])
          PROVE  wire'[Other(x)][i] = wire[Other(x)][i]
      <3>1. CASE Other(x) = e
        BY <1>8, <1>10, <3>1, <2>2
      <3>2. CASE Other(x) # e
        BY <1>10, <3>2, OtherEnd
      <3> QED
        BY <3>1, <3>2
    <2>3. ASSUME NEW i \in 1..Len(heard[x])
          PROVE  heard[x][i].sequence + 1 \in 1..Len(wire[Other(x)])
      <3>1. heard[x][i] \in Hearing /\ heard[x][i].sequence \in Nat
        <4>1. heard[x][i] \in Hearing
          BY <2>1, ElementOfSeq
        <4> QED
          BY <4>1 DEF Hearing
      <3>2. heard[x][i].sequence < expected[x]
        BY <2>1 DEF Faithful
      <3> QED
        BY <2>1, <3>1, <3>2
    <2> QED
      BY <1>4, <2>1, <2>2, <2>3 DEF Faithful
  <1> QED
    BY <1>12, <1>13, <1>14, <1>19, <1>20, <1>21 DEF Inv

(* A datagram comes in: what is new in it follows what was heard. *)
LEMMA ReceiveInv ==
    ASSUME Inv, NEW e \in Ends, NEW j \in DOMAIN wire[Other(e)],
           Receive(e, wire[Other(e)][j])
    PROVE  Inv'
  <1> DEFINE o == Other(e)
             w == wire[o]
             d == w[j]
             new == Recovered(e, d)
             n == Len(new)
             h == heard[e]
             c == Len(h)
  <1>1. Typed /\ Bounded /\ Sent(o) /\ Faithful(e)
    BY OtherEnd DEF Inv
  <1>2. o \in Ends /\ w \in Seq(Datagram) /\ h \in Seq(Hearing) /\ expected[e] \in Nat
        /\ idle[e] \in Nat
    BY <1>1, OtherEnd DEF Typed
  <1>3. j \in 1..Len(w) /\ j \in Nat /\ Len(w) \in Nat /\ c \in Nat
    BY <1>2, LenProperties
  <1>4. /\ d \in Datagram /\ d.sequence = j - 1
        /\ Len(d.redundant) <= 3 /\ Len(d.redundant) < j
        /\ \A k \in 1..Len(d.redundant) : d.redundant[k] = w[j - k].primary
    BY <1>1, <1>2, <1>3, ElementOfSeq DEF Sent, Numbered, Repeats
  <1>5. /\ heard' = [heard EXCEPT ![e] = @ \o new]
        /\ expected' = IF new = <<>> THEN expected
                       ELSE [expected EXCEPT ![e] = d.sequence + 1]
        /\ idle' = idle \/ idle' = [idle EXCEPT ![e] = 0]
        /\ UNCHANGED <<fax, phase, produced, queue, sequence, history, wire>>
    BY DEF Receive, sender
  <1>6. /\ new \in Seq(Hearing)
        /\ d.sequence < expected[e] => new = <<>>
        /\ expected[e] <= d.sequence =>
             /\ n \in Nat /\ 1 <= n /\ n <= 4 /\ n - 1 <= j - 1 - expected[e]
             /\ n - 1 = j - 1 - expected[e] \/ n - 1 = Len(d.redundant)
             /\ \A i \in 1..n : /\ new[i].sequence = j - 1 - n + i
                                /\ new[i].packet = w[j - n + i].primary
    <2> HIDE DEF w, d, o
    <2>1. d.primary = w[j].primary
      BY DEF d
    <2> QED
      BY <1>2, <1>3, <1>4, <2>1, RecoveredOf
  <1>7. h \o new \in Seq(Hearing) /\ Len(h \o new) = c + n
        /\ \A i \in 1..(c + n) : (h \o new)[i] = IF i <= c THEN h[i] ELSE new[i - c]
    <2> HIDE DEF h, new
    <2> QED
      BY <1>2, <1>6, ConcatProperties
  <1>8. Typed'
    <2>1. heard' \in [Ends -> Seq(Hearing)]
      BY <1>1, <1>5, <1>7 DEF Typed
    <2>2. expected' \in [Ends -> Nat]
      BY <1>1, <1>3, <1>4, <1>5 DEF Typed
    <2>3. idle' \in [Ends -> Nat]
      <3>1. CASE idle' = idle
        BY <1>1, <3>1 DEF Typed
      <3>2. CASE idle' = [idle EXCEPT ![e] = 0]
        BY <1>1, <3>2 DEF Typed
      <3> QED
        BY <1>5, <3>1, <3>2
    <2> QED
      BY <1>1, <1>5, <2>1, <2>2, <2>3 DEF Typed
  <1>9. expected'[e] = IF new = <<>> THEN expected[e] ELSE j
    BY <1>1, <1>3, <1>4, <1>5 DEF Typed
  <1>10. Bounded'
    <2> SUFFICES ASSUME NEW x \in Ends PROVE Bounded!(x)'
      BY DEF Bounded
    <2>1. Bounded!(x)
      BY <1>1 DEF Bounded
    <2>2. expected'[x] <= Len(wire[Other(x)])
      <3>1. CASE x = e
        BY <1>3, <1>9, <2>1, <3>1
      <3>2. CASE x # e
        BY <1>1, <1>5, <2>1, <3>2 DEF Typed
      <3> QED
        BY <3>1, <3>2
    <2>3. idle'[x] <= Patience + 1
      <3>1. idle'[x] = idle[x] \/ idle'[x] = 0
        BY <1>1, <1>5 DEF Typed
      <3>2. 0 <= Patience + 1
        BY PacketsAssumption
      <3> QED
        BY <2>1, <3>1, <3>2
    <2> QED
      BY <1>5, <2>1, <2>2, <2>3
  <1>11. ASSUME NEW x \in Ends PROVE Kept(x)' /\ Sent(x)'
    <2>1. Kept(x) /\ Sent(x) /\ wire'[x] = wire[x] /\ history'[x] = history[x]
      BY <1>5 DEF Inv
    <2>2. Kept(x)'
      BY <2>1 DEF Kept
    <2>3. Sent(x)'
      BY <2>1 DEF Sent, Numbered, Repeats, Greedy, Held
    <2> QED
      BY <2>2, <2>3
  <1>12. ASSUME NEW x \in Ends, x # e PROVE Faithful(x)'
    <2>1. Faithful(x) /\ heard'[x] = heard[x] /\ expected'[x] = expected[x]
      BY <1>1, <1>5, <1>12 DEF Inv, Typed
    <2> QED
      BY <1>5, <2>1 DEF Faithful
  <1>13. heard'[e] = h \o new
    BY <1>1, <1>5 DEF Typed
  <1>14. Faithful(e)'
    <2>1. CASE d.sequence < expected[e]
      <3>1. new = <<>>
        BY <1>6, <2>1
      <3>2. heard'[e] = h
        BY <1>2, <1>13, <3>1, ConcatEmptySeq
      <3>3. expected'[e] = expected[e]
        BY <1>9, <3>1
      <3> QED
        BY <1>1, <1>5, <3>2, <3>3 DEF Faithful
    <2>2. CASE expected[e] <= d.sequence
      <3> HIDE DEF new, h, d
      <3>1. /\ n \in Nat /\ 1 <= n /\ n - 1 <= j - 1 - expected[e]
            /\ \A i \in 1..n : /\ new[i].sequence = j - 1 - n + i
                               /\ new[i].packet = w[j - n + i].primary
        BY <1>6, <2>2
      <3>2. expected'[e] = j
        <4>1. new # <<>>
          BY <3>1, EmptySeq
        <4> QED
          BY <1>9, <4>1
      <3>3. ASSUME NEW i \in 1..c
            PROVE  /\ h[i].sequence < expected[e] /\ h[i].sequence \in Nat
                   /\ h[i].packet = w[h[i].sequence + 1].primary
                   /\ i > 1 => h[i - 1].sequence < h[i].sequence
        <4>1. h[i] \in Hearing
          BY <1>2, ElementOfSeq
        <4>2. h[i].sequence \in Nat
          BY <4>1 DEF Hearing
        <4> QED
          BY <1>1, <4>2 DEF Faithful, h, w, o
      <3>4. SUFFICES ASSUME NEW i \in 1..(c + n)
                     PROVE  LET all == h \o new
                            IN  /\ all[i].sequence < j
                                /\ all[i].packet = w[all[i].sequence + 1].primary
                                /\ i > 1 => all[i - 1].sequence < all[i].sequence
        BY <1>5, <1>7, <1>13, <3>2 DEF Faithful, h
      <3> DEFINE all == h \o new
      <3>5. expected[e] < j
        BY <1>2, <1>3, <3>1
      <3>6. CASE i <= c
        <4>1. i \in 1..c /\ all[i] = h[i] /\ (i > 1 => all[i - 1] = h[i - 1])
          BY <1>3, <1>7, <3>1, <3>6
        <4>2. h[i].sequence < j
          BY <1>2, <1>3, <3>3, <3>5, <4>1
        <4> QED
          BY <3>3, <4>1, <4>2
      <3>7. CASE c < i
        <4>1. i - c \in 1..n /\ all[i] = new[i - c]
          BY <1>3, <1>7, <3>1, <3>7
        <4>2. new[i - c].sequence = j - 1 - n + (i - c)
              /\ new[i - c].packet = w[j - n + (i - c)].primary
          BY <3>1, <4>1
        <4>3. j - 1 - n + (i - c) + 1 = j - n + (i - c) /\ j - 1 - n + (i - c) < j
          BY <1>3, <3>1, <4>1
        <4>4. ASSUME i > 1 PROVE all[i - 1].sequence < all[i].sequence
          <5>1. CASE i - 1 = c
            <6>1. c \in 1..c /\ all[i - 1] = h[c]
              BY <1>3, <1>7, <3>1, <4>4, <5>1
            <6>2. h[c].sequence < expected[e] /\ h[c].sequence \in Nat
              BY <3>3, <6>1
            <6>3. new[i - c].sequence = j - n
              BY <1>3, <3>1, <4>2, <5>1
            <6>4. expected[e] <= j - n /\ j - n \in Int
              BY <1>2, <1>3, <3>1
            <6>5. h[c].sequence < j - n
              BY <1>2, <6>2, <6>4
            <6> QED
              BY <4>1, <6>1, <6>3, <6>5
          <5>2. CASE i - 1 # c
            <6>3. i - 1 - c \in 1..n /\ i - 1 \in 1..(c + n) /\ ~(i - 1 <= c)
              BY <1>3, <3>1, <3>7, <5>2
            <6>1. i - 1 - c \in 1..n /\ all[i - 1] = new[i - 1 - c]
              BY <1>7, <6>3
            <6>2. new[i - 1 - c].sequence = j - 1 - n + (i - 1 - c)
              BY <3>1, <6>1
            <6> QED
              BY <1>3, <3>1, <4>1, <4>2, <6>1, <6>2
          <5> QED
            BY <5>1, <5>2
        <4> QED
          BY <4>1, <4>2, <4>3, <4>4
      <3> QED
        BY <1>3, <3>6, <3>7
    <2> QED
      BY <1>2, <1>3, <1>4, <2>1, <2>2
  <1> QED
    BY <1>8, <1>10, <1>11, <1>12, <1>14 DEF Inv

(* The steps that leave the wires and what was heard alone. *)
LEMMA OtherInv ==
    ASSUME Inv, Typed', Bounded', UNCHANGED <<history, wire, expected, heard>>
    PROVE  Inv'
  <1>1. ASSUME NEW e \in Ends PROVE Kept(e)' /\ Sent(e)' /\ Faithful(e)'
    <2>1. Kept(e) /\ Sent(e) /\ Faithful(e)
      BY DEF Inv
    <2>2. Kept(e)'
      BY <2>1 DEF Kept
    <2>3. Sent(e)'
      BY <2>1 DEF Sent, Numbered, Repeats, Greedy, Held
    <2>4. Faithful(e)'
      BY <2>1 DEF Faithful
    <2> QED
      BY <2>2, <2>3, <2>4
  <1> QED
    BY <1>1 DEF Inv

(* Every step keeps the invariant. *)
LEMMA NextInv == Inv /\ [Next]_vars => Inv'
  <1> SUFFICES ASSUME Inv, [Next]_vars PROVE Inv'
    OBVIOUS
  <1>1. Typed /\ Bounded
    BY DEF Inv
  <1>2. CASE UNCHANGED vars
    <2>1. Typed' /\ Bounded'
      BY <1>1, <1>2 DEF Typed, Bounded, vars, sender, receiver
    <2> QED
      BY <1>2, <2>1, OtherInv DEF vars, sender, receiver
  <1>3. ASSUME NEW e \in Ends, Produce(e) PROVE Inv'
    <2>1. /\ fax[e] \in Seq(Packet) /\ queue[e] \in Seq(Packet) /\ produced[e] \in Nat
          /\ Len(fax[e]) \in Nat /\ Len(queue[e]) \in Nat
      BY <1>1, LenProperties DEF Typed
    <2>2. fax[e][produced[e] + 1] \in Packet
      <3>1. produced[e] + 1 \in 1..Len(fax[e])
        BY <1>3, <2>1 DEF Produce
      <3> QED
        BY <2>1, <3>1, ElementOfSeq
    <2> DEFINE longer == Append(queue[e], fax[e][produced[e] + 1])
    <2>3. longer \in Seq(Packet) /\ Len(longer) = Len(queue[e]) + 1
      BY <2>1, <2>2, AppendProperties
    <2>4. queue' = queue \/ (queue' = [queue EXCEPT ![e] = longer] /\ Len(queue[e]) < MaxQueue)
      BY <1>3 DEF Produce
    <2>5. /\ produced' = [produced EXCEPT ![e] = @ + 1] /\ produced[e] < Len(fax[e])
          /\ UNCHANGED <<fax, phase, sequence, history, wire, expected, heard, idle>>
      BY <1>3 DEF Produce, receiver
    <2>6. queue' \in [Ends -> Seq(Packet)]
      BY <1>1, <2>3, <2>4 DEF Typed
    <2>7. produced' \in [Ends -> Nat]
      BY <1>1, <2>1, <2>5 DEF Typed
    <2>8. Typed'
      BY <1>1, <2>5, <2>6, <2>7 DEF Typed
    <2>9. Bounded'
      <3> SUFFICES ASSUME NEW x \in Ends PROVE Bounded!(x)'
        BY DEF Bounded
      <3>1. Bounded!(x)
        BY <1>1 DEF Bounded
      <3>2. Len(queue'[x]) <= MaxQueue
        <4>1. queue'[x] = queue[x] \/ (x = e /\ queue'[x] = longer /\ Len(queue[e]) < MaxQueue)
          BY <1>1, <2>4 DEF Typed
        <4>2. MaxQueue \in Nat
          BY PacketsAssumption
        <4> QED
          BY <2>1, <2>3, <3>1, <4>1, <4>2
      <3>3. produced'[x] <= Len(fax[x])
        BY <1>1, <2>1, <2>5, <3>1 DEF Typed
      <3> QED
        BY <2>5, <3>1, <3>2, <3>3
    <2> QED
      BY <2>5, <2>8, <2>9, OtherInv
  <1>4. ASSUME NEW e \in Ends, Send(e) PROVE Inv'
    BY <1>4, SendInv
  <1>5. ASSUME NEW e \in Ends, CannotSend(e) \/ PeerHangsUp(e) \/ Disconnected(e) \/ Completes(e)
        PROVE  Inv'
    <2>1. /\ \E p \in {"hungup", "over"} : phase' = [phase EXCEPT ![e] = p]
          /\ UNCHANGED <<fax, produced, queue, sequence, history, wire, expected, heard, idle>>
      BY <1>5 DEF CannotSend, PeerHangsUp, Disconnected, Completes, sender, receiver
    <2>2. Typed' /\ Bounded'
      BY <1>1, <2>1 DEF Typed, Bounded
    <2> QED
      BY <2>1, <2>2, OtherInv
  <1>6. ASSUME NEW e \in Ends, EndFrame(e) PROVE Inv'
    <2>1. /\ phase' = phase \/ phase' = [phase EXCEPT ![e] = "over"]
          /\ idle' = idle \/ (idle' = [idle EXCEPT ![e] = @ + 1] /\ ~(idle[e] > Patience))
          /\ UNCHANGED <<fax, produced, queue, sequence, history, wire, expected, heard>>
      BY <1>6 DEF EndFrame, sender, receiver
    <2>2. phase' \in [Ends -> {"running", "hungup", "over"}]
      BY <1>1, <2>1 DEF Typed
    <2>3. idle' \in [Ends -> Nat] /\ \A x \in Ends : idle'[x] <= Patience + 1
      <3>1. Patience \in Nat /\ idle \in [Ends -> Nat]
            /\ \A x \in Ends : idle[x] <= Patience + 1
        BY <1>1, PacketsAssumption DEF Typed, Bounded
      <3>2. CASE idle' = idle
        BY <3>1, <3>2
      <3>3. CASE idle' = [idle EXCEPT ![e] = @ + 1] /\ ~(idle[e] > Patience)
        <4>1. idle[e] + 1 \in Nat /\ idle[e] + 1 <= Patience + 1
          BY <3>1, <3>3
        <4>2. \A x \in Ends : idle'[x] = IF x = e THEN idle[e] + 1 ELSE idle[x]
          BY <3>1, <3>3
        <4>3. idle' \in [Ends -> Nat]
          BY <3>1, <3>3, <4>1
        <4> QED
          BY <3>1, <4>1, <4>2, <4>3
      <3> QED
        BY <2>1, <3>2, <3>3
    <2>4. Typed' /\ Bounded'
      BY <1>1, <2>1, <2>2, <2>3 DEF Typed, Bounded
    <2> QED
      BY <2>1, <2>4, OtherInv
  <1>7. ASSUME NEW e \in Ends, NEW j \in DOMAIN wire[Other(e)], Receive(e, wire[Other(e)][j])
        PROVE  Inv'
    BY <1>7, ReceiveInv
  <1> QED
    BY <1>2, <1>3, <1>4, <1>5, <1>6, <1>7 DEF Next, Step

(* The invariant is one of every behaviour. *)
LEMMA Invariance == Spec => []Inv
  BY InitInv, NextInv, PTL DEF Spec

-----------------------------------------------------------------------------
(* Each terminal is given the packets as the other end sent them, each under its *)
(* own number, once and in order, whatever datagrams are lost, doubled or late.  *)
THEOREM HearsAsSent == Spec => []HeardAsSent
  <1>1. ASSUME Inv PROVE HeardAsSent
    <2>1. Typed /\ Bounded
      BY <1>1 DEF Inv
    <2>2. \A e \in Ends : /\ Kept(e) /\ Sent(e) /\ Faithful(e)
                          /\ Other(e) \in Ends
                          /\ DOMAIN wire[e] = 1..Len(wire[e])
                          /\ DOMAIN heard[e] = 1..Len(heard[e])
                          /\ Len(wire[e]) \in Nat
      BY <1>1, <2>1, OtherEnd, LenProperties DEF Inv, Typed
    <2>3. TypeOK
      <3> SUFFICES ASSUME NEW e \in Ends PROVE TypeOK!2!(e)
        BY <2>1 DEF TypeOK, Typed
      <3>1. Bounded!(e)
        BY <2>1 DEF Bounded
      <3>2. /\ produced[e] \in Nat /\ idle[e] \in Nat /\ expected[e] \in Nat
            /\ fax[e] \in Seq(Packet) /\ Len(fax[e]) \in Nat
        BY <2>1, LenProperties DEF Typed
      <3>3. produced[e] \in 0..Len(fax[e])
        BY <3>1, <3>2
      <3>4. expected[e] \in 0..sequence[Other(e)]
        <4>1. sequence[Other(e)] = Len(wire[Other(e)]) /\ Len(wire[Other(e)]) \in Nat
          BY <2>1, <2>2 DEF Bounded
        <4> QED
          BY <3>1, <3>2, <4>1
      <3>5. idle[e] \in 0..(Patience + 1)
        BY <3>1, <3>2, PacketsAssumption
      <3>6. Len(history[e]) <= 3
        <4>1. Len(history[e]) = IF Len(wire[e]) <= 3 THEN Len(wire[e]) ELSE 3
          BY <2>2 DEF Kept
        <4>2. CASE Len(wire[e]) <= 3
          BY <4>1, <4>2
        <4>3. CASE ~(Len(wire[e]) <= 3)
          BY <4>1, <4>3
        <4> QED
          BY <4>2, <4>3
      <3>7. \A i \in DOMAIN wire[e] :
               wire[e][i].primary.size + Bytes(wire[e][i].redundant) <= MaxDatagram
        BY <2>2 DEF Sent, Repeats
      <3> QED
        BY <3>1, <3>3, <3>4, <3>5, <3>6, <3>7
    <2> QED
      BY <2>2, <2>3 DEF HeardAsSent, Faithful
  <1> QED
    BY <1>1, Invariance, PTL

(* The sizes of the packets up to the i-th, as a datagram's bytes and as the sizes *)
(* that decide how much it repeats.                                                *)
LEMMA BytesHeld ==
    ASSUME NEW w \in Seq(Datagram), NEW n \in Nat, NEW i \in 1..Len(w),
           n < i, i - n <= 4
    PROVE  LET sent == [k \in 1..(i - n) |-> w[n + k].primary]
           IN  Bytes(sent) =
                  IF i - n = 1 THEN Held(w, i)
                  ELSE IF i - n = 2 THEN Held(w, i) + Held(w, i - 1)
                  ELSE IF i - n = 3 THEN Held(w, i) + Held(w, i - 1) + Held(w, i - 2)
                  ELSE Held(w, i) + Held(w, i - 1) + Held(w, i - 2) + Held(w, i - 3)
  <1> DEFINE sent == [k \in 1..(i - n) |-> w[n + k].primary]
             s(k) == Size(sent, k)
             t(k) == Held(w, i - k)
  <1>1. Len(w) \in Nat /\ DOMAIN w = 1..Len(w) /\ i \in Nat
    BY LenProperties
  <1>2. ASSUME NEW k \in 1..4
        PROVE  s(k) = IF k <= i - n THEN t(i - n - k) ELSE 0
    <2>1. CASE k <= i - n
      <3>1. k \in 1..(i - n) /\ n + k \in 1..Len(w) /\ i - (i - n - k) = n + k
        BY <1>1, <2>1
      <3>2. s(k) = w[n + k].primary.size
        BY <3>1 DEF Size
      <3>3. t(i - n - k) = w[n + k].primary.size
        BY <1>1, <3>1 DEF Held
      <3> QED
        BY <2>1, <3>2, <3>3
    <2>2. CASE ~(k <= i - n)
      <3>1. k \notin DOMAIN sent
        BY <1>1, <2>2
      <3> QED
        BY <2>2, <3>1 DEF Size
    <2> QED
      BY <2>1, <2>2
  <1>3. ASSUME NEW k \in 0..3 PROVE t(k) \in Nat
    <2>1. CASE i - k \in 1..Len(w)
      <3>1. w[i - k] \in Datagram
        BY <2>1, ElementOfSeq
      <3>2. w[i - k].primary.size \in Nat
        BY <3>1 DEF Datagram, Packet
      <3> QED
        BY <1>1, <2>1, <3>2 DEF Held
    <2>2. CASE i - k \notin 1..Len(w)
      BY <1>1, <2>2 DEF Held
    <2> QED
      BY <2>1, <2>2
  <1>4. Bytes(sent) = s(1) + s(2) + s(3) + s(4)
    BY DEF Bytes
  <1> HIDE DEF s, t, sent
  <1>5. t(0) \in Nat /\ t(1) \in Nat /\ t(2) \in Nat /\ t(3) \in Nat
    BY <1>3
  <1>6. i - n \in 1..4
    BY <1>1
  <1>7. CASE i - n = 1
    <2>1. s(1) = t(0) /\ s(2) = 0 /\ s(3) = 0 /\ s(4) = 0
      BY <1>2, <1>7
    <2> QED
      BY <1>1, <1>4, <1>5, <1>7, <2>1 DEF t, sent
  <1>8. CASE i - n = 2
    <2>1. s(1) = t(1) /\ s(2) = t(0) /\ s(3) = 0 /\ s(4) = 0
      BY <1>2, <1>8
    <2>2. Bytes(sent) = t(0) + t(1)
      BY <1>4, <1>5, <2>1
    <2> QED
      BY <1>1, <1>8, <2>2 DEF t, sent
  <1>9. CASE i - n = 3
    <2>1. s(1) = t(2) /\ s(2) = t(1) /\ s(3) = t(0) /\ s(4) = 0
      BY <1>2, <1>9
    <2>2. Bytes(sent) = t(0) + t(1) + t(2)
      BY <1>4, <1>5, <2>1
    <2> QED
      BY <1>1, <1>9, <2>2 DEF t, sent
  <1>10. CASE i - n = 4
    <2>1. s(1) = t(3) /\ s(2) = t(2) /\ s(3) = t(1) /\ s(4) = t(0)
      BY <1>2, <1>10
    <2>2. Bytes(sent) = t(0) + t(1) + t(2) + t(3)
      BY <1>4, <1>5, <2>1
    <2> QED
      BY <1>1, <1>10, <2>2 DEF t, sent
  <1> QED
    BY <1>6, <1>7, <1>8, <1>9, <1>10

(* A packet that the datagrams' sizes let up to three later ones repeat is heard *)
(* when the first of them that is in time arrives.                               *)
LEMMA GapStep ==
    ASSUME Inv, NEW e \in Ends, NEW j \in DOMAIN wire[Other(e)],
           Receive(e, wire[Other(e)][j]),
           NEW q \in 0..Len(wire[Other(e)]), expected[e] <= q, q < expected'[e],
           expected'[e] - q <= 4,
           Bytes([k \in 1..(expected'[e] - q) |-> wire[Other(e)][q + k].primary])
               <= MaxDatagram
    PROVE  \E i \in DOMAIN heard'[e] : heard'[e][i].sequence = q
  <1> DEFINE o == Other(e)
             w == wire[o]
             d == w[j]
             new == Recovered(e, d)
             n == Len(new)
             h == heard[e]
             c == Len(h)
  <1>1. Typed /\ Sent(o)
    BY OtherEnd DEF Inv
  <1>2. o \in Ends /\ w \in Seq(Datagram) /\ h \in Seq(Hearing) /\ expected[e] \in Nat
    BY <1>1, OtherEnd DEF Typed
  <1>3. j \in 1..Len(w) /\ j \in Nat /\ Len(w) \in Nat /\ c \in Nat /\ q \in Nat
    BY <1>2, LenProperties
  <1>4. /\ d \in Datagram /\ d.sequence = j - 1 /\ Greedy(w, j)
        /\ Len(d.redundant) <= 3 /\ Len(d.redundant) < j
        /\ \A k \in 1..Len(d.redundant) : d.redundant[k] = w[j - k].primary
    BY <1>1, <1>2, <1>3, ElementOfSeq DEF Sent, Numbered, Repeats
  <1>5. /\ heard'[e] = h \o new
        /\ expected'[e] = IF new = <<>> THEN expected[e] ELSE j
    <2>1. /\ heard' = [heard EXCEPT ![e] = @ \o new]
          /\ expected' = IF new = <<>> THEN expected
                         ELSE [expected EXCEPT ![e] = d.sequence + 1]
      BY DEF Receive
    <2>2. d.sequence + 1 = j
      BY <1>3, <1>4
    <2> QED
      BY <1>1, <2>1, <2>2 DEF Typed
  <1>6. new # <<>> /\ expected'[e] = j
    BY <1>2, <1>3, <1>5
  <1>7. /\ new \in Seq(Hearing)
        /\ d.sequence < expected[e] => new = <<>>
        /\ expected[e] <= d.sequence =>
             /\ n \in Nat /\ 1 <= n /\ n <= 4 /\ n - 1 <= j - 1 - expected[e]
             /\ n - 1 = j - 1 - expected[e] \/ n - 1 = Len(d.redundant)
             /\ \A i \in 1..n : /\ new[i].sequence = j - 1 - n + i
                                /\ new[i].packet = w[j - n + i].primary
    <2> HIDE DEF w, d, o
    <2>1. d.primary = w[j].primary
      BY DEF d
    <2> QED
      BY <1>2, <1>3, <1>4, <2>1, RecoveredOf
  <1>8. h \o new \in Seq(Hearing) /\ Len(h \o new) = c + n
        /\ \A i \in 1..(c + n) : (h \o new)[i] = IF i <= c THEN h[i] ELSE new[i - c]
    <2> HIDE DEF h, new
    <2> QED
      BY <1>2, <1>7, ConcatProperties
  <1>9. /\ n \in Nat /\ 1 <= n /\ n - 1 <= j - 1 - expected[e]
        /\ n - 1 = j - 1 - expected[e] \/ n - 1 = Len(d.redundant)
        /\ \A i \in 1..n : new[i].sequence = j - 1 - n + i
    <2> HIDE DEF new, d
    <2>1. expected[e] <= d.sequence
      BY <1>2, <1>3, <1>4, <1>6, <1>7
    <2> QED
      BY <1>7, <2>1
  <1>10. j - 1 - q <= Len(d.redundant)
    <2> DEFINE sent == [k \in 1..(j - q) |-> w[q + k].primary]
    <2>1. Bytes(sent) <= MaxDatagram /\ q < j /\ j - q <= 4
      BY <1>6
    <2> HIDE DEF w, d
    <2>2. Bytes(sent) =
             IF j - q = 1 THEN Held(w, j)
             ELSE IF j - q = 2 THEN Held(w, j) + Held(w, j - 1)
             ELSE IF j - q = 3 THEN Held(w, j) + Held(w, j - 1) + Held(w, j - 2)
             ELSE Held(w, j) + Held(w, j - 1) + Held(w, j - 2) + Held(w, j - 3)
      BY <1>2, <1>3, <2>1, BytesHeld
    <2> HIDE DEF sent
    <2>3. Len(d.redundant) \in Nat
      BY <1>4, LenProperties DEF Datagram
    <2>4. CASE j - q = 1
      BY <1>3, <2>3, <2>4
    <2>5. CASE j - q = 2
      <3>1. 2 <= j /\ Held(w, j) + Held(w, j - 1) <= MaxDatagram
        BY <1>3, <2>1, <2>2, <2>5
      <3>2. 1 <= Len(d.redundant)
        BY <1>4, <3>1 DEF Greedy, d
      <3> QED
        BY <1>3, <2>3, <2>5, <3>2
    <2>6. CASE j - q = 3
      <3>1. 3 <= j /\ Held(w, j) + Held(w, j - 1) + Held(w, j - 2) <= MaxDatagram
        BY <1>3, <2>1, <2>2, <2>6
      <3>2. 2 <= Len(d.redundant)
        BY <1>4, <3>1 DEF Greedy, d
      <3> QED
        BY <1>3, <2>3, <2>6, <3>2
    <2>7. CASE j - q = 4
      <3>1. 4 <= j
            /\ Held(w, j) + Held(w, j - 1) + Held(w, j - 2) + Held(w, j - 3) <= MaxDatagram
        BY <1>3, <2>1, <2>2, <2>7
      <3>2. 3 <= Len(d.redundant)
        BY <1>4, <3>1 DEF Greedy, d
      <3> QED
        BY <1>3, <2>3, <2>7, <3>2
    <2> QED
      BY <1>3, <2>1, <2>4, <2>5, <2>6, <2>7
  <1> DEFINE at == n - (j - 1 - q)
  <1>11. at \in 1..n
    <2>1. j - 1 - q <= n - 1
      BY <1>2, <1>3, <1>9, <1>10
    <2> QED
      BY <1>3, <1>6, <1>9, <2>1
  <1>12. new[at].sequence = q
    <2>1. new[at].sequence = j - 1 - n + at
      BY <1>9, <1>11
    <2> QED
      BY <1>3, <1>9, <2>1
  <1> HIDE DEF at, new, h
  <1>13. \E i \in 1..(c + n) : ~(i <= c) /\ i - c = at
    <2>1. ASSUME NEW a \in Nat, NEW b \in Nat, NEW x \in 1..b
          PROVE  \E i \in 1..(a + b) : ~(i <= a) /\ i - a = x
      <3>1. a + x \in 1..(a + b) /\ ~(a + x <= a) /\ a + x - a = x
        OBVIOUS
      <3> QED
        BY <3>1
    <2>2. c \in Nat /\ n \in Nat
      BY <1>3, <1>9
    <2> HIDE DEF c, n
    <2> QED
      BY <1>11, <2>1, <2>2
  <1>14. PICK i \in 1..(c + n) : ~(i <= c) /\ i - c = at
    BY <1>13
  <1>15. (h \o new)[i] = new[at]
    BY <1>8, <1>14
  <1>16. DOMAIN (h \o new) = 1..(c + n)
    BY <1>8, LenProperties
  <1> QED
    BY <1>5, <1>12, <1>15, <1>16

(* A packet is missed only when four datagrams in a row were lost or late, or the *)
(* packets up to the next heard do not fit in a datagram together.                *)
THEOREM MissesOnlyLongGaps == Spec => OnlyLongGaps
  <1> DEFINE A == \A e \in Ends : \A n \in 0..Len(wire[Other(e)]) :
                     (expected[e] <= n /\ n < expected'[e]
                        /\ expected'[e] - n <= 4
                        /\ Bytes([k \in 1..(expected'[e] - n) |-> wire[Other(e)][n + k].primary])
                               <= MaxDatagram) =>
                           \E i \in DOMAIN heard'[e] : heard'[e][i].sequence = n
  <1>1. ASSUME Inv, [Next]_vars PROVE [A]_vars
    <2>1. Typed
      BY <1>1 DEF Inv
    <2>2. CASE UNCHANGED vars
      BY <2>2
    <2>3. ASSUME expected' = expected PROVE A
      <3>1. \A e \in Ends : \A n \in 0..Len(wire[Other(e)]) :
                ~(expected[e] <= n /\ n < expected[e])
        <4> SUFFICES ASSUME NEW e \in Ends, NEW n \in 0..Len(wire[Other(e)])
                     PROVE  ~(expected[e] <= n /\ n < expected[e])
          OBVIOUS
        <4>1. expected[e] \in Nat /\ n \in Int
          BY <2>1 DEF Typed
        <4> QED
          BY <4>1
      <3> QED
        BY <2>3, <3>1
    <2>4. ASSUME NEW x \in Ends, NEW j \in DOMAIN wire[Other(x)], Receive(x, wire[Other(x)][j])
          PROVE  A
      <3> SUFFICES ASSUME NEW e \in Ends, NEW n \in 0..Len(wire[Other(e)]),
                          expected[e] <= n, n < expected'[e], expected'[e] - n <= 4,
                          Bytes([k \in 1..(expected'[e] - n) |-> wire[Other(e)][n + k].primary])
                              <= MaxDatagram
                   PROVE  \E i \in DOMAIN heard'[e] : heard'[e][i].sequence = n
        OBVIOUS
      <3>1. e = x
        <4>1. expected[e] \in Nat /\ n \in Int
          BY <2>1 DEF Typed
        <4>2. e # x => expected'[e] = expected[e]
          BY <2>1, <2>4 DEF Receive, Typed
        <4> QED
          BY <4>1, <4>2
      <3> QED
        BY <1>1, <2>4, <3>1, GapStep
    <2>5. CASE Next
      <3>1. CASE \E e \in Ends : Step(e) \/ PeerHangsUp(e) \/ Completes(e)
        <4>1. expected' = expected
          BY <3>1 DEF Step, Produce, Send, CannotSend, EndFrame, Disconnected,
                      PeerHangsUp, Completes, receiver
        <4> QED
          BY <2>3, <4>1
      <3>2. CASE \E x \in Ends : \E j \in DOMAIN wire[Other(x)] : Receive(x, wire[Other(x)][j])
        BY <2>4, <3>2
      <3> QED
        BY <2>5, <3>1, <3>2 DEF Next
    <2> QED
      BY <1>1, <2>2, <2>5
  <1> QED
    BY <1>1, Invariance, PTL DEF Spec, OnlyLongGaps
=============================================================================
