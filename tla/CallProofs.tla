------------------------------ MODULE CallProofs ------------------------------
(***************************************************************************)
(* Theorems of a call: of the negotiation by which its two ends agree on   *)
(* the media of the fax (CallPump), for any number of refusals,            *)
(* challenges, losses and broken bodies; and of its audio (Media), for all *)
(* streams, packets, ring sizes, delays and widths of timestamps.          *)
(***************************************************************************)
EXTENDS CallPump, Media, SequenceTheorems, WellFoundedInduction, TLAPS

-----------------------------------------------------------------------------
(* The negotiation of the media *)

Whys == {"no", "refused", "changed", "media", "unrestored", "no t38", "nothing to cancel",
         "unsettled", "done", "hangup"}
EventType ==
    [what : {"Media", "MediaError", "Connected", "Disconnected", "InviteStarted", "InviteFinal"},
     kind : Kinds, cseq : Nat, code : Nat]
AttemptType ==
    [at : {"NotStarted", "Backoff", "Waiting", "Accepted", "Rejected"},
     kind : Kinds, cseq : Nat, cancelling : BOOLEAN, ready : BOOLEAN]
PumpType ==
    [connected : BOOLEAN, remote : Kinds \cup {"none"}, attempt : AttemptType, glares : 0 .. 2,
     direct : BOOLEAN, fax : Kinds \cup {"none"}, over : Whys, cseq : Nat,
     out : Kinds \cup {"none", "invite"}]
MessageType == [kind : Kinds \cup {"none"}, cseq : Nat, code : Nat]

(* A set of natural numbers has a least member. *)
LEMMA LeastOf ==
    ASSUME NEW T, T \subseteq Nat, T # {}
    PROVE  \E x \in T : \A y \in T : ~(y < x)
<1> DEFINE R == {ss \in Nat \X Nat : ss[1] < ss[2]}
<1>1. IsWellFoundedOn(R, Nat)
  BY NatLessThanWellFounded, Zenon DEF OpToRel
<1>2. \E x \in T : \A y \in T : ~ (<<y, x>> \in R)
  <2> HIDE DEF R
  <2> QED BY <1>1, WFMin
<1> QED BY <1>2

(* f lists the pump p before and after each of the first n events.         *)
Lists(f, n, p, batch, m) ==
    /\ f[0] = p
    /\ \A i \in 1..n : f[i] = Consume(f[i - 1], batch[i], m)

(* The recursive function in Consumed exists, one step for each event.     *)
LEMMA ConsumedSteps ==
    ASSUME NEW S, NEW batch \in Seq(S), NEW p, NEW m
    PROVE  \E f : Lists(f, Len(batch), p, batch, m) /\ Consumed(p, batch, m) = f[Len(batch)]
<1> DEFINE Body(f, i) == IF i = 0 THEN p
                ELSE CHOOSE q \in {Consume(r, batch[i], m) : r \in {f[i - 1]}} : TRUE
           Solves(f, n) == f = [i \in 0..n |-> Body(f, i)]
           Lacking == {n \in 0..Len(batch) : \A f : ~Solves(f, n)}
           k == CHOOSE f : Solves(f, Len(batch))
<1>0. Len(batch) \in Nat /\ Len(batch) \in 0..Len(batch)
  OBVIOUS
<1>1. \A f, i : i # 0 => Body(f, i) = Consume(f[i - 1], batch[i], m)
  OBVIOUS
<1>2. SUFFICES Lacking = {}
  <2> SUFFICES ASSUME Lacking = {} PROVE Lists(k, Len(batch), p, batch, m)
    /\ Consumed(p, batch, m) = k[Len(batch)]
    OBVIOUS
  <2>1. Solves(k, Len(batch))
    <3> HIDE DEF Solves
    <3> QED BY <1>0
  <2>2. Consumed(p, batch, m) = k[Len(batch)]
    BY Zenon DEF Consumed
  <2>3. k = [i \in 0..Len(batch) |-> Body(k, i)]
    BY <2>1
  <2>4. Lists(k, Len(batch), p, batch, m)
    <3> HIDE DEF k
    <3>1. k[0] = Body(k, 0) /\ \A i \in 1..Len(batch) : k[i] = Body(k, i) /\ i # 0
      <4>1. \A i \in 0..Len(batch) : k[i] = Body(k, i)
        <5> HIDE DEF Body
        <5> QED BY <2>3
      <4>2. 0 \in 0..Len(batch) /\ \A i \in 1..Len(batch) : i \in 0..Len(batch) /\ i # 0
        BY <1>0
      <4> HIDE DEF Body
      <4> QED BY <4>1, <4>2
    <3>2. Body(k, 0) = p
      OBVIOUS
    <3>3. \A i \in 1..Len(batch) : k[i] = Consume(k[i - 1], batch[i], m)
      <4> HIDE DEF Body
      <4> QED BY <3>1, <1>1
    <3> HIDE DEF Body
    <3> QED BY <3>1, <3>2, <3>3 DEF Lists
  <2> QED BY <2>2, <2>4
<1>3. SUFFICES ASSUME Lacking # {} PROVE FALSE
  OBVIOUS
<1>4. PICK n \in Lacking : \A y \in Lacking : ~(y < n)
  <2>1. Lacking \subseteq Nat
    BY <1>0
  <2> HIDE DEF Lacking
  <2> QED BY <2>1, <1>3, LeastOf
<1>5. n \in 0..Len(batch) /\ \A f : ~Solves(f, n)
  OBVIOUS
<1>6. n # 0
  <2>1. Solves([i \in 0..0 |-> p], 0)
    OBVIOUS
  <2> HIDE DEF Solves
  <2> QED BY <2>1, <1>5
<1>7. n - 1 \in 0..Len(batch) /\ n - 1 < n
  BY <1>5, <1>6, <1>0
<1>8. PICK g : Solves(g, n - 1)
  <2>1. n - 1 \notin Lacking
    BY <1>7, <1>4
  <2> HIDE DEF Solves
  <2> QED BY <2>1, <1>7
<1> DEFINE h == [i \in 0..n |-> IF i = n THEN Body(g, n) ELSE g[i]]
<1>9. Solves(h, n)
  <2>1. \A i \in 0..n - 1 : h[i] = g[i] /\ i \in 0..n
    BY <1>5, <1>7, <1>0
  <2>2. h[n] = Body(g, n) /\ n \in 0..n
    BY <1>5, <1>0
  <2>3. ASSUME NEW i \in 0..n PROVE h[i] = Body(h, i)
    <3>1. i # 0 => i - 1 \in 0..n - 1
      BY <1>5, <1>0
    <3>2. i # 0 => h[i - 1] = g[i - 1]
      BY <3>1, <2>1
    <3>3. Body(h, i) = Body(g, i)
      <4> HIDE DEF h
      <4> QED BY <3>2
    <3>4. CASE i = n
      BY <3>4, <3>3, <2>2
    <3>5. CASE i # n
      <4>1. i \in 0..n - 1
        BY <3>5, <1>5, <1>0
      <4>2. g[i] = Body(g, i)
        <5> HIDE DEF Body
        <5> QED BY <1>8, <4>1
      <4> QED BY <4>1, <4>2, <2>1, <3>3
    <3> QED BY <3>4, <3>5
  <2> HIDE DEF Body
  <2>4. h = [i \in 0..n |-> h[i]]
    OBVIOUS
  <2> HIDE DEF h
  <2> QED BY <2>3, <2>4
<1> QED
  <2> HIDE DEF Solves, h
  <2> QED BY <1>9, <1>5

(* Two lists of the same events agree. *)
LEMMA ListsAgree ==
    ASSUME NEW S, NEW batch \in Seq(S), NEW more \in Seq(S), NEW p, NEW m, NEW f, NEW g,
           Lists(f, Len(batch), p, batch, m), NEW n \in Nat, Len(batch) <= n,
           Lists(g, n, p, more, m),
           \A i \in 1..Len(batch) : more[i] = batch[i]
    PROVE  g[Len(batch)] = f[Len(batch)]
<1> DEFINE Apart == {i \in 0..Len(batch) : g[i] # f[i]}
<1>0. Len(batch) \in Nat
  OBVIOUS
<1>1. SUFFICES ASSUME Apart # {} PROVE FALSE
  BY <1>0
<1>2. PICK i \in Apart : \A y \in Apart : ~(y < i)
  <2>1. Apart \subseteq Nat
    BY <1>0
  <2> HIDE DEF Apart
  <2> QED BY <2>1, <1>1, LeastOf
<1>3. i # 0
  BY DEF Lists
<1>4. i \in 1..Len(batch) /\ i \in 1..n /\ i - 1 \in 0..Len(batch) /\ i - 1 < i
  BY <1>3, <1>0
<1>5. g[i - 1] = f[i - 1]
  BY <1>4, <1>2
<1>6. g[i] = f[i]
  BY <1>4, <1>5 DEF Lists
<1> QED BY <1>6

(* No event, and one event more. *)
LEMMA ConsumedNone ==
    ASSUME NEW p, NEW m
    PROVE  Consumed(p, <<>>, m) = p
<1>1. PICK f : Lists(f, Len(<<>>), p, <<>>, m) /\ Consumed(p, <<>>, m) = f[Len(<<>>)]
  <2>1. <<>> \in Seq({})
    OBVIOUS
  <2> QED BY <2>1, ConsumedSteps
<1> QED BY <1>1 DEF Lists

(* A batch with one event more is consumed as the batch, then the event. *)
LEMMA ConsumedOne ==
    ASSUME NEW S, NEW batch \in Seq(S), NEW x \in S, NEW p, NEW m
    PROVE  Consumed(p, Append(batch, x), m) = Consume(Consumed(p, batch, m), x, m)
<1> DEFINE more == Append(batch, x)
           n == Len(batch)
<1>1. /\ more \in Seq(S) /\ Len(more) = n + 1 /\ n \in Nat /\ more[n + 1] = x
      /\ \A i \in 1..n : more[i] = batch[i]
  OBVIOUS
<1> HIDE DEF more
<1>2. PICK f : Lists(f, n, p, batch, m) /\ Consumed(p, batch, m) = f[n]
  BY ConsumedSteps
<1>3. PICK g : Lists(g, Len(more), p, more, m) /\ Consumed(p, more, m) = g[Len(more)]
  BY <1>1, ConsumedSteps
<1>4. g[n] = f[n]
  BY <1>1, <1>2, <1>3, ListsAgree
<1>5. g[n + 1] = Consume(g[(n + 1) - 1], more[n + 1], m) /\ (n + 1) - 1 = n
  BY <1>1, <1>3 DEF Lists
<1> QED BY <1>1, <1>2, <1>3, <1>4, <1>5 DEF more

-----------------------------------------------------------------------------
(* The attempts and the pumps that the code assigns have their types. *)
LEMMA PumpTypes ==
    /\ NotStarted \in AttemptType /\ Backoff \in AttemptType
    /\ Accepted \in AttemptType /\ Rejected \in AttemptType
    /\ \A kind \in Kinds, n \in Nat : Waiting(kind, n) \in AttemptType
    /\ Fresh \in PumpType
    /\ \A why \in Whys : Failed(why) \in PumpType
<1>1. NotStarted \in AttemptType /\ Backoff \in AttemptType /\ Accepted \in AttemptType
        /\ Rejected \in AttemptType
  BY DEF NotStarted, Backoff, Accepted, Rejected, Attempt, AttemptType, Kinds
<1>2. \A kind \in Kinds, n \in Nat : Waiting(kind, n) \in AttemptType
  BY DEF Waiting, Attempt, AttemptType, Kinds
<1>3. Fresh \in PumpType
  BY <1>1 DEF Fresh, PumpType, Whys, Kinds
<1>4. \A why \in Whys : Failed(why) \in PumpType
  BY <1>3 DEF Failed, PumpType
<1> QED BY <1>1, <1>2, <1>3, <1>4

(* A pump that sends a re-INVITE keeps its type. *)
LEMMA ReinviteType ==
    ASSUME NEW p \in PumpType, NEW kind \in Kinds
    PROVE  Reinvite(p, kind) \in PumpType
<1> DEFINE a == Waiting(kind, p.cseq + 1)
<1>1. a \in AttemptType /\ p.cseq + 1 \in Nat
  BY PumpTypes DEF PumpType
<1>2. Reinvite(p, kind) = [p EXCEPT !.cseq = p.cseq + 1, !.out = kind, !.attempt = a]
  BY DEF Reinvite
<1> HIDE DEF a
<1> QED BY <1>1, <1>2 DEF PumpType

(* A pump keeps its type when its attempt changes. *)
LEMMA AttemptTypes ==
    ASSUME NEW p \in PumpType
    PROVE  /\ \A a \in AttemptType : [p EXCEPT !.attempt = a] \in PumpType
           /\ \A b \in BOOLEAN : [p EXCEPT !.attempt.ready = b] \in PumpType
           /\ \A b \in BOOLEAN, kind \in Kinds : [p EXCEPT !.remote = kind, !.attempt.ready
                = b] \in PumpType
           /\ \A n \in Nat : [p EXCEPT !.attempt.cseq = n] \in PumpType
<1>1. p.attempt \in AttemptType
  BY DEF PumpType
<1>2. \A b \in BOOLEAN : [p.attempt EXCEPT !.ready = b] \in AttemptType
  BY <1>1 DEF AttemptType
<1>3. \A n \in Nat : [p.attempt EXCEPT !.cseq = n] \in AttemptType
  BY <1>1 DEF AttemptType
<1>4. \A a \in AttemptType : [p EXCEPT !.attempt = a] \in PumpType
  BY DEF PumpType
<1>5. \A a \in AttemptType, kind \in Kinds : [p EXCEPT !.remote = kind, !.attempt = a] \in PumpType
  BY DEF PumpType
<1>6. /\ \A b : [p EXCEPT !.attempt.ready = b] = [p EXCEPT !.attempt
           = [p.attempt EXCEPT !.ready = b]]
      /\ \A b, kind : [p EXCEPT !.remote = kind, !.attempt.ready = b]
                       = [p EXCEPT !.remote = kind, !.attempt = [p.attempt EXCEPT !.ready = b]]
      /\ \A n : [p EXCEPT !.attempt.cseq = n] = [p EXCEPT !.attempt = [p.attempt EXCEPT !.cseq = n]]
  BY DEF PumpType
<1> QED BY <1>2, <1>3, <1>4, <1>5, <1>6

(* Every event leaves a pump with its type. *)
LEMMA ConsumeType ==
    ASSUME NEW p \in PumpType, NEW x \in EventType, NEW m
    PROVE  Consume(p, x, m) \in PumpType
<1> USE DEF EventType
<1>1. CASE p.over # "no"
  BY <1>1 DEF Consume
<1>2. CASE p.over = "no" /\ x.what = "Connected"
  BY <1>2 DEF Consume, PumpType
<1>3. CASE p.over = "no" /\ x.what = "Disconnected"
  <2>1. Failed("refused") \in PumpType
    BY PumpTypes DEF Whys
  <2>2. [p EXCEPT !.direct = TRUE, !.remote = "none", !.out = "invite"] \in PumpType
    BY DEF PumpType
  <2> QED BY <1>3, <2>1, <2>2 DEF Consume, OnDisconnected
<1>4. CASE p.over = "no" /\ x.what = "Media"
  <2>1. Failed("changed") \in PumpType
    BY PumpTypes DEF Whys
  <2> DEFINE b == p.attempt.at = "Waiting" /\ x.kind = p.attempt.kind
  <2>2. b \in BOOLEAN
    OBVIOUS
  <2>3. Consume(p, x, m) = Failed("changed")
        \/ Consume(p, x, m) = [p EXCEPT !.remote = x.kind, !.attempt.ready = b]
    BY <1>4 DEF Consume, OnMedia
  <2> HIDE DEF b
  <2>4. [p EXCEPT !.remote = x.kind, !.attempt.ready = b] \in PumpType
    BY <2>2, AttemptTypes
  <2> QED BY <2>1, <2>3, <2>4
<1>5. CASE p.over = "no" /\ x.what = "MediaError"
  <2>1. Failed("media") \in PumpType
    BY PumpTypes DEF Whys
  <2> QED BY <1>5, <2>1, AttemptTypes DEF Consume, OnMediaError
<1>6. CASE p.over = "no" /\ x.what = "InviteStarted"
  BY <1>6, AttemptTypes DEF Consume, OnInviteStarted
<1>7. CASE p.over = "no" /\ x.what = "InviteFinal"
  <2>1. Failed("unrestored") \in PumpType /\ Reinvite(p, "audio") \in PumpType
    BY PumpTypes, ReinviteType DEF Whys, Kinds
  <2>2. \A a \in {Backoff, Accepted, Rejected} : [p EXCEPT !.attempt = a] \in PumpType
    BY PumpTypes DEF PumpType
  <2>3. p.glares < 2 => [p EXCEPT !.glares = @ + 1, !.attempt = Backoff] \in PumpType
    <3>1. p.glares \in 0..2 /\ (p.glares < 2 => p.glares + 1 \in 0..2)
      BY DEF PumpType
    <3> QED BY <3>1, PumpTypes DEF PumpType
  <2>4. OnInviteFinal(p, x.cseq, x.code) \in PumpType
    BY <2>1, <2>2, <2>3 DEF OnInviteFinal
  <2> QED BY <1>7, <2>4 DEF Consume
<1> QED BY <1>1, <1>2, <1>3, <1>4, <1>5, <1>6, <1>7 DEF PumpType

(* What a pump has become, and sent, in a batch is not taken back in it.   *)
Busy(p) == p.over # "no" \/ p.out # "none"

(* An event does not take back what a pump has sent or that it is done. *)
LEMMA StaysBusy ==
    ASSUME NEW p \in PumpType, NEW x \in EventType, NEW m, Busy(p)
    PROVE  Busy(Consume(p, x, m))
<1> USE DEF EventType, Busy
<1>1. CASE p.over # "no"
  BY <1>1 DEF Consume
<1>2. CASE p.over = "no" /\ x.what = "Connected"
  BY <1>2 DEF Consume, PumpType
<1>3. CASE p.over = "no" /\ x.what = "Disconnected"
  BY <1>3 DEF Consume, OnDisconnected, PumpType, Failed, Fresh
<1>4. CASE p.over = "no" /\ x.what = "Media"
  BY <1>4 DEF Consume, OnMedia, PumpType, Failed, Fresh
<1>5. CASE p.over = "no" /\ x.what = "MediaError"
  BY <1>5 DEF Consume, OnMediaError, PumpType, Failed, Fresh
<1>6. CASE p.over = "no" /\ x.what = "InviteStarted"
  BY <1>6 DEF Consume, OnInviteStarted, PumpType
<1>7. CASE p.over = "no" /\ x.what = "InviteFinal"
  <2>1. Busy(OnInviteFinal(p, x.cseq, x.code))
    BY <1>7 DEF OnInviteFinal, PumpType, Failed, Fresh, Reinvite
  <2> QED BY <1>7, <2>1 DEF Consume
<1> QED BY <1>1, <1>2, <1>3, <1>4, <1>5, <1>6, <1>7 DEF PumpType

(* Until then a pump consumes its events the same if PJSIP has numbered an *)
(* offer anew behind its back.                                             *)
Later(p) == [p EXCEPT !.cseq = @ + 1]

(* An event is consumed alike before and after PJSIP numbers an offer anew. *)
LEMMA ConsumeLater ==
    ASSUME NEW p \in PumpType, NEW x \in EventType, NEW m, ~Busy(p)
    PROVE  Busy(Consume(p, x, m)) \/ Consume(Later(p), x, m) = Later(Consume(p, x, m))
<1> USE DEF EventType, Busy
<1>0. /\ Later(p) \in PumpType /\ Later(p).over = p.over
      /\ Later(p).attempt = p.attempt
      /\ \A a \in AttemptType : Later([p EXCEPT !.attempt = a]) = [Later(p) EXCEPT !.attempt = a]
  <2>1. Later(p) \in PumpType /\ Later(p).over = p.over /\ Later(p).attempt = p.attempt
    BY DEF Later, PumpType
  <2>2. ASSUME NEW a \in AttemptType
        PROVE  Later([p EXCEPT !.attempt = a]) = [Later(p) EXCEPT !.attempt = a]
    BY DEF Later, PumpType
  <2> QED BY <2>1, <2>2
<1>1. CASE x.what = "Connected"
  BY <1>0, <1>1 DEF Consume, PumpType, Later
<1>2. CASE x.what = "Disconnected"
  BY <1>2 DEF Consume, OnDisconnected, PumpType, Failed, Fresh, Later
<1>3. CASE x.what = "Media"
  <2> DEFINE b == p.attempt.at = "Waiting" /\ x.kind = p.attempt.kind
  <2>1. Later([p EXCEPT !.remote = x.kind, !.attempt.ready = b]) = [Later(p) EXCEPT !.remote
          = x.kind, !.attempt.ready = b]
    BY DEF Later, PumpType
  <2>2. Later(p).remote = p.remote /\ Later(p).fax = p.fax /\ Busy(Failed("changed"))
    BY DEF Later, PumpType, Failed, Fresh
  <2> QED BY <1>0, <1>3, <2>1, <2>2 DEF Consume, OnMedia
<1>4. CASE x.what = "MediaError"
  BY <1>0, <1>4 DEF Consume, OnMediaError, PumpType, AttemptType, Failed, Fresh, Later
<1>5. CASE x.what = "InviteStarted"
  BY <1>0, <1>5 DEF Consume, OnInviteStarted, PumpType, AttemptType, Later
<1>6. CASE x.what = "InviteFinal"
  <2>1. Busy(OnInviteFinal(p, x.cseq, x.code)) \/ OnInviteFinal(Later(p), x.cseq, x.code)
          = Later(OnInviteFinal(p, x.cseq, x.code))
    <3>1. Busy(Reinvite(p, "audio")) /\ Busy(Failed("unrestored"))
      BY DEF Reinvite, Failed, Fresh, PumpType
    <3>2. Later(p).attempt = p.attempt /\ Later(p).glares = p.glares /\ Later(p).remote = p.remote
      BY DEF Later, PumpType
    <3>3. p.glares < 2 => [Later(p) EXCEPT !.glares = @ + 1, !.attempt = Backoff]
            = Later([p EXCEPT !.glares = @ + 1, !.attempt = Backoff])
      BY PumpTypes DEF Later, PumpType
    <3> HIDE DEF Busy
    <3> QED BY <1>0, <3>1, <3>2, <3>3, PumpTypes DEF OnInviteFinal
  <2> QED BY <1>0, <1>6, <2>1 DEF Consume
<1> QED BY <1>1, <1>2, <1>3, <1>4, <1>5, <1>6

(* Every pump in the list of a batch has its type. *)
LEMMA ConsumedType ==
    ASSUME NEW batch \in Seq(EventType), NEW p \in PumpType, NEW m, NEW f, NEW n \in 0..Len(batch),
           Lists(f, Len(batch), p, batch, m)
    PROVE  f[n] \in PumpType
<1> DEFINE Bad == {i \in 0..Len(batch) : f[i] \notin PumpType}
<1>0. Len(batch) \in Nat
  OBVIOUS
<1>1. SUFFICES ASSUME Bad # {} PROVE FALSE
  OBVIOUS
<1>2. PICK i \in Bad : \A y \in Bad : ~(y < i)
  <2>1. Bad \subseteq Nat
    BY <1>0
  <2> HIDE DEF Bad
  <2> QED BY <2>1, <1>1, LeastOf
<1>3. i # 0
  BY DEF Lists
<1>4. i \in 1..Len(batch) /\ i - 1 \in 0..Len(batch) /\ i - 1 < i
  BY <1>3, <1>0
<1>5. f[i - 1] \in PumpType /\ batch[i] \in EventType
  BY <1>4, <1>2
<1>6. f[i] = Consume(f[i - 1], batch[i], m)
  BY <1>4 DEF Lists
<1> QED BY <1>5, <1>6, ConsumeType

(* So is a whole batch. *)
LEMMA ConsumedLater ==
    ASSUME NEW batch \in Seq(EventType), NEW p \in PumpType, NEW m, ~Busy(Consumed(p, batch, m))
    PROVE  Consumed(Later(p), batch, m) = Later(Consumed(p, batch, m))
<1>1. PICK f : Lists(f, Len(batch), p, batch, m) /\ Consumed(p, batch, m) = f[Len(batch)]
  BY ConsumedSteps
<1>2. PICK g : Lists(g, Len(batch), Later(p), batch, m)
        /\ Consumed(Later(p), batch, m) = g[Len(batch)]
  BY ConsumedSteps
<1> DEFINE Fine(i) == Busy(f[i]) \/ g[i] = Later(f[i])
           Bad == {i \in 0..Len(batch) : ~Fine(i)}
<1>0. Len(batch) \in Nat
  OBVIOUS
<1>3. SUFFICES Bad = {}
  <2>1. Bad = {} => Fine(Len(batch))
    BY <1>0
  <2> QED BY <2>1, <1>1, <1>2
<1>4. SUFFICES ASSUME Bad # {} PROVE FALSE
  OBVIOUS
<1>5. PICK i \in Bad : \A y \in Bad : ~(y < i)
  <2>1. Bad \subseteq Nat
    BY <1>0
  <2> HIDE DEF Bad
  <2> QED BY <2>1, <1>4, LeastOf
<1>6. i # 0
  BY <1>1, <1>2 DEF Lists
<1>7. i \in 1..Len(batch) /\ i - 1 \in 0..Len(batch) /\ i - 1 < i
  BY <1>6, <1>0
<1>8. Fine(i - 1) /\ f[i - 1] \in PumpType /\ batch[i] \in EventType
  BY <1>1, <1>5, <1>7, ConsumedType
<1>9. f[i] = Consume(f[i - 1], batch[i], m) /\ g[i] = Consume(g[i - 1], batch[i], m)
  BY <1>1, <1>2, <1>7 DEF Lists
<1>10. Fine(i)
  <2>1. CASE Busy(f[i - 1])
    BY <2>1, <1>8, <1>9, StaysBusy
  <2>2. CASE ~Busy(f[i - 1])
    BY <2>2, <1>8, <1>9, ConsumeLater
  <2> QED BY <2>1, <2>2
<1> QED BY <1>10
-----------------------------------------------------------------------------
(* The inductive invariant.  v is the pump of e as the events that step()  *)
(* has not drained yet are going to leave it.                              *)
Ahead(e) == Consumed(pump[e], events[e], mode[e])
Lives(v) == v.over = "no"
Asking(v) == v.attempt.at = "Waiting"

Shaped ==
    /\ mode \in [Ends -> Modes]
    /\ dialog \in [at : {"invited", "refused", "answered", "acknowledged", "confirmed"}, kind : Kinds]
    /\ current \in [Ends -> Kinds]
    /\ events \in [Ends -> Seq(EventType)]
    /\ pump \in [Ends -> PumpType]
    /\ offer \in [Ends -> MessageType] /\ reply \in [Ends -> MessageType]
    /\ linger \in [Ends -> MessageType]
    /\ surprises \in Nat

(* Before the call is connected an end has offered nothing and has begun   *)
(* no fax; the media it knows of is the media PJSIP holds active.          *)
Staged(e, v) == Lives(v) =>
    /\ dialog.at \in {"invited", "refused", "answered"} => ~v.connected
    /\ dialog.at = "acknowledged" /\ e = "callee" => ~v.connected
    /\ ~v.connected => v.attempt.at = "NotStarted" /\ v.fax = "none"
    /\ v.out = "invite" =>
          dialog.at = "refused" /\ e = "caller" /\ ~v.connected /\ v.remote = "none"
    /\ v.remote # "none" => v.remote = current[e]

(* A re-INVITE is on its way, or its answer is; who accepted it has        *)
(* switched, and only one of the two ends is waiting for such an answer.   *)
Wired(e) ==
    /\ offer[e] = Nothing \/ reply[e] = Nothing
    /\ offer[e] = Nothing \/ offer[e].kind \in Kinds
    /\ reply[e] = Nothing \/ reply[e].code \in {200, 487, 488, 491}
    /\ reply[e].kind # "none" => reply[e].code = 200 /\ current[Other(e)] = reply[e].kind
    /\ reply[e].kind = "none" \/ reply[Other(e)].kind = "none"

(* How many re-INVITEs an end has sent at most, challenged ones apart. *)
Weight(v) ==
    IF v.attempt.at = "NotStarted" THEN 0
    ELSE IF v.attempt.at = "Backoff" THEN v.glares
    ELSE IF Asking(v) /\ v.attempt.kind = "t38" THEN v.glares + 1
    ELSE 4

(* An attempt waits exactly while its own offer, the newest, is pending or *)
(* about to be sent.                                                       *)
Sends(e, v) ==
    /\ Asking(v) <=> Pending(e) \/ v.out \in Kinds
    /\ v.out # "none" => ~Pending(e)
    /\ v.out = "none" => v.cseq = pump[e].cseq
    /\ v.out \in Kinds => v.attempt.kind = v.out
    /\ v.attempt.at # "NotStarted" => mode[e] = "auto"
    /\ Asking(v) => v.attempt.cseq = v.cseq
    /\ Asking(v) /\ v.attempt.kind = "t38" => v.remote = "audio"
    /\ offer[e] # Nothing => offer[e].kind = v.attempt.kind /\ offer[e].cseq = v.cseq
    /\ reply[e] # Nothing =>
          reply[e].kind \in {"none", v.attempt.kind} /\ reply[e].cseq = v.cseq
    /\ linger[e] # Nothing =>
          linger[e].cseq <= v.cseq /\ (Asking(v) => linger[e].cseq < v.cseq)
    /\ v.cseq <= Weight(v) + surprises

Asked(e, v) ==
    IF Lives(v) THEN v.out # "t38" /\ Sends(e, v)
    ELSE offer[e] = Nothing /\ reply[e] = Nothing

(* A fax runs over the media of the end, and nothing is being negotiated. *)
Runs(e, v) ==
    /\ Lives(v) => Alive(e) /\ v.fax = pump[e].fax
    /\ pump[e].fax # "none" =>
          Lives(v) /\ ~Asking(v) /\ v.remote = v.fax /\ v.glares = pump[e].glares
    /\ Lives(v) /\ v.fax = "audio" /\ mode[e] = "auto" => v.attempt.at = "Rejected"

Clean(e, v) ==
    /\ ~Lives(v) => v = Failed(v.over)
    /\ v.over \notin {"changed", "nothing to cancel"}
    /\ pump[e].over \notin {"changed", "nothing to cancel"}
    /\ pump[e].out = "none"
    /\ pump[e].cseq <= 4 + surprises

(* Without interference audio comes from three collisions only. *)
BothAuto == \A e \in Ends : mode[e] = "auto" /\ Alive(e)
Collided(v) == v.glares = 2 \/ \E p \in Ends : pump[p].glares = 2
Resorts(e, v) ==
    /\ surprises = 0 =>
          /\ ~pump[e].attempt.cancelling
          /\ Lives(v) => ~v.attempt.cancelling /\ (Asking(v) => v.attempt.kind = "t38")
          /\ reply[e].code # 487
          /\ reply[e].code = 200 => reply[e].kind # "none"
    /\ Lives(v) /\ pump[e].glares = 2 => v.glares = 2
    /\ BothAuto /\ surprises = 0 /\ Lives(v) /\ (v.attempt.at = "Rejected"
         \/ reply[e].code = 488) =>
          Collided(v)

(* The ends are on different media only while one of them waits for an     *)
(* answer that will bring them together or end the call.                   *)
Behind(e, v) == Asking(v) /\ (v.attempt.kind = "audio" \/ reply[e].code = 200)
Coherent(v) ==
    /\ dialog.at \in {"invited", "answered"}
         /\ Lives(v["caller"]) => current["caller"] = dialog.kind
    /\ dialog.at = "answered" => current["callee"] = dialog.kind
    /\ (\A e \in Ends : Lives(v[e])) /\ dialog.at \in {"acknowledged", "confirmed"}
          /\ current["caller"] # current["callee"] => \E e \in Ends : Behind(e, v[e])

Sound(v) ==
    /\ Shaped /\ v \in [Ends -> PumpType]
    /\ \A e \in Ends : Staged(e, v[e])
    /\ \A e \in Ends : Wired(e)
    /\ \A e \in Ends : Asked(e, v[e])
    /\ \A e \in Ends : Runs(e, v[e])
    /\ \A e \in Ends : Clean(e, v[e])
    /\ \A e \in Ends : Resorts(e, v[e])
    /\ Coherent(v)

Foreseen(v) == v = [e \in Ends |-> Ahead(e)]

Agreeing == \A v : Foreseen(v) => Sound(v)

-----------------------------------------------------------------------------
(* The two ends of a call. *)
LEMMA TwoEnds ==
    /\ Ends = {"caller", "callee"}
    /\ Other("caller") = "callee" /\ Other("callee") = "caller"
    /\ \A e \in Ends :
          /\ Other(e) \in Ends /\ Other(e) # e /\ Other(Other(e)) = e
          /\ \A x \in Ends : x # e => x = Other(e)
<1>1. \A e \in Ends : Other(e) \in Ends /\ Other(e) # e
  BY DEF Ends, Other
<1> QED BY <1>1 DEF Ends

(* Messages on the wire have their type. *)
LEMMA MessageTypes ==
    /\ Nothing \in MessageType /\ Nothing.kind = "none" /\ Nothing.code = 0 /\ Nothing.cseq = 0
    /\ \A kind \in Kinds \cup {"none"}, n \in Nat, code \in Nat :
          /\ Message(kind, n, code) \in MessageType
          /\ Message(kind, n, code).kind = kind
          /\ Message(kind, n, code).cseq = n
          /\ Message(kind, n, code).code = code
  BY DEF Nothing, Message, MessageType, Kinds

(* An empty place on the wire is no answer. *)
LEMMA NoAnswer == Nothing.code \notin {200, 487, 488, 491} /\ Nothing.kind = "none"
  BY DEF Nothing

(* Events have their type. *)
LEMMA EventTypes ==
    /\ \A kind \in Kinds : Media(kind) \in EventType
    /\ MediaError \in EventType /\ Connected \in EventType
    /\ \A n \in Nat : InviteStarted(n) \in EventType /\ Disconnected(n) \in EventType
    /\ \A n, code \in Nat : InviteFinal(n, code) \in EventType
  BY DEF Media, MediaError, Connected, Disconnected, InviteStarted, InviteFinal, Event,
       EventType, Kinds

(* What each event does to a pump. *)
LEMMA Consumes ==
    ASSUME NEW p, NEW m
    PROVE  /\ ~Lives(p) => \A x : Consume(p, x, m) = p
           /\ Lives(p) =>
                 /\ \A kind : Consume(p, Media(kind), m) = OnMedia(p, kind)
                 /\ Consume(p, MediaError, m) = OnMediaError(p)
                 /\ Consume(p, Connected, m) = [p EXCEPT !.connected = TRUE]
                 /\ \A code : Consume(p, Disconnected(code), m) = OnDisconnected(p, m)
                 /\ \A n : Consume(p, InviteStarted(n), m) = OnInviteStarted(p, n)
                 /\ \A n, code : Consume(p, InviteFinal(n, code), m) = OnInviteFinal(p, n, code)
  BY DEF Consume, Lives, Media, MediaError, Connected, Disconnected, InviteStarted,
       InviteFinal, Event

(* A pump that is done ignores what comes. *)
LEMMA Deaf ==
    ASSUME NEW p, ~Lives(p), NEW x, NEW m
    PROVE  Consume(p, x, m) = p
  BY DEF Consume, Lives

(* One pump of the two is replaced. *)
LEMMA Updated ==
    ASSUME NEW v \in [Ends -> PumpType], NEW x \in Ends, NEW q \in PumpType, NEW w,
           w = [v EXCEPT ![x] = q]
    PROVE  /\ w \in [Ends -> PumpType] /\ w[x] = q
           /\ \A y \in Ends : y # x => w[y] = v[y]
  OBVIOUS

(* How the pump ahead moves with the events of an end. *)
LEMMA AheadSame ==
    ASSUME NEW e \in Ends, pump'[e] = pump[e], events'[e] = events[e], mode'[e] = mode[e]
    PROVE  Ahead(e)' = Ahead(e)
  BY DEF Ahead

(* An end that has drained its events has nothing ahead of it. *)
LEMMA AheadDrained ==
    ASSUME NEW e \in Ends, events'[e] = <<>>
    PROVE  Ahead(e)' = pump'[e]
  BY ConsumedNone DEF Ahead

(* One event more moves the pump ahead by that event, *)
LEMMA AheadOne ==
    ASSUME Shaped, NEW e \in Ends, pump'[e] = pump[e], mode'[e] = mode[e],
           NEW x \in EventType, events'[e] = events[e] \o <<x>>
    PROVE  Ahead(e)' = Consume(Ahead(e), x, mode[e])
<1>1. events[e] \in Seq(EventType)
  BY DEF Shaped
<1>2. events'[e] = Append(events[e], x)
  BY <1>1
<1>3. Consumed(pump[e], Append(events[e], x), mode[e])
        = Consume(Consumed(pump[e], events[e], mode[e]), x, mode[e])
  BY <1>1, ConsumedOne
<1> QED BY <1>2, <1>3 DEF Ahead

(* and two events by both. *)
LEMMA AheadTwo ==
    ASSUME Shaped, NEW e \in Ends, pump'[e] = pump[e], mode'[e] = mode[e],
           NEW x \in EventType, NEW y \in EventType, events'[e] = events[e] \o <<x, y>>
    PROVE  Ahead(e)' = Consume(Consume(Ahead(e), x, mode[e]), y, mode[e])
<1>1. events[e] \in Seq(EventType)
  BY DEF Shaped
<1> DEFINE more == Append(events[e], x)
<1>2. more \in Seq(EventType) /\ events'[e] = Append(more, y)
  BY <1>1
<1>3. Consumed(pump[e], more, mode[e]) = Consume(Ahead(e), x, mode[e])
  BY <1>1, ConsumedOne DEF Ahead
<1>4. Consumed(pump[e], Append(more, y), mode[e])
        = Consume(Consumed(pump[e], more, mode[e]), y, mode[e])
  <2> HIDE DEF more
  <2> QED BY <1>2, ConsumedOne
<1> QED BY <1>2, <1>3, <1>4 DEF Ahead

(* The pump ahead has its type. *)
LEMMA AheadType ==
    ASSUME Shaped, NEW e \in Ends
    PROVE  Ahead(e) \in PumpType
<1>1. events[e] \in Seq(EventType) /\ pump[e] \in PumpType /\ Len(events[e]) \in 0..Len(events[e])
  BY DEF Shaped
<1>2. PICK f : Lists(f, Len(events[e]), pump[e], events[e], mode[e]) /\ Ahead(e) = f[Len(events[e])]
  BY <1>1, ConsumedSteps DEF Ahead
<1> QED BY <1>1, <1>2, ConsumedType

Counted == surprises' \in {surprises, surprises + 1}

(* The counters of a state are numbers. *)
LEMMA Counts ==
    ASSUME NEW v, Sound(v), NEW x \in Ends
    PROVE  /\ v[x].cseq \in Nat /\ v[x].glares \in 0..2 /\ Weight(v[x]) \in 0..4
           /\ pump[x].cseq \in Nat /\ pump[x].glares \in 0..2 /\ surprises \in Nat
<1>1. v[x] \in PumpType /\ pump[x] \in PumpType /\ surprises \in Nat
  BY DEF Sound, Shaped
<1>2. v[x].cseq \in Nat /\ v[x].glares \in 0..2 /\ pump[x].cseq \in Nat /\ pump[x].glares \in 0..2
  BY <1>1 DEF PumpType
<1>3. Weight(v[x]) \in 0..4
  BY <1>2 DEF Weight
<1> QED BY <1>1, <1>2, <1>3

(* One event, and two, for one end. *)
LEMMA OneEvent ==
    ASSUME NEW v, NEW w, Sound(v), Foreseen(v), Foreseen(w)', NEW e \in Ends, NEW x \in EventType,
           Push(e, <<x>>), UNCHANGED <<pump, mode>>
    PROVE  /\ events' \in [Ends -> Seq(EventType)]
           /\ w = [v EXCEPT ![e] = Consume(v[e], x, mode[e])]
<1>1. events' = [events EXCEPT ![e] = @ \o <<x>>] /\ events \in [Ends -> Seq(EventType)] /\ Shaped
  BY DEF Push, Sound, Shaped
<1>2. events' \in [Ends -> Seq(EventType)]
  BY <1>1
<1>3. Ahead(e)' = Consume(v[e], x, mode[e])
  <2>1. pump'[e] = pump[e] /\ mode'[e] = mode[e] /\ events'[e] = events[e] \o <<x>>
    BY <1>1
  <2>2. Ahead(e)' = Consume(Ahead(e), x, mode[e])
    BY <1>1, <2>1, AheadOne
  <2> QED BY <2>2 DEF Foreseen
<1>4. ASSUME NEW y \in Ends, y # e PROVE Ahead(y)' = v[y]
  <2>1. pump'[y] = pump[y] /\ mode'[y] = mode[y] /\ events'[y] = events[y]
    BY <1>1, <1>4
  <2> QED BY <2>1, AheadSame DEF Foreseen
<1> QED BY <1>2, <1>3, <1>4 DEF Foreseen

(* The same with two events. *)
LEMMA TwoEvents ==
    ASSUME NEW v, NEW w, Sound(v), Foreseen(v), Foreseen(w)', NEW e \in Ends,
           NEW x \in EventType, NEW z \in EventType,
           Push(e, <<x, z>>), UNCHANGED <<pump, mode>>
    PROVE  /\ events' \in [Ends -> Seq(EventType)]
           /\ w = [v EXCEPT ![e] = Consume(Consume(v[e], x, mode[e]), z, mode[e])]
<1>1. events' = [events EXCEPT ![e] = @ \o <<x, z>>] /\ events \in [Ends -> Seq(EventType)]
        /\ Shaped
  BY DEF Push, Sound, Shaped
<1>2. events' \in [Ends -> Seq(EventType)]
  <2>1. <<x, z>> \in Seq(EventType)
    OBVIOUS
  <2>2. events[e] \o <<x, z>> \in Seq(EventType)
    BY <1>1, <2>1
  <2> QED BY <1>1, <2>2
<1>3. Ahead(e)' = Consume(Consume(v[e], x, mode[e]), z, mode[e])
  <2>1. pump'[e] = pump[e] /\ mode'[e] = mode[e] /\ events'[e] = events[e] \o <<x, z>>
    BY <1>1
  <2>2. Ahead(e)' = Consume(Consume(Ahead(e), x, mode[e]), z, mode[e])
    BY <1>1, <2>1, AheadTwo
  <2> QED BY <2>2 DEF Foreseen
<1>4. ASSUME NEW y \in Ends, y # e PROVE Ahead(y)' = v[y]
  <2>1. pump'[y] = pump[y] /\ mode'[y] = mode[y] /\ events'[y] = events[y]
    BY <1>1, <1>4
  <2> QED BY <2>1, AheadSame DEF Foreseen
<1> QED BY <1>2, <1>3, <1>4 DEF Foreseen

(* An end that is not connected has nothing on its way. *)
LEMMA Unconnected ==
    ASSUME NEW v, Sound(v), NEW x \in Ends, Lives(v[x]) => ~v[x].connected
    PROVE  /\ offer[x] = Nothing /\ reply[x] = Nothing /\ ~Pending(x)
           /\ Lives(v[x]) => v[x].attempt.at = "NotStarted" /\ v[x].fax = "none"
                              /\ v[x].out \notin Kinds
           /\ pump[x].fax = "none"
<1>1. Lives(v[x]) => v[x].attempt.at = "NotStarted" /\ v[x].fax = "none"
  BY DEF Sound, Staged
<1>2. offer[x] = Nothing /\ reply[x] = Nothing /\ (Lives(v[x]) => v[x].out \notin Kinds)
  BY <1>1 DEF Sound, Asked, Sends, Asking, Pending
<1>3. pump[x].fax = "none"
  BY <1>1 DEF Sound, Runs
<1> QED BY <1>1, <1>2, <1>3 DEF Pending

(* Media that does not end the call. *)
Alike(p, q) ==
    /\ q.connected = p.connected /\ q.glares = p.glares /\ q.direct = p.direct
    /\ q.fax = p.fax /\ q.over = p.over /\ q.cseq = p.cseq /\ q.out = p.out
    /\ q.attempt.at = p.attempt.at /\ q.attempt.kind = p.attempt.kind
    /\ q.attempt.cseq = p.attempt.cseq /\ q.attempt.cancelling = p.attempt.cancelling

(* New media, for a pump that runs no fax or runs it over them already. *)
LEMMA MediaMoves ==
    ASSUME NEW p \in PumpType, NEW kind \in Kinds, NEW m, p.fax = "none" \/ p.remote = kind
    PROVE  LET q == Consume(p, Media(kind), m) IN
           /\ q \in PumpType
           /\ Alike(p, q) /\ Weight(q) = Weight(p)
           /\ ~Lives(p) => q = p
           /\ Lives(p) => q.remote = kind
                            /\ q.attempt.ready = (p.attempt.at = "Waiting" /\ kind = p.attempt.kind)
<1> DEFINE q == Consume(p, Media(kind), m)
           b == p.attempt.at = "Waiting" /\ kind = p.attempt.kind
<1>1. q \in PumpType
  BY ConsumeType, EventTypes
<1>2. ~Lives(p) => q = p
  BY Consumes
<1>3. Lives(p) => q = [p EXCEPT !.remote = kind, !.attempt.ready = b]
  <2>1. ASSUME Lives(p) PROVE q = OnMedia(p, kind)
    <3>1. \A k : Consume(p, Media(k), m) = OnMedia(p, k)
      BY <2>1, Consumes
    <3> QED BY <3>1
  <2>2. OnMedia(p, kind) = [p EXCEPT !.remote = kind, !.attempt.ready = b]
    BY Zenon DEF OnMedia
  <2> QED BY <2>1, <2>2, Zenon
<1>4. Lives(p) => Alike(p, q) /\ q.remote = kind /\ q.attempt.ready = b
  <2> DEFINE a == [p.attempt EXCEPT !.ready = b]
  <2>1. b \in BOOLEAN /\ p.attempt \in AttemptType
    BY DEF PumpType
  <2> HIDE DEF b
  <2>2. a.ready = b /\ a.at = p.attempt.at /\ a.kind = p.attempt.kind /\ a.cseq = p.attempt.cseq
        /\ a.cancelling = p.attempt.cancelling
    BY <2>1 DEF AttemptType
  <2>3. Lives(p) => q = [p EXCEPT !.remote = kind, !.attempt = a]
    BY <1>3
  <2> HIDE DEF q, a
  <2> QED BY <2>2, <2>3 DEF Alike, PumpType
<1>5. Alike(p, q)
  BY <1>2, <1>4 DEF Alike
<1>6. Weight(q) = Weight(p)
  BY <1>5 DEF Alike, Weight, Asking
<1> QED BY <1>1, <1>2, <1>4, <1>5, <1>6

(* The contest of two pumps depends on their modes and states only. *)
LEMMA SameContest ==
    ASSUME NEW v, UNCHANGED <<mode, pump>>
    PROVE  /\ BothAuto' <=> BothAuto
           /\ Collided(v)' <=> Collided(v)
<1>1. BothAuto' <=> BothAuto
  BY DEF BothAuto, Alive
<1>2. Collided(v)' <=> Collided(v)
  BY DEF Collided
<1> QED BY <1>1, <1>2
(* An offer is answered without a description: by the peer, or on the way. *)
LEMMA ReplyKeeps ==
    ASSUME NEW v, NEW e \in Ends, Sound(v), NEW code \in {200, 487, 488, 491},
           offer[e] # Nothing, Replies(e, "none", code),
           Counted,
           UNCHANGED <<mode, current, events, pump, dialog, linger>>,
           code \in {200, 487} => surprises' > 0,
           code = 488 /\ BothAuto /\ surprises' = 0 /\ Lives(v[e]) => Collided(v[e])
    PROVE  Sound(v)'
<1> DEFINE n == offer[e].cseq
           r == Message("none", n, code)
<1>1. /\ n \in Nat /\ offer' = [offer EXCEPT ![e] = Nothing] /\ reply' = [reply EXCEPT ![e] = r]
  BY DEF Sound, Shaped, MessageType, Replies
<1>2. r \in MessageType /\ r.kind = "none" /\ r.cseq = n /\ r.code = code /\ r # Nothing
  BY <1>1, MessageTypes DEF Kinds
<1>3. Nothing \in MessageType /\ Nothing.kind = "none" /\ Nothing.code = 0
  BY MessageTypes
<1>4. surprises \in Nat /\ surprises' \in Nat /\ surprises <= surprises'
  BY DEF Sound, Shaped, Counted
<1> HIDE DEF r, n
<1>5. Shaped'
  BY <1>1, <1>2, <1>3, <1>4 DEF Sound, Shaped
<1>6. ASSUME NEW x \in Ends PROVE Staged(x, v[x])'
  BY DEF Sound, Staged
<1>7. ASSUME NEW x \in Ends PROVE Wired(x)'
  BY <1>1, <1>2, <1>3, TwoEnds DEF Sound, Wired, Shaped
<1>8. ASSUME NEW x \in Ends PROVE Asked(x, v[x])'
  <2>0. v[x].cseq <= Weight(v[x]) + surprises => v[x].cseq <= Weight(v[x]) + surprises'
    BY <1>4, Counts
  <2>1. CASE x = e
    BY <1>1, <1>2, <1>3, <2>0, <2>1 DEF Sound, Asked, Sends, Shaped, Pending, n
  <2>2. CASE x # e
    BY <1>1, <2>0, <2>2 DEF Sound, Asked, Sends, Shaped, Pending
  <2> QED BY <2>1, <2>2
<1>9. ASSUME NEW x \in Ends PROVE Runs(x, v[x])'
  BY DEF Sound, Runs, Alive, Asking
<1>10. ASSUME NEW x \in Ends PROVE Clean(x, v[x])'
  <2>1. pump[x].cseq <= 4 + surprises => pump[x].cseq <= 4 + surprises'
    BY <1>4, Counts
  <2>2. Clean(x, v[x])
    BY DEF Sound
  <2> QED BY <2>1, <2>2, ZenonT(40) DEF Clean, Lives
<1>11. ASSUME NEW x \in Ends PROVE Resorts(x, v[x])'
  <2>1. (BothAuto' <=> BothAuto) /\ (Collided(v[x])' <=> Collided(v[x]))
    BY SameContest
  <2>2. reply'[x] = reply[x] \/ (x = e /\ reply'[x] = r)
    BY <1>1 DEF Sound, Shaped
  <2> QED BY <1>1, <1>2, <1>4, <2>1, <2>2 DEF Sound, Resorts
<1>12. Coherent(v)'
  <2>1. \A x \in Ends : Behind(x, v[x]) => Behind(x, v[x])'
    BY <1>1, <1>3 DEF Sound, Shaped, Wired, Behind
  <2> QED BY <1>1, <2>1 DEF Sound, Coherent
<1> QED BY <1>5, <1>6, <1>7, <1>8, <1>9, <1>10, <1>11, <1>12 DEF Sound

(* The actions that only answer an offer keep the invariant. *)
LEMMA CollideKeeps ==
    ASSUME NEW v, NEW e \in Ends, Sound(v), Collide(e)
    PROVE  Sound(v)'
  BY ReplyKeeps DEF Collide, Arrives, Counted

(* An offer that somebody between the ends answers. *)
LEMMA InterceptKeeps ==
    ASSUME NEW v, NEW e \in Ends, Sound(v), Intercept(e)
    PROVE  Sound(v)'
<1>0. surprises \in Nat /\ (pump[e].attempt.cancelling => surprises > 0)
  BY DEF Sound, Shaped, Resorts
<1>1. CASE surprises' = surprises + 1
  BY <1>0, <1>1, ReplyKeeps DEF Intercept, Counted
<1>2. CASE UNCHANGED surprises /\ pump[e].attempt.cancelling
  BY <1>0, <1>2, ReplyKeeps DEF Intercept, Surprise, Counted
<1> QED BY <1>1, <1>2 DEF Intercept, Surprise

(* An end refuses T.38 only when it has begun a fax over audio. *)
LEMMA RefuseOfferKeeps ==
    ASSUME NEW v, NEW e \in Ends, Sound(v), RefuseOffer(e)
    PROVE  Sound(v)'
<1> DEFINE p == Other(e)
<1>1. p \in Ends /\ p # e
  BY TwoEnds
<1>2. /\ offer[e] # Nothing /\ ~Allows(p, offer[e].kind) /\ Replies(e, "none", 488)
      /\ UNCHANGED <<mode, current, events, pump, dialog, linger, surprises>>
  BY DEF RefuseOffer, Arrives
<1>3. ASSUME BothAuto, surprises = 0, Lives(v[e]) PROVE Collided(v[e])
  <2> HIDE DEF p
  <2>1. offer[e].kind = "t38"
    BY <1>2, <1>3 DEF Sound, Asked, Sends, Resorts, Pending
  <2>2. mode[p] = "auto" /\ Alive(p)
    BY <1>1, <1>3 DEF BothAuto
  <2>3. pump[p].fax # "none" /\ current[p] # "t38"
    BY <1>2, <2>1, <2>2 DEF Allows, Takes, SwitchAllowed
  <2>4. Lives(v[p]) /\ v[p].fax = pump[p].fax /\ v[p].remote = v[p].fax
          /\ v[p].glares = pump[p].glares
    BY <1>1, <2>3 DEF Sound, Runs
  <2>5. v[p].remote = current[p] /\ v[p].fax = "audio"
    BY <1>1, <2>3, <2>4 DEF Sound, Staged, Shaped, Kinds
  <2>6. v[p].attempt.at = "Rejected"
    BY <1>1, <2>2, <2>4, <2>5 DEF Sound, Runs
  <2>7. Collided(v[p])
    BY <1>1, <1>3, <2>4, <2>6 DEF Sound, Resorts
  <2> QED BY <1>1, <2>4, <2>7 DEF Collided
<1> QED BY <1>2, <1>3, ReplyKeeps DEF Counted


(* A response that is repeated concerns no attempt any more. *)
LEMMA TerminatedKeeps ==
    ASSUME NEW v, NEW w, NEW e \in Ends, Sound(v), Terminated(e), Foreseen(v), Foreseen(w)'
    PROVE  Sound(w)'
<1> DEFINE n == linger[e].cseq
           x == InviteFinal(n, linger[e].code)
<1>1. /\ linger[e] # Nothing /\ linger[e] \in MessageType
      /\ linger' = [linger EXCEPT ![e] = Nothing]
      /\ Push(e, <<x>>)
      /\ UNCHANGED <<mode, current, pump, dialog, offer, reply, surprises>>
  BY DEF Terminated, Sound, Shaped
<1>2. n \in Nat /\ x \in EventType
  BY <1>1, EventTypes DEF MessageType
<1>3. Lives(v[e]) => ~Concerns(v[e].attempt, n, linger[e].code)
  <2>1. Lives(v[e]) /\ Asking(v[e]) => n < v[e].cseq /\ v[e].attempt.cseq = v[e].cseq
    BY <1>1 DEF Sound, Asked, Sends
  <2> QED BY <1>2, <2>1, Counts DEF Concerns, Asking
<1>4. Consume(v[e], x, mode[e]) = v[e]
  <2>1. CASE ~Lives(v[e])
    BY <2>1, Consumes
  <2>2. CASE Lives(v[e])
    <3>1. Consume(v[e], x, mode[e]) = OnInviteFinal(v[e], n, linger[e].code)
      BY <2>2, Consumes
    <3> QED BY <1>3, <2>2, <3>1 DEF OnInviteFinal
  <2> QED BY <2>1, <2>2
<1> HIDE DEF x, n
<1>5. events' \in [Ends -> Seq(EventType)] /\ w = v
  <2>1. [v EXCEPT ![e] = v[e]] = v
    <3>1. v \in [Ends -> PumpType]
      BY DEF Sound
    <3> QED BY <3>1
  <2>2. UNCHANGED <<pump, mode>>
    BY <1>1
  <2>3. /\ events' \in [Ends -> Seq(EventType)]
        /\ w = [v EXCEPT ![e] = Consume(v[e], x, mode[e])]
    BY <1>1, <1>2, <2>2, OneEvent
  <2> QED BY <1>4, <2>1, <2>3
<1>6. Shaped'
  BY <1>1, <1>5, MessageTypes DEF Sound, Shaped
<1>7. ASSUME NEW y \in Ends
      PROVE  Staged(y, v[y])' /\ Wired(y)' /\ Runs(y, v[y])' /\ Clean(y, v[y])' /\ Resorts(y, v[y])'
  <2>1. Staged(y, v[y])' /\ Wired(y)'
    BY <1>1 DEF Sound, Staged, Wired
  <2>2. Runs(y, v[y])' /\ Clean(y, v[y])'
    BY <1>1 DEF Sound, Runs, Clean, Alive
  <2>3. (BothAuto' <=> BothAuto) /\ (Collided(v[y])' <=> Collided(v[y]))
    BY <1>1 DEF BothAuto, Collided, Alive
  <2>4. Resorts(y, v[y])'
    BY <1>1, <2>3 DEF Sound, Resorts
  <2> QED BY <2>1, <2>2, <2>4
<1>8. ASSUME NEW y \in Ends PROVE Asked(y, v[y])'
  BY <1>1 DEF Sound, Shaped, Asked, Sends, Pending
<1>9. Coherent(v)'
  BY <1>1 DEF Sound, Coherent, Behind
<1>10. Sound(v)'
  BY <1>6, <1>7, <1>8, <1>9 DEF Sound
<1> QED BY <1>5, <1>10


(* More surprises leave more room for the numbers. *)
LEMMA Grows ==
    ASSUME NEW v, Sound(v), NEW x \in Ends, Counted
    PROVE  /\ v[x].cseq <= Weight(v[x]) + surprises => v[x].cseq <= Weight(v[x]) + surprises'
           /\ pump[x].cseq <= 4 + surprises => pump[x].cseq <= 4 + surprises'
           /\ surprises \in Nat /\ surprises' \in Nat /\ (surprises' = 0 => surprises = 0)
           /\ 0 <= 4 + surprises'
  BY Counts DEF Counted

(* An end that an action leaves alone, but for the surprises there were.    *)
LEMMA FrameKeeps ==
    ASSUME NEW v, Sound(v), NEW w, NEW x \in Ends, w[x] = v[x], mode' = mode, pump'[x] = pump[x],
           offer'[x] = offer[x], reply'[x] = reply[x], linger'[x] = linger[x],
           Counted
    PROVE  /\ Asked(x, w[x])' /\ Runs(x, w[x])' /\ Clean(x, w[x])'
           /\ dialog' = dialog /\ current'[x] = current[x] => Staged(x, w[x])'
           /\ pump' = pump => Resorts(x, w[x])'
<1>1. (v[x].cseq <= Weight(v[x]) + surprises => v[x].cseq <= Weight(v[x]) + surprises')
      /\ (pump[x].cseq <= 4 + surprises => pump[x].cseq <= 4 + surprises')
  BY Grows
<1>2. Staged(x, v[x]) /\ Asked(x, v[x]) /\ Runs(x, v[x]) /\ Clean(x, v[x]) /\ Resorts(x, v[x])
  BY DEF Sound
<1>3. dialog' = dialog /\ current'[x] = current[x] => Staged(x, w[x])'
  BY <1>2 DEF Staged
<1>4. Asked(x, w[x])'
  BY <1>1, <1>2 DEF Asked, Sends, Pending
<1>5. Runs(x, w[x])' /\ Clean(x, w[x])'
  BY <1>1, <1>2 DEF Runs, Clean, Alive
<1>6. ASSUME pump' = pump PROVE Resorts(x, w[x])'
  <2>1. (BothAuto' <=> BothAuto) /\ (Collided(w[x])' <=> Collided(v[x]))
    BY <1>6 DEF BothAuto, Collided, Alive
  <2>2. surprises' = 0 => surprises = 0
    BY Grows
  <2> QED BY <1>2, <1>6, <2>1, <2>2 DEF Resorts
<1> QED BY <1>3, <1>4, <1>5, <1>6

(* The peer accepts an offer and switches. *)
LEMMA AcceptOfferKeeps ==
    ASSUME NEW v, NEW w, NEW e \in Ends, Sound(v), AcceptOffer(e),
           Foreseen(v), Foreseen(w)'
    PROVE  Sound(w)'
<1> DEFINE p == Other(e)
           kind == offer[e].kind
           n == offer[e].cseq
           r == reply'[e]
           q == Consume(v[p], Media(kind), mode[p])
<1>1. /\ p \in Ends /\ p # e /\ Other(p) = e /\ Other(e) = p /\ \A x \in Ends : x # e => x = p
  BY TwoEnds
<1>2. /\ offer[e] # Nothing /\ dialog.at = "confirmed" /\ ~Pending(p) /\ Allows(p, kind)
      /\ current' = [current EXCEPT ![p] = kind]
      /\ Push(p, <<Media(kind)>>)
      /\ UNCHANGED <<mode, pump, dialog, linger>>
  BY DEF AcceptOffer, Arrives
<1>3. /\ n \in Nat /\ kind \in Kinds /\ kind # "none" /\ offer[e] \in MessageType
      /\ reply[e] = Nothing /\ offer[p] = Nothing /\ reply[p] = Nothing
      /\ Nothing \in MessageType /\ Nothing.kind = "none" /\ Nothing.code = 0
  BY <1>1, <1>2, MessageTypes DEF Sound, Shaped, Wired, MessageType, Pending, Kinds
<1>4. /\ offer' = [offer EXCEPT ![e] = Nothing]
      /\ reply' = [reply EXCEPT ![e] = r]
      /\ \/ r = Message(kind, n, 200) /\ surprises' = surprises
         \/ r = Message("none", n, 200) /\ surprises' = surprises + 1
  BY DEF AcceptOffer, Replies, Surprise, Sound, Shaped
<1> HIDE DEF r
<1>5. /\ r \in MessageType /\ r.cseq = n /\ r.code = 200 /\ r # Nothing
      /\ \/ r.kind = kind /\ surprises' = surprises
         \/ r.kind = "none" /\ surprises' = surprises + 1
  BY <1>3, <1>4, MessageTypes
<1>6. surprises \in Nat /\ surprises' \in Nat /\ surprises <= surprises' /\ Counted
  BY <1>5 DEF Sound, Shaped, Counted
<1>7. Lives(v[e]) /\ Asking(v[e]) /\ v[e].attempt.kind = kind /\ v[e].cseq = n
  BY <1>2 DEF Sound, Asked, Sends, Pending
<1>8. v[p].fax = "none" \/ v[p].remote = kind \/ ~Lives(v[p])
  <2>1. CASE pump[p].fax = "none"
    BY <1>1, <2>1 DEF Sound, Runs
  <2>2. CASE pump[p].fax # "none"
    <3>1. current[p] = kind
      BY <1>2, <2>2 DEF Allows, SwitchAllowed
    <3>2. Lives(v[p]) /\ v[p].remote = v[p].fax /\ v[p].fax = pump[p].fax
      BY <1>1, <2>2 DEF Sound, Runs
    <3>3. v[p].remote = current[p]
      <4>1. v[p].remote # "none"
        BY <2>2, <3>2
      <4> QED BY <1>1, <3>2, <4>1 DEF Sound, Staged
    <3> QED BY <3>1, <3>3
  <2> QED BY <2>1, <2>2
<1>9. /\ q \in PumpType /\ Alike(v[p], q) /\ Weight(q) = Weight(v[p])
      /\ (Lives(v[p]) => q.remote = kind) /\ (~Lives(v[p]) => q = v[p])
  <2>0. v[p] \in PumpType
    BY <1>1 DEF Sound
  <2>1. CASE Lives(v[p])
    BY <1>3, <1>8, <2>0, <2>1, MediaMoves
  <2>2. CASE ~Lives(v[p])
    BY <2>0, <2>2, Consumes DEF Alike
  <2> QED BY <2>1, <2>2
<1>10. events' \in [Ends -> Seq(EventType)] /\ w = [v EXCEPT ![p] = q]
  <2>1. Media(kind) \in EventType /\ UNCHANGED <<pump, mode>>
    BY <1>2, <1>3, EventTypes
  <2>2. Push(p, <<Media(kind)>>)
    BY <1>2
  <2> HIDE DEF p, kind
  <2> QED BY <1>1, <2>1, <2>2, OneEvent
<1> HIDE DEF q
<1>11. w \in [Ends -> PumpType] /\ w[e] = v[e] /\ w[p] = q
  BY <1>1, <1>9, <1>10 DEF Sound
<1> HIDE DEF p, n, kind
<1>12. Shaped'
  BY <1>1, <1>2, <1>3, <1>4, <1>5, <1>6, <1>10 DEF Sound, Shaped
<1>13. Staged(e, w[e])' /\ Staged(p, w[p])'
  <2>1. current'[e] = current[e] /\ current'[p] = kind /\ dialog' = dialog
    BY <1>1, <1>2 DEF Sound, Shaped
  <2>2. Staged(e, v[e]) /\ Staged(p, v[p])
    BY <1>1 DEF Sound
  <2>3. Staged(e, w[e])'
    BY <1>11, <2>1, <2>2 DEF Staged
  <2>4. Staged(p, w[p])'
    BY <1>2, <1>3, <1>9, <1>11, <2>1, <2>2 DEF Staged, Alike, Lives
  <2> QED BY <2>3, <2>4
<1>14. Wired(e)' /\ Wired(p)'
  <2>1. offer'[e] = Nothing /\ reply'[e] = r /\ offer'[p] = Nothing /\ reply'[p] = Nothing
          /\ current'[p] = kind
    BY <1>1, <1>2, <1>3, <1>4 DEF Sound, Shaped
  <2> QED BY <1>1, <1>3, <1>5, <2>1 DEF Wired
<1>15. Asked(e, w[e])' /\ Asked(p, w[p])'
  <2>0. \A x \in Ends : v[x].cseq <= Weight(v[x]) + surprises => v[x].cseq <= Weight(v[x]) + surprises'
    BY <1>6, Counts
  <2>1. Asked(e, w[e])'
    BY <1>1, <1>2, <1>3, <1>4, <1>5, <1>7, <1>11, <2>0 DEF Sound, Asked, Sends, Shaped, Pending
  <2>2. Asked(p, v[p])
    BY <1>1 DEF Sound
  <2>3. offer'[p] = Nothing /\ reply'[p] = Nothing /\ linger'[p] = linger[p]
          /\ mode'[p] = mode[p] /\ pump'[p] = pump[p]
        /\ ~Pending(p)' /\ ~Pending(p)
    BY <1>1, <1>2, <1>3, <1>4 DEF Sound, Shaped, Pending
  <2>4. Lives(v[p]) /\ Asking(v[p]) => v[p].attempt.kind = "audio"
    BY <2>2, <2>3 DEF Asked, Sends, Kinds
  <2>5. Asked(p, w[p])'
    BY <1>1, <1>9, <1>11, <2>0, <2>2, <2>3, <2>4 DEF Asked, Sends, Alike, Lives, Asking
  <2> QED BY <2>1, <2>5
<1>16. Runs(e, w[e])' /\ Runs(p, w[p])'
  <2>1. Runs(e, v[e]) /\ Runs(p, v[p])
    BY <1>1 DEF Sound
  <2>2. Runs(e, w[e])'
    BY <1>2, <1>11, <2>1 DEF Runs, Alive
  <2>3. Runs(p, w[p])'
    <3>1. pump[p].fax # "none" => v[p].remote = kind
      BY <1>1, <1>2, <1>8, <2>1 DEF Runs, Lives
    <3> QED BY <1>2, <1>9, <1>11, <2>1, <3>1 DEF Runs, Alive, Alike, Lives, Asking
  <2> QED BY <2>2, <2>3
<1>17. Clean(e, w[e])' /\ Clean(p, w[p])'
  <2>1. \A x \in Ends : pump[x].cseq <= 4 + surprises => pump[x].cseq <= 4 + surprises'
    BY <1>6, Counts
  <2> QED BY <1>1, <1>2, <1>9, <1>11, <2>1 DEF Sound, Clean, Alike, Lives
<1>18. Resorts(e, w[e])' /\ Resorts(p, w[p])'
  <2>1. (BothAuto' <=> BothAuto) /\ \A x \in Ends : (Collided(w[x])' <=> Collided(v[x]))
    <3>1. \A x \in Ends : w[x].glares = v[x].glares
      BY <1>1, <1>9, <1>11 DEF Alike
    <3>2. pump' = pump /\ mode' = mode
      BY <1>2
    <3> QED BY <3>1, <3>2 DEF BothAuto, Collided, Alive
  <2>2. Resorts(e, v[e]) /\ Resorts(p, v[p])
    BY <1>1 DEF Sound
  <2>3. reply'[p] = reply[p] /\ reply'[e] = r /\ pump' = pump
    BY <1>1, <1>2, <1>4 DEF Sound, Shaped
  <2>4. Resorts(e, w[e])'
    BY <1>1, <1>3, <1>5, <1>6, <1>11, <2>1, <2>2, <2>3 DEF Resorts
  <2>5. Resorts(p, w[p])'
    BY <1>1, <1>3, <1>6, <1>9, <1>11, <2>1, <2>2, <2>3 DEF Resorts, Alike, Lives, Asking
  <2> QED BY <2>4, <2>5
<1>19. Coherent(w)'
  <2>1. Behind(e, w[e])'
    BY <1>4, <1>5, <1>7, <1>11 DEF Sound, Shaped, Behind
  <2> QED BY <1>2, <2>1 DEF Coherent
<1> QED
  <2>1. \A x \in Ends : x = e \/ x = p
    BY <1>1
  <2> QED BY <1>11, <1>12, <1>13, <1>14, <1>15, <1>16, <1>17, <1>18, <1>19, <2>1 DEF Sound

(* The initial INVITE: neither end has offered anything yet.                *)
LEMMA ConnectedMoves ==
    ASSUME NEW p \in PumpType, NEW m
    PROVE  LET q == Consume(p, Connected, m) IN
           /\ q \in PumpType
           /\ IF Lives(p) THEN q = [p EXCEPT !.connected = TRUE] ELSE q = p
           /\ q.attempt = p.attempt /\ q.fax = p.fax /\ q.over = p.over /\ q.cseq = p.cseq
           /\ q.out = p.out /\ q.glares = p.glares /\ q.remote = p.remote
           /\ Lives(p) => q.connected
<1> DEFINE q == Consume(p, Connected, m)
<1>1. IF Lives(p) THEN q = [p EXCEPT !.connected = TRUE] ELSE q = p
  BY Consumes
<1>2. /\ q \in PumpType
      /\ q.attempt = p.attempt /\ q.fax = p.fax /\ q.over = p.over /\ q.cseq = p.cseq
      /\ q.out = p.out /\ q.glares = p.glares /\ q.remote = p.remote
      /\ Lives(p) => q.connected
  <2> HIDE DEF q
  <2> QED BY <1>1 DEF PumpType
<1> QED BY <1>1, <1>2

(* An end that is not connected yet keeps its parts of the invariant. *)
LEMMA UnconnectedKeeps ==
    ASSUME NEW v, Sound(v), NEW x \in Ends, Lives(v[x]) => ~v[x].connected,
           NEW q \in PumpType, ~Lives(v[x]) => q = v[x],
           Lives(q) => /\ q.attempt.at = v[x].attempt.at /\ q.attempt.kind = v[x].attempt.kind
                       /\ q.attempt.cseq = v[x].attempt.cseq
                       /\ q.attempt.cancelling = v[x].attempt.cancelling
                       /\ q.fax = "none" /\ q.glares = v[x].glares /\ q.cseq = v[x].cseq
                       /\ q.out \in {v[x].out, "invite"},
           q.over \notin {"changed", "nothing to cancel"}, ~Lives(q) => q = Failed(q.over),
           pump' = pump, mode' = mode, offer'[x] = offer[x], reply'[x] = reply[x],
           linger'[x] = linger[x], Counted
    PROVE  Asked(x, q)' /\ Runs(x, q)' /\ Clean(x, q)' /\ Resorts(x, q)'
<1>1. Asked(x, v[x]) /\ Runs(x, v[x]) /\ Clean(x, v[x]) /\ Resorts(x, v[x])
  BY DEF Sound
<1>2. /\ offer[x] = Nothing /\ reply[x] = Nothing /\ ~Pending(x) /\ pump[x].fax = "none"
      /\ Lives(v[x]) => v[x].attempt.at = "NotStarted" /\ v[x].out \notin Kinds
      /\ Nothing.code = 0 /\ Nothing.kind = "none"
  BY Unconnected, MessageTypes
<1>3. (v[x].cseq <= Weight(v[x]) + surprises => v[x].cseq <= Weight(v[x]) + surprises')
      /\ (pump[x].cseq <= 4 + surprises => pump[x].cseq <= 4 + surprises')
      /\ (surprises' = 0 => surprises = 0)
  BY Grows
<1>4. Lives(q) => Lives(v[x]) /\ Weight(q) = Weight(v[x])
  BY DEF Weight, Asking
<1>5. Asked(x, q)'
  BY <1>1, <1>2, <1>3, <1>4 DEF Asked, Sends, Asking, Pending, Kinds
<1>6. Runs(x, q)' /\ Clean(x, q)'
  BY <1>1, <1>2, <1>3, <1>4 DEF Runs, Clean, Alive
<1>7. Resorts(x, q)'
  <2>1. surprises' = 0 => ~pump'[x].attempt.cancelling /\ (Lives(q) => ~q.attempt.cancelling)
    BY <1>1, <1>3, <1>4 DEF Resorts
  <2>2. reply'[x] = Nothing /\ (Lives(q) => q.attempt.at # "Rejected" /\ ~Asking(q))
    BY <1>2, <1>4 DEF Asking
  <2>3. Lives(q) /\ pump'[x].glares = 2 => q.glares = 2
    BY <1>1, <1>4 DEF Resorts
  <2>4. reply'[x].code \notin {200, 487, 488}
    BY <2>2, NoAnswer
  <2>5. surprises' = 0 =>
          /\ ~pump'[x].attempt.cancelling
          /\ Lives(q) => ~q.attempt.cancelling /\ (Asking(q) => q.attempt.kind = "t38")
          /\ reply'[x].code # 487
          /\ reply'[x].code = 200 => reply'[x].kind # "none"
    BY <2>1, <2>2, <2>4, Zenon
  <2>6. ~(Lives(q) /\ (q.attempt.at = "Rejected" \/ reply'[x].code = 488))
    BY <2>2, <2>4, Zenon
  <2> QED BY <2>3, <2>5, <2>6 DEF Resorts
<1> QED BY <1>5, <1>6, <1>7

(* The callee answers. *)
LEMMA AnswerCallKeeps ==
    ASSUME NEW v, NEW w, Sound(v), AnswerCall,
           Foreseen(v), Foreseen(w)'
    PROVE  Sound(w)'
<1> DEFINE kind == dialog.kind
           q == Consume(v["callee"], Media(kind), mode["callee"])
<1>1. /\ dialog.at = "invited" /\ dialog' = [dialog EXCEPT !.at = "answered"]
      /\ current' = [current EXCEPT !["callee"] = kind]
      /\ Push("callee", <<Media(kind)>>)
      /\ UNCHANGED <<mode, pump, offer, reply, linger, surprises>> /\ Counted
  BY DEF AnswerCall, Counted
<1>2. /\ kind \in Kinds /\ dialog'.at = "answered" /\ dialog'.kind = kind
      /\ current'["callee"] = kind /\ current'["caller"] = current["caller"]
      /\ "caller" \in Ends /\ "callee" \in Ends
      /\ dialog' \in [at : {"invited", "refused", "answered", "acknowledged", "confirmed"}, kind : Kinds]
      /\ current' \in [Ends -> Kinds]
  BY <1>1, TwoEnds DEF Sound, Shaped
<1>3. \A x \in Ends : Staged(x, v[x]) /\ (Lives(v[x]) => ~v[x].connected)
                      /\ v[x] \in PumpType /\ offer[x] = Nothing /\ reply[x] = Nothing
  <2>1. \A x \in Ends : Staged(x, v[x]) /\ (Lives(v[x]) => ~v[x].connected) /\ v[x] \in PumpType
    BY <1>1 DEF Sound, Staged
  <2> QED BY <2>1, Unconnected
<1>4. /\ q \in PumpType /\ Alike(v["callee"], q)
      /\ ~Lives(v["callee"]) => q = v["callee"]
      /\ Lives(v["callee"]) => q.remote = kind /\ v["callee"].fax = "none"
  <2>1. CASE Lives(v["callee"])
    <3>1. v["callee"].fax = "none"
      BY <1>2, <1>3, <2>1 DEF Staged
    <3> QED BY <1>2, <1>3, <2>1, <3>1, MediaMoves
  <2>2. CASE ~Lives(v["callee"])
    <3>1. q = v["callee"] /\ v["callee"] \in PumpType
      <4>1. "callee" \in Ends
        BY <1>2
      <4> QED BY <1>3, <2>2, <4>1, Deaf
    <3> HIDE DEF q
    <3> QED BY <2>2, <3>1 DEF Alike
  <2> QED BY <2>1, <2>2
<1>5. events' \in [Ends -> Seq(EventType)] /\ w = [v EXCEPT !["callee"] = q]
  <2>1. Media(kind) \in EventType
    BY <1>2, EventTypes
  <2>2. Push("callee", <<Media(kind)>>) /\ UNCHANGED <<pump, mode>>
    BY <1>1
  <2> HIDE DEF kind
  <2> QED BY <1>2, <2>1, <2>2, OneEvent
<1> HIDE DEF q, kind
<1>6. w \in [Ends -> PumpType] /\ w["caller"] = v["caller"] /\ w["callee"] = q
  <2>1. v \in [Ends -> PumpType]
    BY DEF Sound
  <2> QED BY <1>2, <1>4, <1>5, <2>1
<1>7. Shaped'
  BY <1>1, <1>2, <1>5 DEF Sound, Shaped
<1>8. Staged("caller", w["caller"])' /\ Staged("callee", w["callee"])'
  BY <1>1, <1>2, <1>3, <1>4, <1>6 DEF Staged, Alike, Lives
<1>9. \A x \in Ends : Wired(x)'
  BY <1>1, <1>3, MessageTypes DEF Wired
<1>10. LET x == "caller" IN Asked(x, w[x])' /\ Runs(x, w[x])' /\ Clean(x, w[x])'
         /\ Resorts(x, w[x])'
  BY <1>1, <1>2, <1>6, FrameKeeps
<1>11. LET x == "callee" IN Asked(x, w[x])' /\ Runs(x, w[x])' /\ Clean(x, w[x])'
         /\ Resorts(x, w[x])'
  <2>1. q.over \notin {"changed", "nothing to cancel"} /\ (~Lives(q) => q = Failed(q.over))
    BY <1>2, <1>4 DEF Sound, Clean, Alike, Lives
  <2>2. Lives(q) => /\ q.attempt.at = v["callee"].attempt.at
          /\ q.attempt.kind = v["callee"].attempt.kind
                       /\ q.attempt.cseq = v["callee"].attempt.cseq
                       /\ q.attempt.cancelling = v["callee"].attempt.cancelling
                       /\ q.fax = "none" /\ q.glares = v["callee"].glares
                            /\ q.cseq = v["callee"].cseq
                       /\ q.out \in {v["callee"].out, "invite"}
    BY <1>4 DEF Alike, Lives
  <2>3. "callee" \in Ends /\ (Lives(v["callee"]) => ~v["callee"].connected)
    BY <1>2, <1>3
  <2> QED BY <1>1, <1>4, <1>6, <2>1, <2>2, <2>3, UnconnectedKeeps
<1>12. Coherent(w)'
  BY <1>1, <1>2, <1>6 DEF Sound, Coherent
<1> QED BY <1>2, <1>6, <1>7, <1>8, <1>9, <1>10, <1>11, <1>12, TwoEnds DEF Sound

(* The caller is refused; it may try again with T.38. *)
LEMMA RefuseCallKeeps ==
    ASSUME NEW v, NEW w, Sound(v), RefuseCall,
           Foreseen(v), Foreseen(w)'
    PROVE  Sound(w)'
<1> DEFINE p == v["caller"]
           q == Consume(p, Disconnected(488), mode["caller"])
<1>1. /\ dialog.at = "invited" /\ dialog' = [dialog EXCEPT !.at = "refused"]
      /\ Counted
      /\ Push("caller", <<Disconnected(488)>>)
      /\ UNCHANGED <<mode, current, pump, offer, reply, linger>>
  BY DEF RefuseCall, Surprise, Counted
<1>2. /\ dialog'.at = "refused"
      /\ "caller" \in Ends /\ "callee" \in Ends
  BY <1>1, TwoEnds DEF Sound, Shaped
<1>t. /\ dialog' \in [at : {"invited", "refused", "answered", "acknowledged", "confirmed"}, kind : Kinds]
      /\ surprises' \in Nat
  <2>1. dialog \in [at : {"invited", "refused", "answered", "acknowledged", "confirmed"}, kind : Kinds]
        /\ surprises' \in Nat
    BY <1>1 DEF Sound, Shaped, Counted
  <2> QED BY <1>1, <2>1
<1>3. \A x \in Ends : Staged(x, v[x]) /\ (Lives(v[x]) => ~v[x].connected /\ v[x].fax = "none")
                      /\ v[x] \in PumpType /\ offer[x] = Nothing /\ reply[x] = Nothing
  <2>1. \A x \in Ends : Staged(x, v[x]) /\ (Lives(v[x]) => ~v[x].connected /\ v[x].fax = "none")
                        /\ v[x] \in PumpType
    BY <1>1 DEF Sound, Staged
  <2> QED BY <2>1, Unconnected
<1>4. /\ q \in PumpType
      /\ ~Lives(p) => q = p
      /\ Lives(p) => q \in {[p EXCEPT !.direct = TRUE, !.remote = "none", !.out
           = "invite"], Failed("refused")}
  <2>1. q \in PumpType
    BY <1>2, <1>3, ConsumeType, EventTypes
  <2>2. CASE Lives(p)
    <3>1. q = OnDisconnected(p, mode["caller"])
      BY <2>2, Consumes
    <3> HIDE DEF q, p
    <3>2. q \in {[p EXCEPT !.direct = TRUE, !.remote = "none", !.out = "invite"], Failed("refused")}
      BY <3>1 DEF OnDisconnected
    <3> QED BY <2>1, <2>2, <3>2
  <2>3. CASE ~Lives(p)
    BY <2>1, <2>3, Deaf
  <2> QED BY <2>2, <2>3
<1>5. events' \in [Ends -> Seq(EventType)] /\ w = [v EXCEPT !["caller"] = q]
  <2>1. Disconnected(488) \in EventType
    BY EventTypes
  <2>2. Push("caller", <<Disconnected(488)>>) /\ UNCHANGED <<pump, mode>>
    BY <1>1
  <2> QED BY <1>2, <2>1, <2>2, OneEvent
<1> HIDE DEF q
<1>6. w \in [Ends -> PumpType] /\ w["caller"] = q /\ w["callee"] = v["callee"]
  <2>1. v \in [Ends -> PumpType]
    BY DEF Sound
  <2>2. "caller" \in Ends /\ "callee" \in Ends /\ "caller" # "callee"
    BY TwoEnds
  <2> QED BY <1>4, <1>5, <2>1, <2>2, Updated
<1>p. p \in PumpType
  BY <1>2, <1>3
<1> HIDE DEF p
<1>7. /\ Lives(q) => /\ Lives(p) /\ q.attempt = p.attempt /\ q.fax = p.fax /\ q.glares = p.glares
                     /\ q.cseq = p.cseq /\ q.out \in {p.out, "invite"}
                     /\ q.remote = "none" /\ q.connected = p.connected
      /\ q.over \in {"no", "refused", p.over}
      /\ ~Lives(q) => q = Failed(q.over) \/ (q = p /\ ~Lives(p))
  BY <1>4, <1>p DEF Lives, Failed, Fresh, PumpType
<1>8. Shaped'
  BY <1>1, <1>2, <1>t, <1>5 DEF Sound, Shaped
<1>9. Staged("caller", w["caller"])' /\ Staged("callee", w["callee"])'
  <2>1. Staged("caller", p)
    BY <1>2, <1>3 DEF p
  <2>2. Staged("callee", v["callee"])
    BY <1>2, <1>3
  <2>3. Staged("caller", w["caller"])'
    BY <1>6, <1>1, <1>2, <1>3, <1>7, <2>1 DEF Staged, p
  <2>4. Staged("callee", w["callee"])'
    BY <1>6, <1>1, <1>2, <1>3, <2>2 DEF Staged
  <2> QED BY <2>3, <2>4
<1>10. \A x \in Ends : Wired(x)'
  BY <1>1, <1>3, MessageTypes DEF Wired
<1>11. LET x == "callee" IN Asked(x, w[x])' /\ Runs(x, w[x])' /\ Clean(x, w[x])'
         /\ Resorts(x, w[x])'
  BY <1>1, <1>2, <1>6, FrameKeeps
<1>12. LET x == "caller" IN Asked(x, w[x])' /\ Runs(x, w[x])' /\ Clean(x, w[x])'
         /\ Resorts(x, w[x])'
  <2>1. /\ q.over \notin {"changed", "nothing to cancel"} /\ (Lives(p) => ~p.connected
             /\ p.fax = "none")
        /\ ~Lives(q) => q = Failed(q.over)
    BY <1>2, <1>3, <1>7 DEF Sound, Clean, p
  <2>2. Lives(q) => /\ q.attempt.at = v["caller"].attempt.at
          /\ q.attempt.kind = v["caller"].attempt.kind
                       /\ q.attempt.cseq = v["caller"].attempt.cseq
                       /\ q.attempt.cancelling = v["caller"].attempt.cancelling
                       /\ q.fax = "none" /\ q.glares = v["caller"].glares
                            /\ q.cseq = v["caller"].cseq
                       /\ q.out \in {v["caller"].out, "invite"}
    BY <1>7, <2>1 DEF p
  <2>3. "caller" \in Ends /\ (Lives(v["caller"]) => ~v["caller"].connected)
        /\ (~Lives(v["caller"]) => q = v["caller"])
    BY <1>2, <1>3, <1>4 DEF p
  <2> QED BY <1>1, <1>4, <1>6, <2>1, <2>2, <2>3, UnconnectedKeeps
<1>13. Coherent(w)'
  BY <1>2 DEF Coherent
<1> QED BY <1>6, <1>8, <1>9, <1>10, <1>11, <1>12, <1>13, TwoEnds DEF Sound

(* The answer reaches the caller. *)
LEMMA AnsweredKeeps ==
    ASSUME NEW v, NEW w, Sound(v), Answered,
           Foreseen(v), Foreseen(w)'
    PROVE  Sound(w)'
<1> DEFINE kind == dialog.kind
           p == v["caller"]
           r == Consume(p, Media(kind), mode["caller"])
           q == Consume(r, Connected, mode["caller"])
<1>1. /\ dialog.at = "answered" /\ dialog' = [dialog EXCEPT !.at = "acknowledged"]
      /\ current' = [current EXCEPT !["caller"] = kind]
      /\ Push("caller", <<Media(kind), Connected>>)
      /\ UNCHANGED <<mode, pump, offer, reply, linger, surprises>> /\ Counted
  BY DEF Answered, Counted
<1>2. /\ kind \in Kinds /\ dialog'.at = "acknowledged"
      /\ current'["caller"] = kind /\ current'["callee"] = current["callee"]
      /\ "caller" \in Ends /\ "callee" \in Ends
  BY <1>1, TwoEnds DEF Sound, Shaped
<1>t. /\ dialog' \in [at : {"invited", "refused", "answered", "acknowledged", "confirmed"}, kind : Kinds]
      /\ current' \in [Ends -> Kinds]
  BY <1>1, <1>2 DEF Sound, Shaped
<1>3. \A x \in Ends : Staged(x, v[x]) /\ (Lives(v[x]) => ~v[x].connected /\ v[x].fax = "none")
                      /\ v[x] \in PumpType /\ offer[x] = Nothing /\ reply[x] = Nothing
  <2>1. \A x \in Ends : Staged(x, v[x]) /\ (Lives(v[x]) => ~v[x].connected /\ v[x].fax = "none")
                        /\ v[x] \in PumpType
    BY <1>1 DEF Sound, Staged
  <2> QED BY <2>1, Unconnected
<1>4. r \in PumpType /\ Alike(p, r) /\ (~Lives(p) => r = p) /\ (Lives(p) => r.remote = kind)
  <2>1. CASE Lives(p)
    BY <1>2, <1>3, <2>1, MediaMoves
  <2>2. CASE ~Lives(p)
    <3>1. r = p /\ p \in PumpType
      <4>1. "caller" \in Ends
        BY <1>2
      <4> QED BY <1>3, <2>2, <4>1, Deaf
    <3> HIDE DEF r
    <3> QED BY <2>2, <3>1 DEF Alike
  <2> QED BY <2>1, <2>2
<1>5. /\ q \in PumpType /\ (~Lives(r) => q = r) /\ (Lives(r) => q.connected)
      /\ q.attempt = r.attempt /\ q.fax = r.fax /\ q.over = r.over /\ q.cseq = r.cseq
      /\ q.out = r.out /\ q.glares = r.glares /\ q.remote = r.remote
  <2>1. r \in PumpType
    BY <1>4
  <2> HIDE DEF r
  <2> QED BY <2>1, ConnectedMoves
<1>6. events' \in [Ends -> Seq(EventType)] /\ w = [v EXCEPT !["caller"] = q]
  <2>1. Media(kind) \in EventType /\ Connected \in EventType
    BY <1>2, EventTypes
  <2>2. Push("caller", <<Media(kind), Connected>>) /\ UNCHANGED <<pump, mode>>
    BY <1>1
  <2> HIDE DEF kind
  <2> QED BY <1>2, <2>1, <2>2, TwoEvents
<1> HIDE DEF q, r, kind
<1>7. w \in [Ends -> PumpType] /\ w["callee"] = v["callee"] /\ w["caller"] = q
  <2>1. v \in [Ends -> PumpType]
    BY DEF Sound
  <2>2. "caller" \in Ends /\ "callee" \in Ends /\ "caller" # "callee"
    BY TwoEnds
  <2> QED BY <1>5, <1>6, <2>1, <2>2, Updated
<1> HIDE DEF p
<1>8. /\ q.over = p.over /\ (~Lives(p) => q = p)
      /\ q.attempt.at = p.attempt.at /\ q.attempt.kind = p.attempt.kind
      /\ q.attempt.cseq = p.attempt.cseq /\ q.attempt.cancelling = p.attempt.cancelling
      /\ q.fax = p.fax /\ q.glares = p.glares /\ q.cseq = p.cseq /\ q.out = p.out
      /\ Lives(p) => q.remote = kind /\ q.connected
  BY <1>4, <1>5 DEF Alike, Lives
<1>9. Shaped'
  BY <1>1, <1>2, <1>t, <1>6 DEF Sound, Shaped
<1>10. Staged("caller", w["caller"])' /\ Staged("callee", w["callee"])'
  <2>1. Staged("caller", p)
    BY <1>2, <1>3 DEF p
  <2>2. Staged("callee", v["callee"]) /\ (Lives(v["callee"]) => ~v["callee"].connected)
    BY <1>2, <1>3
  <2>3. Staged("caller", w["caller"])'
    BY <1>7, <1>1, <1>2, <1>8, <2>1 DEF Staged, Lives
  <2>4. Staged("callee", w["callee"])'
    BY <1>7, <1>1, <1>2, <2>2 DEF Staged
  <2> QED BY <2>3, <2>4
<1>11. \A x \in Ends : Wired(x)'
  BY <1>1, <1>3, MessageTypes DEF Wired
<1>12. LET x == "callee" IN Asked(x, w[x])' /\ Runs(x, w[x])' /\ Clean(x, w[x])'
         /\ Resorts(x, w[x])'
  BY <1>1, <1>2, <1>7, FrameKeeps
<1>13. LET x == "caller" IN Asked(x, w[x])' /\ Runs(x, w[x])' /\ Clean(x, w[x])'
         /\ Resorts(x, w[x])'
  <2>1. /\ q.over \notin {"changed", "nothing to cancel"} /\ (Lives(q) => q.fax = "none")
        /\ ~Lives(q) => q = Failed(q.over)
    BY <1>2, <1>3, <1>8 DEF Sound, Clean, p, Lives
  <2>2. Lives(q) => /\ q.attempt.at = v["caller"].attempt.at
          /\ q.attempt.kind = v["caller"].attempt.kind
                       /\ q.attempt.cseq = v["caller"].attempt.cseq
                       /\ q.attempt.cancelling = v["caller"].attempt.cancelling
                       /\ q.fax = "none" /\ q.glares = v["caller"].glares
                            /\ q.cseq = v["caller"].cseq
                       /\ q.out \in {v["caller"].out, "invite"}
    BY <1>8, <2>1 DEF p
  <2>3. "caller" \in Ends /\ (Lives(v["caller"]) => ~v["caller"].connected)
        /\ (~Lives(v["caller"]) => q = v["caller"])
    BY <1>2, <1>3, <1>8 DEF p
  <2> QED BY <1>1, <1>5, <1>7, <2>1, <2>2, <2>3, UnconnectedKeeps
<1>14. Coherent(w)'
  <2>1. current["callee"] = kind
    BY <1>1 DEF Sound, Coherent, kind
  <2> QED BY <1>2, <2>1 DEF Coherent
<1> QED BY <1>2, <1>7, <1>9, <1>10, <1>11, <1>12, <1>13, <1>14, TwoEnds DEF Sound

(* The ACK reaches the callee. *)
LEMMA AcknowledgedKeeps ==
    ASSUME NEW v, NEW w, Sound(v), Acknowledged,
           Foreseen(v), Foreseen(w)'
    PROVE  Sound(w)'
<1> DEFINE p == v["callee"]
           q == Consume(p, Connected, mode["callee"])
<1>1. /\ dialog.at = "acknowledged" /\ dialog' = [dialog EXCEPT !.at = "confirmed"]
      /\ Push("callee", <<Connected>>)
      /\ UNCHANGED <<mode, current, pump, offer, reply, linger, surprises>> /\ Counted
  BY DEF Acknowledged, Counted
<1>2. /\ dialog'.at = "confirmed"
      /\ "caller" \in Ends /\ "callee" \in Ends
  BY <1>1, TwoEnds DEF Sound, Shaped
<1>t. dialog' \in [at : {"invited", "refused", "answered", "acknowledged", "confirmed"}, kind : Kinds]
  BY <1>1 DEF Sound, Shaped
<1>3. /\ \A x \in Ends : Staged(x, v[x]) /\ v[x] \in PumpType
      /\ Lives(p) => ~p.connected /\ p.fax = "none"
  BY <1>1, <1>2 DEF Sound, Staged
<1>4. /\ q \in PumpType /\ (~Lives(p) => q = p) /\ (Lives(p) => q.connected)
      /\ q.attempt = p.attempt /\ q.fax = p.fax /\ q.over = p.over /\ q.cseq = p.cseq
      /\ q.out = p.out /\ q.glares = p.glares /\ q.remote = p.remote
  <2>1. p \in PumpType
    BY <1>2, <1>3
  <2> HIDE DEF p
  <2> QED BY <2>1, ConnectedMoves
<1>5. events' \in [Ends -> Seq(EventType)] /\ w = [v EXCEPT !["callee"] = q]
  <2>1. Connected \in EventType
    BY EventTypes
  <2>2. Push("callee", <<Connected>>) /\ UNCHANGED <<pump, mode>>
    BY <1>1
  <2> QED BY <1>2, <2>1, <2>2, OneEvent
<1> HIDE DEF q
<1>6. w \in [Ends -> PumpType] /\ w["caller"] = v["caller"] /\ w["callee"] = q
  <2>1. v \in [Ends -> PumpType]
    BY DEF Sound
  <2>2. "caller" \in Ends /\ "callee" \in Ends /\ "caller" # "callee"
    BY TwoEnds
  <2> QED BY <1>4, <1>5, <2>1, <2>2, Updated
<1> HIDE DEF p
<1>7. Shaped'
  BY <1>1, <1>2, <1>t, <1>5 DEF Sound, Shaped
<1>8. Staged("caller", w["caller"])' /\ Staged("callee", w["callee"])'
  <2>1. Staged("callee", p)
    BY <1>2, <1>3 DEF p
  <2>2. Staged("caller", v["caller"])
    BY <1>2, <1>3
  <2>3. Staged("callee", w["callee"])'
    BY <1>6, <1>1, <1>2, <1>4, <2>1 DEF Staged, Lives
  <2>4. Staged("caller", w["caller"])'
    BY <1>6, <1>1, <1>2, <2>2 DEF Staged
  <2> QED BY <2>3, <2>4
<1>9. \A x \in Ends : Wired(x)'
  <2>1. \A x \in Ends : Wired(x)
    BY DEF Sound
  <2> QED BY <1>1, <2>1 DEF Wired
<1>10. LET x == "caller" IN Asked(x, w[x])' /\ Runs(x, w[x])' /\ Clean(x, w[x])'
         /\ Resorts(x, w[x])'
  BY <1>1, <1>2, <1>6, FrameKeeps
<1>11. LET x == "callee" IN Asked(x, w[x])' /\ Runs(x, w[x])' /\ Clean(x, w[x])'
         /\ Resorts(x, w[x])'
  <2>1. /\ q.over \notin {"changed", "nothing to cancel"} /\ (Lives(q) => q.fax = "none")
        /\ ~Lives(q) => q = Failed(q.over)
    BY <1>2, <1>3, <1>4 DEF Sound, Clean, p, Lives
  <2>2. Lives(q) => /\ q.attempt.at = v["callee"].attempt.at
          /\ q.attempt.kind = v["callee"].attempt.kind
                       /\ q.attempt.cseq = v["callee"].attempt.cseq
                       /\ q.attempt.cancelling = v["callee"].attempt.cancelling
                       /\ q.fax = "none" /\ q.glares = v["callee"].glares
                            /\ q.cseq = v["callee"].cseq
                       /\ q.out \in {v["callee"].out, "invite"}
    BY <1>4, <2>1 DEF p
  <2>3. "callee" \in Ends /\ (Lives(v["callee"]) => ~v["callee"].connected)
        /\ (~Lives(v["callee"]) => q = v["callee"])
    BY <1>2, <1>3, <1>4 DEF p
  <2> QED BY <1>1, <1>4, <1>6, <2>1, <2>2, <2>3, UnconnectedKeeps
<1>12. Coherent(w)'
  <2>1. \A x \in Ends : Lives(w[x]) => Lives(v[x])
    BY <1>4, <1>6, TwoEnds DEF Lives, p
  <2>2. \A x \in Ends : Behind(x, v[x]) => Behind(x, w[x])'
    BY <1>1, <1>4, <1>6, TwoEnds DEF Behind, Asking, p
  <2> QED BY <1>1, <1>2, <2>1, <2>2 DEF Sound, Coherent
<1> QED BY <1>2, <1>6, <1>7, <1>8, <1>9, <1>10, <1>11, <1>12, TwoEnds DEF Sound

(* The pumps ahead when an end has drained its events.                      *)
LEMMA Drained ==
    ASSUME NEW v, NEW w, Sound(v), Foreseen(v), Foreseen(w)', NEW e \in Ends, NEW q \in PumpType,
           pump'[e] = q, events'[e] = <<>>, mode' = mode,
           pump'[Other(e)] = pump[Other(e)], events'[Other(e)] = events[Other(e)]
    PROVE  w \in [Ends -> PumpType] /\ w[e] = q /\ w[Other(e)] = v[Other(e)]
<1>1. Shaped /\ v \in [Ends -> PumpType]
  BY DEF Sound
<1>2. pump \in [Ends -> PumpType] /\ events \in [Ends -> Seq(EventType)]
  BY <1>1 DEF Shaped
<1>3. Other(e) \in Ends /\ Other(e) # e /\ \A x \in Ends : x # e => x = Other(e)
  BY TwoEnds
<1>4. Ahead(e)' = q
  BY <1>2, AheadDrained
<1>5. Ahead(Other(e))' = Ahead(Other(e))
  BY <1>2, <1>3, AheadSame
<1>6. w[e] = q /\ w[Other(e)] = v[Other(e)]
  BY <1>3, <1>4, <1>5 DEF Foreseen
<1>7. \A x \in Ends : w[x] \in PumpType
  BY <1>1, <1>3, <1>6
<1>8. w = [x \in Ends |-> w[x]]
  BY DEF Foreseen
<1> QED BY <1>6, <1>7, <1>8

(* An end that is done with the call leaves nothing behind.                 *)
Endings == Whys \ {"no", "changed", "nothing to cancel"}

(* An end is done with the call. *)
LEMMA FailKeeps ==
    ASSUME NEW v, NEW w, Sound(v), Foreseen(v), Foreseen(w)', NEW e \in Ends,
           NEW why \in Endings,
           Becomes(e, Failed(why)), Counted
    PROVE  Sound(w)'
<1> DEFINE p == Other(e)
           f == Failed(why)
<1>1. /\ f \in PumpType /\ f.over = why /\ f.out = "none" /\ f.fax = "none" /\ f.cseq = 0
      /\ f.glares = 0 /\ ~f.attempt.cancelling /\ [f EXCEPT !.out = "none"] = f
  <2>1. f \in PumpType
    BY PumpTypes DEF Endings
  <2>2. f.over = why /\ f.out = "none" /\ f.fax = "none" /\ f.cseq = 0 /\ f.glares = 0
          /\ f.attempt = NotStarted
    BY DEF Failed, Fresh
  <2>3. ~NotStarted.cancelling
    BY DEF NotStarted, Attempt
  <2>4. [f EXCEPT !.out = "none"] = f
    <3> HIDE DEF f
    <3> QED BY <2>1, <2>2 DEF PumpType
  <2> QED BY <2>1, <2>2, <2>3, <2>4
<1>0. why \in Whys /\ why # "no" /\ why # "changed" /\ why # "nothing to cancel"
  BY DEF Endings
<1>2. /\ pump' = [pump EXCEPT ![e] = f]
      /\ offer' = [offer EXCEPT ![e] = Nothing] /\ reply' = [reply EXCEPT ![e] = Nothing]
      /\ linger' = [linger EXCEPT ![e] = Nothing]
      /\ dialog' = dialog /\ current' = current /\ mode' = mode
      /\ events' = [events EXCEPT ![e] = <<>>]
  <2> HIDE DEF f
  <2>1. Becomes(e, f) /\ f.over # "no" /\ f.out # "invite"
    BY <1>0, <1>1 DEF f
  <2> QED BY <1>1, <2>1 DEF Becomes
<1>3. /\ p \in Ends /\ p # e /\ Other(p) = e /\ Other(e) = p /\ \A x \in Ends : x = e \/ x = p
  BY TwoEnds
<1> HIDE DEF f
<1>4. w \in [Ends -> PumpType] /\ w[e] = f /\ w[p] = v[p] /\ ~Lives(w[e])
  <2>1. w \in [Ends -> PumpType] /\ w[e] = f /\ w[p] = v[p]
    <3>1. /\ pump'[e] = f /\ events'[e] = <<>> /\ mode' = mode /\ f \in PumpType
          /\ pump'[p] = pump[p] /\ events'[p] = events[p]
      BY <1>1, <1>2, <1>3 DEF Sound, Shaped
    <3> QED BY <3>1, Drained
  <2> QED BY <1>0, <1>1, <2>1 DEF Lives
<1> HIDE DEF p
<1>5. /\ pump'[e] = f /\ offer'[e] = Nothing /\ reply'[e] = Nothing /\ linger'[e] = Nothing
      /\ pump'[p] = pump[p] /\ offer'[p] = offer[p] /\ reply'[p] = reply[p]
           /\ linger'[p] = linger[p]
  BY <1>2, <1>3 DEF Sound, Shaped
<1>6. Shaped'
  <2>1. Nothing \in MessageType /\ surprises' \in Nat
    BY MessageTypes, Grows
  <2> QED BY <1>1, <1>2, <2>1 DEF Sound, Shaped
<1>7. Staged(p, w[p])' /\ Asked(p, w[p])' /\ Runs(p, w[p])' /\ Clean(p, w[p])'
  BY <1>2, <1>3, <1>4, <1>5, FrameKeeps
<1>8. Staged(e, w[e])' /\ Asked(e, w[e])'
  BY <1>4, <1>5 DEF Staged, Asked
<1>9. Runs(e, w[e])'
  BY <1>1, <1>4, <1>5 DEF Runs
<1>10. Clean(e, w[e])'
  <2>2. 0 <= 4 + surprises'
    BY Grows
  <2> QED BY <1>0, <1>1, <1>4, <1>5, <2>2 DEF Clean, f
<1>11. Wired(e)' /\ Wired(p)'
  <2>1. Wired(p) /\ Wired(e)
    BY <1>3 DEF Sound
  <2> QED BY <1>2, <1>3, <1>5, <2>1, NoAnswer DEF Wired
<1>12. ~BothAuto' /\ Resorts(p, v[p]) /\ (surprises' = 0 => surprises = 0)
  <2>1. ~Alive(e)'
    BY <1>0, <1>1, <1>5 DEF Alive
  <2> QED BY <1>3, <2>1, Grows DEF BothAuto, Sound
<1>13. Resorts(p, w[p])'
  BY <1>4, <1>5, <1>12 DEF Resorts
<1>14. Resorts(e, w[e])'
  BY <1>1, <1>4, <1>5, <1>12, NoAnswer DEF Resorts
<1>15. Coherent(w)'
  <2>1. Lives(w["caller"]) => Lives(v["caller"])
    BY <1>3, <1>4 DEF Ends
  <2> QED BY <1>2, <1>4, <2>1 DEF Sound, Coherent
<1> QED
  BY <1>3, <1>4, <1>6, <1>7, <1>8, <1>9, <1>10, <1>11, <1>13, <1>14, <1>15 DEF Sound

(* The pump q that an end which sees s ahead may become.                    *)
Ensues(e, s, q) ==
    /\ Lives(s) /\ Lives(q) /\ Sends(e, q)
    /\ q.connected = s.connected /\ q.remote = s.remote /\ q.glares = s.glares
    /\ q.connected \/ (q.attempt.at = "NotStarted" /\ q.fax = "none")
    /\ q.fax # "none" => ~Asking(q) /\ q.remote = q.fax
    /\ q.fax = "audio" /\ mode[e] = "auto" => q.attempt.at = "Rejected"
    /\ q.out = "invite" => s.out = "invite"
    /\ q.attempt.at = "Rejected" => s.attempt.at = "Rejected"
    /\ Behind(e, s) => Behind(e, q)

(* An end drains its events and goes on. *)
LEMMA BecomesKeeps ==
    ASSUME NEW v, NEW w, Sound(v), Foreseen(v), Foreseen(w)', NEW e \in Ends, Alive(e),
           NEW q \in PumpType, Ensues(e, v[e], q), Becomes(e, q), Counted,
           surprises' = 0 => ~q.attempt.cancelling /\ (Asking(q) => q.attempt.kind = "t38")
    PROVE  Sound(w)'
<1> DEFINE p == Other(e)
           g == [q EXCEPT !.out = "none"]
           m == Message(q.out, q.cseq, 0)
<1>1. /\ g \in PumpType /\ g.out = "none" /\ g.connected = q.connected /\ g.remote = q.remote
      /\ g.attempt = q.attempt /\ g.glares = q.glares /\ g.fax = q.fax /\ g.over = q.over
      /\ g.cseq = q.cseq
  BY DEF PumpType
<1>2. p \in Ends /\ p # e /\ Other(p) = e /\ Other(e) = p /\ \A x \in Ends : x = e \/ x = p
  BY TwoEnds
<1>3. Lives(q) /\ q.over = "no" /\ Lives(v[e]) /\ Sends(e, q)
  BY DEF Ensues, Lives
<1>4. /\ pump' = [pump EXCEPT ![e] = g]
      /\ offer' = [offer EXCEPT ![e] = IF q.out \in Kinds THEN m ELSE offer[e]]
      /\ reply' = [reply EXCEPT ![e] = reply[e]]
      /\ linger' = [linger EXCEPT ![e] = linger[e]]
      /\ events' = [events EXCEPT ![e] = <<>>]
      /\ mode' = mode
      /\ IF q.out = "invite"
           THEN dialog' = [at |-> "invited", kind |-> "t38"]
                /\ current' = [current EXCEPT ![e] = "t38"]
           ELSE dialog' = dialog /\ current' = current
  BY <1>3 DEF Becomes
<1>5. q.out \in Kinds => m \in MessageType /\ m.kind = q.out /\ m.cseq = q.cseq
  <2>1. q.cseq \in Nat
    BY DEF PumpType
  <2> QED BY <2>1, MessageTypes
<1> HIDE DEF g, m
<1>6. /\ pump'[e] = g /\ reply'[e] = reply[e] /\ linger'[e] = linger[e] /\ events'[e] = <<>>
      /\ offer'[e] = IF q.out \in Kinds THEN m ELSE offer[e]
  BY <1>4 DEF Sound, Shaped
<1>7. /\ pump'[p] = pump[p] /\ offer'[p] = offer[p] /\ reply'[p] = reply[p]
           /\ linger'[p] = linger[p]
      /\ events'[p] = events[p]
  BY <1>2, <1>4 DEF Sound, Shaped
<1>8. w \in [Ends -> PumpType] /\ w[e] = g /\ w[p] = v[p]
  BY <1>1, <1>4, <1>6, <1>7, Drained
<1> HIDE DEF p
<1>9. Shaped'
  <2>1. surprises' \in Nat
    BY Grows
  <2>2. dialog' \in [at : {"invited", "refused", "answered", "acknowledged", "confirmed"}, kind : Kinds]
        /\ current' \in [Ends -> Kinds]
    <3>1. CASE q.out = "invite"
      <4>1. dialog' = [at |-> "invited", kind |-> "t38"] /\ current' = [current EXCEPT ![e] = "t38"]
        BY <1>4, <3>1
      <4>2. current \in [Ends -> Kinds] /\ "t38" \in Kinds
        BY DEF Sound, Shaped, Kinds
      <4> QED BY <4>1, <4>2
    <3>2. CASE q.out # "invite"
      BY <1>4, <3>2 DEF Sound, Shaped
    <3> QED BY <3>1, <3>2
  <2>3. pump' \in [Ends -> PumpType] /\ mode' \in [Ends -> Modes]
    BY <1>1, <1>4 DEF Sound, Shaped
  <2>4. offer' \in [Ends -> MessageType] /\ reply' \in [Ends -> MessageType]
          /\ linger' \in [Ends -> MessageType]
    BY <1>4, <1>5 DEF Sound, Shaped
  <2>5. events' \in [Ends -> Seq(EventType)]
    BY <1>4 DEF Sound, Shaped
  <2> QED BY <2>1, <2>2, <2>3, <2>4, <2>5 DEF Shaped
(* A second call, with T.38: nothing of the first is left. *)
<1>10. q.out = "invite" => /\ dialog.at = "refused" /\ e = "caller" /\ ~v[e].connected
         /\ v[e].remote = "none"
                           /\ offer[p] = Nothing /\ reply[p] = Nothing /\ reply[e] = Nothing
  <2>1. ASSUME q.out = "invite" PROVE v[e].out = "invite"
    BY <2>1 DEF Ensues
  <2>2. ASSUME q.out = "invite"
        PROVE  dialog.at = "refused" /\ e = "caller" /\ ~v[e].connected /\ v[e].remote = "none"
    BY <1>3, <2>1, <2>2 DEF Sound, Staged
  <2>3. ASSUME q.out = "invite" PROVE Lives(v[p]) => ~v[p].connected
    BY <1>2, <2>2, <2>3 DEF Sound, Staged
  <2> QED BY <1>2, <2>2, <2>3, Unconnected
<1>11. Staged(e, w[e])'
  <2>1. Staged(e, v[e])
    BY DEF Sound
  <2>2. CASE q.out = "invite"
    BY <1>1, <1>4, <1>8, <1>10, <2>2 DEF Staged, Ensues
  <2>3. CASE q.out # "invite"
    BY <1>1, <1>4, <1>8, <2>1, <2>3 DEF Staged, Ensues
  <2> QED BY <2>2, <2>3
<1>12. Staged(p, w[p])'
  <2>1. Staged(p, v[p])
    BY <1>2 DEF Sound
  <2>2. CASE q.out = "invite"
    BY <1>2, <1>4, <1>8, <1>10, <2>1, <2>2 DEF Staged, Sound, Shaped
  <2>3. CASE q.out # "invite"
    BY <1>4, <1>8, <2>1, <2>3 DEF Staged
  <2> QED BY <2>2, <2>3
<1>13. Wired(e)' /\ Wired(p)'
  <2>1. Wired(e) /\ Wired(p)
    BY <1>2 DEF Sound
  <2>2. CASE q.out = "invite"
    <3>1. q.out \notin Kinds
      BY <2>2 DEF Kinds
    <3>2. offer'[e] = offer[e] /\ offer'[p] = Nothing /\ reply'[p] = Nothing /\ reply'[e] = Nothing
      BY <1>6, <1>7, <1>10, <2>2, <3>1
    <3> QED BY <1>2, <2>1, <3>2, NoAnswer DEF Wired
  <2>3. CASE q.out \in Kinds
    <3>1. current' = current /\ reply'[e] = Nothing /\ offer'[e] = m /\ m.kind \in Kinds
      BY <1>3, <1>4, <1>5, <1>6, <2>3 DEF Sends, Pending, Kinds
    <3> QED BY <1>2, <1>7, <2>1, <3>1, NoAnswer DEF Wired
  <2>4. CASE q.out \notin Kinds /\ q.out # "invite"
    BY <1>2, <1>4, <1>6, <1>7, <2>1, <2>4 DEF Wired
  <2> QED BY <2>2, <2>3, <2>4
<1>14. Weight(g) = Weight(q) /\ Weight(g) \in 0..4
  BY <1>1 DEF Weight, Asking, PumpType
<1>15. q.cseq <= Weight(g) + surprises' /\ q.cseq <= 4 + surprises'
  <2>1. q.cseq <= Weight(g) + surprises /\ q.cseq \in Nat
    BY <1>3, <1>14 DEF Sends, PumpType
  <2>2. surprises \in Nat /\ surprises' \in Nat /\ surprises <= surprises'
    BY Grows DEF Counted
  <2> QED BY <1>14, <2>1, <2>2
<1>16. Asked(e, w[e])'
  <2>1. Pending(e)' <=> Pending(e) \/ q.out \in Kinds
    <3>1. CASE q.out \in Kinds
      <4>1. m # Nothing
        BY <1>5, <3>1, NoAnswer DEF Kinds
      <4> QED BY <1>6, <3>1, <4>1 DEF Pending
    <3>2. CASE q.out \notin Kinds
      BY <1>6, <3>2 DEF Pending
    <3> QED BY <3>1, <3>2
  <2>2. Lives(w[e]) /\ w[e].out = "none" /\ w[e].cseq = pump'[e].cseq
    BY <1>1, <1>3, <1>6, <1>8 DEF Lives
  <2>3. offer'[e] # Nothing => offer'[e].kind = g.attempt.kind /\ offer'[e].cseq = g.cseq
    <3>1. CASE q.out \in Kinds
      BY <1>1, <1>3, <1>5, <1>6, <3>1 DEF Sends
    <3>2. CASE q.out \notin Kinds
      BY <1>1, <1>3, <1>6, <3>2 DEF Sends
    <3> QED BY <3>1, <3>2
  <2>4. Sends(e, w[e])'
    <3>1. Asking(g) <=> Asking(q)
      BY <1>1 DEF Asking
    <3>2. "none" \notin Kinds
      BY DEF Kinds
    <3> QED BY <1>1, <1>3, <1>4, <1>6, <1>8, <1>15, <2>1, <2>2, <2>3, <3>1, <3>2 DEF Sends
  <2> QED BY <2>2, <2>4 DEF Asked
<1>17. Runs(e, w[e])' /\ Clean(e, w[e])'
  <2>1. Runs(e, w[e])'
    BY <1>1, <1>3, <1>4, <1>6, <1>8 DEF Runs, Ensues, Alive, Lives, Asking
  <2>2. Clean(e, w[e])'
    BY <1>1, <1>3, <1>6, <1>8, <1>15 DEF Clean, Lives
  <2> QED BY <2>1, <2>2
<1>18. Asked(p, w[p])' /\ Runs(p, w[p])' /\ Clean(p, w[p])'
  BY <1>2, <1>4, <1>7, <1>8, FrameKeeps
<1>19. /\ BothAuto' <=> BothAuto
       /\ \A x \in Ends : pump[x].glares = 2 => pump'[x].glares = 2
       /\ surprises' = 0 => surprises = 0
  <2>1. Alive(e)' /\ (Alive(p)' <=> Alive(p))
    BY <1>1, <1>3, <1>6, <1>7 DEF Alive, Lives
  <2>2. BothAuto' <=> BothAuto
    BY <1>2, <1>4, <2>1 DEF BothAuto
  <2>3. pump[e].glares = 2 => g.glares = 2
    BY <1>1, <1>3 DEF Sound, Resorts, Ensues
  <2> QED BY <1>2, <1>6, <1>7, <2>2, <2>3, Grows
<1>20. Resorts(e, w[e])' /\ Resorts(p, w[p])'
  <2>1. Resorts(e, v[e]) /\ Resorts(p, v[p])
    BY <1>2 DEF Sound
  <2>2. \A x \in Ends : Collided(v[x]) => Collided(w[x])'
    BY <1>1, <1>2, <1>3, <1>8, <1>19 DEF Collided, Ensues
  <2>3. Resorts(p, w[p])'
    BY <1>2, <1>7, <1>8, <1>19, <2>1, <2>2 DEF Resorts
  <2>4. Resorts(e, w[e])'
    BY <1>1, <1>3, <1>6, <1>8, <1>19, <2>1, <2>2 DEF Resorts, Ensues, Asking
  <2> QED BY <2>3, <2>4
<1>21. Coherent(w)'
  <2>1. CASE q.out = "invite"
    BY <1>4, <1>10, <2>1, TwoEnds DEF Sound, Shaped, Coherent
  <2>2. CASE q.out # "invite"
    <3>1. Behind(e, v[e]) => Behind(e, w[e])'
      BY <1>1, <1>6, <1>8 DEF Ensues, Behind, Asking
    <3>2. Behind(p, v[p]) => Behind(p, w[p])'
      BY <1>7, <1>8 DEF Behind
    <3>3. \A x \in Ends : Lives(w[x]) => Lives(v[x])
      BY <1>2, <1>3, <1>8
    <3>4. \A x \in Ends : Behind(x, v[x]) => Behind(x, w[x])'
      BY <1>2, <3>1, <3>2
    <3>5. "caller" \in Ends /\ Coherent(v) /\ dialog' = dialog /\ current' = current
      BY <1>4, <2>2, TwoEnds DEF Sound
    <3> QED BY <3>3, <3>4, <3>5 DEF Coherent
  <2> QED BY <2>1, <2>2
<1> QED
  BY <1>2, <1>8, <1>9, <1>11, <1>12, <1>13, <1>16, <1>17, <1>18, <1>20, <1>21 DEF Sound

-----------------------------------------------------------------------------
(* An end that has never offered T.38, or has lost a collision, offers it.  *)
LEMMA OfferFollows ==
    ASSUME NEW v, Sound(v), NEW e \in Ends, Lives(v[e]), v[e].connected, v[e].fax = "none",
           v[e].remote = "audio", mode[e] = "auto", v[e].attempt.at \in {"NotStarted", "Backoff"}
    PROVE  LET q == Reinvite(v[e], "t38") IN
           /\ q \in PumpType /\ Ensues(e, v[e], q)
           /\ ~q.attempt.cancelling /\ (Asking(q) => q.attempt.kind = "t38")
<1> DEFINE s == v[e]
           n == s.cseq + 1
           a == Waiting("t38", n)
           q == Reinvite(s, "t38")
<1>1. s \in PumpType /\ Staged(e, s) /\ Asked(e, s) /\ "t38" \in Kinds /\ Lives(s)
        /\ s.connected /\ s.fax = "none"
      /\ s.remote = "audio" /\ s.attempt.at # "Waiting" /\ s.attempt.at # "Rejected"
  BY DEF Sound, Kinds
<1>2. s.cseq \in Nat /\ n \in Nat /\ Weight(s) \in 0..4 /\ surprises \in Nat /\ s.glares \in 0..2
  BY Counts
<1> HIDE DEF s
<1>3. q \in PumpType
  BY <1>1, ReinviteType
<1>4. a \in AttemptType /\ a.at = "Waiting" /\ a.kind = "t38" /\ a.cseq = n /\ ~a.cancelling
  BY <1>1, <1>2, PumpTypes DEF Waiting, Attempt
<1>5. q = [s EXCEPT !.cseq = n, !.out = "t38", !.attempt = a]
  BY DEF Reinvite
<1> HIDE DEF a, q
<1>6. /\ q.cseq = n /\ q.out = "t38" /\ q.attempt = a /\ q.connected = s.connected
      /\ q.remote = s.remote /\ q.glares = s.glares /\ q.fax = s.fax /\ q.over = s.over
  BY <1>1, <1>5 DEF PumpType
<1>7. ~Asking(s) /\ Asking(q)
  BY <1>1, <1>4, <1>6 DEF Asking
<1>8. /\ ~Pending(e) /\ s.out # "audio" /\ s.out # "t38" /\ s.out # "invite"
      /\ offer[e] = Nothing /\ reply[e] = Nothing
  BY <1>1, <1>7 DEF Staged, Asked, Sends, Kinds, Pending
<1>9. n <= Weight(q) + surprises
  <2>1. Weight(q) = s.glares + 1
    BY <1>4, <1>6, <1>7 DEF Weight
  <2>2. s.cseq <= Weight(s) + surprises
    BY <1>1 DEF Asked, Sends
  <2>3. Weight(s) <= s.glares
    <3>1. s.attempt.at = "NotStarted" \/ s.attempt.at = "Backoff"
      BY DEF s
    <3> QED BY <1>2, <3>1 DEF Weight
  <2> QED BY <1>2, <2>1, <2>2, <2>3
<1>10. linger[e] # Nothing => linger[e].cseq <= n /\ linger[e].cseq < n
  <2>1. linger[e] # Nothing => linger[e].cseq <= s.cseq
    BY <1>1 DEF Asked, Sends
  <2>2. linger[e].cseq \in Nat
    BY DEF Sound, Shaped, MessageType
  <2> QED BY <1>2, <2>1, <2>2
<1>11. Sends(e, q)
  <2>1. mode[e] = "auto"
    OBVIOUS
  <2> QED BY <1>1, <1>4, <1>6, <1>7, <1>8, <1>9, <1>10, <2>1 DEF Sends
<1>12. Ensues(e, s, q)
  <2>1. ~Behind(e, s)
    BY <1>7 DEF Behind
  <2>2. Lives(q)
    BY <1>1, <1>6 DEF Lives
  <2> QED BY <1>1, <1>4, <1>6, <1>11, <2>1, <2>2 DEF Ensues
<1> QED BY <1>3, <1>4, <1>6, <1>12 DEF s, q

(* An end offers T.38 when its time has come. *)
LEMMA OfferT38Keeps ==
    ASSUME NEW v, NEW w, Sound(v), Foreseen(v), Foreseen(w)', NEW e \in Ends, OfferT38(e)
    PROVE  Sound(w)'
<1>1. v[e] = pump[e]
  BY ConsumedNone DEF OfferT38, Idle, Foreseen, Ahead
<1>2. /\ Alive(e) /\ Lives(v[e]) /\ v[e].connected /\ v[e].fax = "none" /\ v[e].remote = "audio"
      /\ mode[e] = "auto" /\ v[e].attempt.at \in {"NotStarted", "Backoff"}
      /\ Becomes(e, Reinvite(v[e], "t38")) /\ Counted
  BY <1>1 DEF OfferT38, Idle, Alive, Lives, Counted
<1> DEFINE q == Reinvite(v[e], "t38")
<1>3. /\ q \in PumpType /\ Ensues(e, v[e], q) /\ ~q.attempt.cancelling
      /\ Asking(q) => q.attempt.kind = "t38"
  BY <1>2, OfferFollows
<1>4. Becomes(e, q) /\ Alive(e) /\ Counted
  BY <1>2
<1> HIDE DEF q
<1> QED BY <1>3, <1>4, BecomesKeeps

(* A pump may stay as it is.                                                *)
LEMMA StaysFollows ==
    ASSUME NEW v, Sound(v), NEW e \in Ends, Lives(v[e])
    PROVE  /\ v[e] \in PumpType /\ Ensues(e, v[e], v[e])
           /\ surprises = 0 => ~v[e].attempt.cancelling
                /\ (Asking(v[e]) => v[e].attempt.kind = "t38")
<1>1. v[e] \in PumpType /\ Staged(e, v[e]) /\ Asked(e, v[e]) /\ Runs(e, v[e]) /\ Resorts(e, v[e])
  BY DEF Sound
<1> QED BY <1>1 DEF Ensues, Staged, Asked, Runs, Resorts

(* An end cancels a late offer, and finds it. *)
LEMMA CancelReinviteKeeps ==
    ASSUME NEW v, NEW w, Sound(v), Foreseen(v), Foreseen(w)', NEW e \in Ends, CancelReinvite(e)
    PROVE  Sound(w)'
<1> DEFINE s == v[e]
           a == [s.attempt EXCEPT !.cancelling = TRUE]
           q == [s EXCEPT !.attempt = a]
<1>1. pump[e] = s
  BY ConsumedNone DEF CancelReinvite, Idle, Foreseen, Ahead
<1>2. /\ Alive(e) /\ Lives(s) /\ Asking(s) /\ s \in PumpType
      /\ surprises' = surprises + 1 /\ Counted /\ s.out = "none"
  BY <1>1 DEF CancelReinvite, Idle, Alive, Lives, Asking, Surprise, Counted, Sound, Clean
<1> HIDE DEF s
<1>3. Pending(e) /\ s.attempt.cseq \in {offer[e].cseq, reply[e].cseq}
  <2>1. Asked(e, s)
    BY DEF Sound, s
  <2>2. Pending(e) /\ s.attempt.cseq = s.cseq
    BY <1>2, <2>1 DEF Asked, Sends, Kinds
  <2>3. offer[e] # Nothing => offer[e].cseq = s.cseq
    BY <1>2, <2>1 DEF Asked, Sends
  <2>4. reply[e] # Nothing => reply[e].cseq = s.cseq
    BY <1>2, <2>1 DEF Asked, Sends
  <2> QED BY <2>2, <2>3, <2>4 DEF Pending
<1>4. Becomes(e, q)
  <2>1. Becomes(e, [s EXCEPT !.attempt.cancelling = TRUE])
    BY <1>1, <1>3 DEF CancelReinvite
  <2>2. [s EXCEPT !.attempt.cancelling = TRUE] = q
    BY <1>2 DEF PumpType
  <2> QED BY <2>1, <2>2
<1>5. /\ a \in AttemptType /\ a.at = s.attempt.at /\ a.kind = s.attempt.kind
           /\ a.cseq = s.attempt.cseq
  BY <1>2 DEF PumpType, AttemptType
<1> HIDE DEF a
<1>6. /\ q \in PumpType /\ q.cseq = s.cseq /\ q.out = s.out /\ q.attempt = a
           /\ q.connected = s.connected
      /\ q.remote = s.remote /\ q.glares = s.glares /\ q.fax = s.fax /\ q.over = s.over
  BY <1>2, <1>5 DEF PumpType
<1> HIDE DEF q
<1>7. Ensues(e, s, s)
  BY <1>2, StaysFollows DEF s
<1>8. (Asking(q) <=> Asking(s)) /\ Weight(q) = Weight(s) /\ (Lives(q) <=> Lives(s))
  BY <1>5, <1>6 DEF Asking, Weight, Lives
<1>9. Sends(e, q)
  BY <1>5, <1>6, <1>7, <1>8 DEF Ensues, Sends
<1>10. Ensues(e, s, q)
  BY <1>5, <1>6, <1>7, <1>8, <1>9 DEF Ensues, Behind
<1>11. surprises' # 0
  <2>1. surprises \in Nat
    BY Grows, <1>2
  <2> QED BY <1>2, <2>1
<1> QED BY <1>2, <1>4, <1>6, <1>10, <1>11, BecomesKeeps DEF s

(* An end consumes its events and decides what follows. *)
LEMMA StepKeeps ==
    ASSUME NEW v, NEW w, Sound(v), Foreseen(v), Foreseen(w)', NEW e \in Ends, Step(e)
    PROVE  Sound(w)'
<1> DEFINE s == v[e]
           q == Decide(e, s)
<1>1. /\ Alive(e) /\ Becomes(e, q) /\ Counted /\ surprises' = surprises
  BY DEF Step, Foreseen, Ahead, Counted
<1>2. /\ s \in PumpType /\ Staged(e, s) /\ Asked(e, s) /\ Runs(e, s) /\ Clean(e, s) /\ Resorts(e, s)
  BY DEF Sound
<1>3. ASSUME Lives(s) PROVE /\ Ensues(e, s, s)
                            /\ surprises = 0 => ~s.attempt.cancelling
                                                 /\ (Asking(s) => s.attempt.kind = "t38")
  BY <1>3, StaysFollows
<1> HIDE DEF s
<1>4. CASE ~Lives(s)
  <2>1. s = Failed(s.over) /\ s.over \in Endings
    BY <1>2, <1>4 DEF Clean, Endings, PumpType, Lives
  <2>2. ~s.connected
    BY <2>1 DEF Failed, Fresh
  <2>3. q = Failed(s.over)
    BY <2>1, <2>2 DEF Decide
  <2> HIDE DEF q
  <2>4. Becomes(e, Failed(s.over))
    BY <1>1, <2>3
  <2> QED BY <1>1, <2>1, <2>4, FailKeeps
<1>5. CASE Lives(s) /\ q = s
  BY <1>1, <1>2, <1>3, <1>5, BecomesKeeps DEF s
<1>6. CASE q = Failed("no t38")
  <2>1. "no t38" \in Endings
    BY DEF Endings, Whys
  <2> QED BY <1>1, <1>6, <2>1, FailKeeps
<1>7. ASSUME NEW kind \in Kinds, Lives(s), q = [s EXCEPT !.fax = kind], s.connected, s.fax = "none",
             s.remote = kind, ~Asking(s), kind = "audio"
               /\ mode[e] = "auto" => s.attempt.at = "Rejected"
      PROVE  Sound(w)'
  <2>1. /\ q \in PumpType /\ q.cseq = s.cseq /\ q.out = s.out /\ q.attempt = s.attempt
        /\ q.connected = s.connected /\ q.remote = s.remote /\ q.glares = s.glares
        /\ q.fax = kind /\ q.over = s.over
    <3> HIDE DEF q
    <3> QED BY <1>2, <1>7 DEF PumpType
  <2> HIDE DEF q
  <2>2. (Asking(q) <=> Asking(s)) /\ Weight(q) = Weight(s) /\ (Lives(q) <=> Lives(s))
    BY <2>1 DEF Asking, Weight, Lives
  <2>3. Ensues(e, s, s)
    BY <1>3, <1>7
  <2>4. Sends(e, q)
    BY <2>1, <2>2, <2>3 DEF Ensues, Sends
  <2>5. Ensues(e, s, q)
    BY <1>7, <2>1, <2>2, <2>3, <2>4 DEF Ensues, Behind
  <2>6. surprises' = 0 => ~q.attempt.cancelling /\ (Asking(q) => q.attempt.kind = "t38")
    BY <1>1, <1>3, <1>7, <2>1, <2>2
  <2> QED BY <1>1, <2>1, <2>5, <2>6, BecomesKeeps DEF s
<1>8. CASE Lives(s) /\ s.connected /\ s.fax = "none" /\ s.remote = "audio" /\ mode[e] = "auto"
           /\ s.attempt.at = "NotStarted" /\ q = Reinvite(s, "t38")
  <2>1. /\ q \in PumpType /\ Ensues(e, s, q) /\ ~q.attempt.cancelling
        /\ Asking(q) => q.attempt.kind = "t38"
    BY <1>8, OfferFollows DEF s
  <2> HIDE DEF q
  <2> QED BY <1>1, <2>1, BecomesKeeps DEF s
<1> QED
  <2>1. s.connected \in BOOLEAN /\ s.fax \in Kinds \cup {"none"} /\ mode[e] \in Modes
    BY <1>2 DEF PumpType, Sound, Shaped
  <2>2. CASE ~Lives(s) \/ ~s.connected \/ s.fax # "none"
    BY <1>4, <1>5, <2>2 DEF Decide
  <2>3. CASE Lives(s) /\ s.connected /\ s.fax = "none" /\ s.remote = "t38"
          /\ s.attempt.at # "Waiting"
    BY <1>7, <2>3 DEF Decide, Asking, Kinds
  <2>4. CASE Lives(s) /\ s.connected /\ s.fax = "none" /\ s.remote # "audio"
             /\ ~(s.remote = "t38" /\ s.attempt.at # "Waiting")
    BY <1>5, <2>4 DEF Decide
  <2>5. CASE Lives(s) /\ s.connected /\ s.fax = "none" /\ s.remote = "audio"
    <3>1. CASE mode[e] = "t38"
      BY <1>6, <2>5, <3>1 DEF Decide
    <3>2. CASE mode[e] = "g711"
      <4>1. ~Asking(s)
        BY <1>2, <2>5, <3>2 DEF Asked, Sends, Asking
      <4>2. q = [s EXCEPT !.fax = "audio"]
        BY <2>5, <3>2 DEF Decide
      <4> HIDE DEF q
      <4> QED BY <1>7, <2>5, <3>2, <4>1, <4>2 DEF Kinds
    <3>3. CASE mode[e] = "auto" /\ s.attempt.at = "Rejected"
      <4>1. ~Asking(s)
        BY <3>3 DEF Asking
      <4>2. q = [s EXCEPT !.fax = "audio"]
        BY <2>5, <3>3 DEF Decide
      <4> HIDE DEF q
      <4> QED BY <1>7, <2>5, <3>3, <4>1, <4>2 DEF Kinds
    <3>4. CASE mode[e] = "auto" /\ s.attempt.at # "Rejected"
      <4>1. q = s \/ (q = Reinvite(s, "t38") /\ s.attempt.at = "NotStarted")
        BY <2>5, <3>4 DEF Decide
      <4> QED BY <1>5, <1>8, <2>5, <3>4, <4>1
    <3> QED BY <2>1, <3>1, <3>2, <3>3, <3>4 DEF Modes
  <2> QED BY <2>1, <2>2, <2>3, <2>4, <2>5

(* An end hangs up. *)
LEMMA EndKeeps ==
    ASSUME NEW v, NEW w, Sound(v), Foreseen(v), Foreseen(w)', NEW e \in Ends,
           Unsettled(e) \/ HangUp(e) \/ PeerHangup(e)
    PROVE  Sound(w)'
<1>1. "unsettled" \in Endings /\ "done" \in Endings /\ "hangup" \in Endings
  BY DEF Endings, Whys
<1>2. PICK why \in Endings : Becomes(e, Failed(why)) /\ Counted
  BY <1>1 DEF Unsettled, HangUp, PeerHangup, Counted
<1> QED BY <1>2, FailKeeps

(* PJSIP repeats an offer with a number of its own, and says so.            *)
LEMMA ChallengeKeeps ==
    ASSUME NEW v, NEW w, Sound(v), Foreseen(v), Foreseen(w)', NEW e \in Ends, Challenge(e)
    PROVE  Sound(w)'
<1> DEFINE p == Other(e)
           s == v[e]
           n == pump[e].cseq + 1
           a == [s.attempt EXCEPT !.cseq = n]
           q == [s EXCEPT !.cseq = n, !.attempt = a]
           m == mode[e]
           more == Append(events[e], InviteStarted(n))
           last == InviteFinal(offer[e].cseq, 401)
<1>1. /\ offer[e] # Nothing /\ surprises' = surprises + 1 /\ Counted
      /\ pump' = [pump EXCEPT ![e].cseq = n]
      /\ offer' = [offer EXCEPT ![e].cseq = n]
      /\ Push(e, <<InviteStarted(n), last>>)
      /\ UNCHANGED <<mode, current, dialog, reply, linger>>
  BY DEF Challenge, Surprise, Counted
<1>2. /\ s \in PumpType /\ pump[e] \in PumpType /\ offer[e] \in MessageType
           /\ events[e] \in Seq(EventType)
      /\ Staged(e, s) /\ Asked(e, s) /\ Runs(e, s) /\ Clean(e, s) /\ Resorts(e, s)
      /\ pump[e].cseq \in Nat /\ offer[e].cseq \in Nat
  BY DEF Sound, Shaped, PumpType, MessageType
<1>3. /\ Lives(s) /\ Asking(s) /\ s.out = "none" /\ s.cseq = pump[e].cseq /\ n \in Nat
           /\ n = s.cseq + 1
      /\ offer[e].kind = s.attempt.kind
  BY <1>1, <1>2 DEF Asked, Sends, Pending, PumpType
<1>4. p \in Ends /\ p # e /\ Other(p) = e /\ Other(e) = p /\ \A x \in Ends : x = e \/ x = p
  BY TwoEnds
<1>5. s = Consumed(pump[e], events[e], m)
  BY DEF Foreseen, Ahead
<1> HIDE DEF s, p
<1>6. pump'[e] = Later(pump[e]) /\ pump' \in [Ends -> PumpType]
  BY <1>1, <1>2, <1>3 DEF Later, PumpType, Sound, Shaped
<1>7. Consumed(pump'[e], events[e], m) = Later(s)
  BY <1>2, <1>3, <1>5, <1>6, ConsumedLater DEF Busy, Lives
<1>8. /\ a \in AttemptType /\ a.at = s.attempt.at /\ a.kind = s.attempt.kind /\ a.cseq = n
      /\ a.cancelling = s.attempt.cancelling
  BY <1>2, <1>3 DEF PumpType, AttemptType
<1>9. /\ q \in PumpType /\ q.cseq = n /\ q.out = s.out /\ q.attempt = a /\ q.connected = s.connected
      /\ q.remote = s.remote /\ q.glares = s.glares /\ q.fax = s.fax /\ q.over = s.over
  <2> HIDE DEF a
  <2> QED BY <1>2, <1>3, <1>8 DEF PumpType
<1>10. Consume(Later(s), InviteStarted(n), m) = q
  <2>1. Lives(Later(s)) /\ Later(s).attempt = s.attempt
    BY <1>2, <1>3 DEF Later, PumpType, Lives
  <2>2. Consume(Later(s), InviteStarted(n), m) = OnInviteStarted(Later(s), n)
    <3>1. \A k : Consume(Later(s), InviteStarted(k), m) = OnInviteStarted(Later(s), k)
      <4> HIDE DEF m
      <4> QED BY <2>1, Consumes
    <3> QED BY <3>1
  <2>3. OnInviteStarted(Later(s), n) = [Later(s) EXCEPT !.attempt.cseq = n]
    BY <1>3, <2>1 DEF OnInviteStarted, Asking
  <2>4. [Later(s) EXCEPT !.attempt.cseq = n] = q
    BY <1>2, <1>3 DEF Later, PumpType
  <2> QED BY <2>2, <2>3, <2>4
<1>11. Consume(q, last, m) = q
  <2>1. Lives(q)
    BY <1>3, <1>9 DEF Lives
  <2>2. Consume(q, last, m) = OnInviteFinal(q, offer[e].cseq, 401)
    <3>1. \A k, code : Consume(q, InviteFinal(k, code), m) = OnInviteFinal(q, k, code)
      <4> HIDE DEF q, m
      <4> QED BY <2>1, Consumes
    <3> HIDE DEF q, m
    <3> QED BY <3>1
  <2>3. ~Concerns(q.attempt, offer[e].cseq, 401)
    BY DEF Concerns
  <2> QED BY <2>2, <2>3 DEF OnInviteFinal
<1>12. InviteStarted(n) \in EventType /\ last \in EventType
  BY <1>2, <1>3, EventTypes
<1> HIDE DEF q, last
<1>13. more \in Seq(EventType) /\ events'[e] = Append(more, last)
         /\ events' \in [Ends -> Seq(EventType)]
       /\ events'[p] = events[p]
  <2>1. events' = [events EXCEPT ![e] = @ \o <<InviteStarted(n), last>>]
          /\ events \in [Ends -> Seq(EventType)]
    BY <1>1 DEF Push, Sound, Shaped
  <2>2. <<InviteStarted(n), last>> \in Seq(EventType)
    BY <1>12
  <2>3. events[e] \o <<InviteStarted(n), last>> = Append(more, last) /\ more \in Seq(EventType)
    BY <1>2, <1>12
  <2> HIDE DEF more
  <2> QED BY <1>4, <1>12, <2>1, <2>3
<1>14. Ahead(e)' = q
  <2>1. Consumed(pump'[e], more, m) = Consume(Consumed(pump'[e], events[e], m), InviteStarted(n), m)
    BY <1>2, <1>12, ConsumedOne
  <2>2. Consumed(pump'[e], Append(more, last), m) = Consume(Consumed(pump'[e], more, m), last, m)
    <3> HIDE DEF more
    <3> QED BY <1>12, <1>13, ConsumedOne
  <2>3. mode'[e] = m
    BY <1>1
  <2> HIDE DEF more, m
  <2> QED BY <1>7, <1>10, <1>11, <1>13, <2>1, <2>2, <2>3 DEF Ahead
<1>15. Ahead(p)' = v[p]
  <2>1. pump'[p] = pump[p] /\ mode'[p] = mode[p]
    BY <1>1, <1>4 DEF Sound, Shaped
  <2> QED BY <1>4, <1>13, <2>1, AheadSame DEF Foreseen
<1>16. w \in [Ends -> PumpType] /\ w[e] = q /\ w[p] = v[p]
  <2>1. w[e] = q /\ w[p] = v[p] /\ w = [x \in Ends |-> w[x]]
    BY <1>4, <1>14, <1>15 DEF Foreseen
  <2>2. \A x \in Ends : w[x] \in PumpType
    BY <1>4, <1>9, <2>1 DEF Sound
  <2> QED BY <2>1, <2>2
<1> HIDE DEF more, a, m
<1>17. /\ offer'[e] # Nothing /\ offer'[e].kind = offer[e].kind /\ offer'[e].cseq = n
       /\ offer' \in [Ends -> MessageType] /\ offer'[p] = offer[p] /\ pump'[p] = pump[p]
       /\ pump'[e].cseq = n /\ pump'[e].fax = pump[e].fax /\ pump'[e].over = pump[e].over
       /\ pump'[e].glares = pump[e].glares /\ pump'[e].attempt = pump[e].attempt
            /\ pump'[e].out = pump[e].out
  <2>1. offer'[e] = [offer[e] EXCEPT !.cseq = n] /\ offer'[p] = offer[p] /\ pump'[p] = pump[p]
        /\ offer' = [offer EXCEPT ![e] = [offer[e] EXCEPT !.cseq = n]]
    BY <1>1, <1>4 DEF Sound, Shaped
  <2>2. [offer[e] EXCEPT !.cseq = n] \in MessageType /\ offer'[e].kind = offer[e].kind
          /\ offer'[e].cseq = n
    BY <1>2, <1>3, <2>1 DEF MessageType
  <2>3. offer[e].kind # "none"
    BY <1>1 DEF Sound, Wired, Kinds
  <2>4. offer'[e] # Nothing
    BY <2>2, <2>3, NoAnswer
  <2>5. /\ pump'[e].cseq = n /\ pump'[e].fax = pump[e].fax /\ pump'[e].over = pump[e].over
        /\ pump'[e].glares = pump[e].glares /\ pump'[e].attempt = pump[e].attempt
             /\ pump'[e].out = pump[e].out
    BY <1>2, <1>6 DEF Later, PumpType
  <2>6. offer' \in [Ends -> MessageType]
    BY <2>1, <2>2 DEF Sound, Shaped
  <2> QED BY <2>1, <2>2, <2>4, <2>5, <2>6
<1> HIDE DEF n
<1>18. Shaped'
  <2>1. surprises' \in Nat
    BY <1>1, Grows
  <2> QED BY <1>1, <1>6, <1>13, <1>17, <2>1 DEF Sound, Shaped
<1>19. Staged(e, w[e])' /\ Staged(p, w[p])'
  BY <1>1, <1>2, <1>4, <1>8, <1>9, <1>16 DEF Sound, Staged, Lives
<1>20. Wired(e)' /\ Wired(p)'
  BY <1>1, <1>4, <1>17 DEF Sound, Wired
<1>21. Asking(q) /\ Lives(q) /\ Weight(q) = Weight(s)
  BY <1>3, <1>8, <1>9 DEF Asking, Weight, Lives
<1>22. s.cseq \in Nat /\ surprises \in Nat /\ Weight(s) \in 0..4 /\ pump[e].cseq <= 4 + surprises
       /\ s.cseq <= Weight(s) + surprises
  BY <1>2, <1>3, Counts DEF s, Asked, Sends, Clean
<1>23. n <= Weight(q) + surprises' /\ n <= 4 + surprises'
  BY <1>1, <1>3, <1>21, <1>22
<1>24. linger[e] # Nothing => linger[e].cseq < n /\ linger[e].cseq <= n
  <2>1. linger[e] # Nothing => linger[e].cseq < s.cseq
    BY <1>2, <1>3 DEF Asked, Sends
  <2>2. linger[e].cseq \in Nat
    BY DEF Sound, Shaped, MessageType
  <2> QED BY <1>3, <1>22, <2>1, <2>2
<1>25. Asked(e, w[e])'
  <2>1. reply[e] = Nothing
    BY <1>1 DEF Sound, Wired
  <2>2. Pending(e)' /\ linger'[e] = linger[e] /\ reply'[e] = Nothing /\ mode'[e] = mode[e]
    BY <1>1, <1>17, <2>1 DEF Pending
  <2>3. Sends(e, w[e])'
    BY <1>2, <1>3, <1>8, <1>9, <1>16, <1>17, <1>21, <1>23, <1>24, <2>2 DEF Asked, Sends, Kinds
  <2> QED BY <1>3, <1>9, <1>16, <1>21, <2>3 DEF Asked
<1>26. Runs(e, w[e])' /\ Clean(e, w[e])'
  <2>1. Runs(e, w[e])'
    BY <1>1, <1>2, <1>3, <1>8, <1>9, <1>16, <1>17, <1>21 DEF Runs, Alive
  <2>2. Clean(e, w[e])'
    BY <1>2, <1>9, <1>16, <1>17, <1>21, <1>23 DEF Clean
  <2> QED BY <2>1, <2>2
<1>27. Asked(p, w[p])' /\ Runs(p, w[p])' /\ Clean(p, w[p])'
  BY <1>1, <1>4, <1>16, <1>17, FrameKeeps
<1>28. surprises' # 0 /\ Resorts(p, v[p])
  <2>1. surprises \in Nat
    BY <1>1, Grows
  <2> QED BY <1>1, <1>4, <2>1 DEF Sound
<1>29. Resorts(e, w[e])' /\ Resorts(p, w[p])'
  BY <1>2, <1>3, <1>9, <1>16, <1>17, <1>21, <1>28 DEF Resorts
<1>30. Coherent(w)'
  <2>1. Behind(e, v[e]) => Behind(e, w[e])'
    BY <1>1, <1>8, <1>9, <1>16, <1>21 DEF Behind, s
  <2>2. Behind(p, v[p]) => Behind(p, w[p])'
    BY <1>1, <1>16 DEF Behind
  <2>3. \A x \in Ends : Lives(w[x]) => Lives(v[x])
    BY <1>3, <1>4, <1>16 DEF s
  <2>4. \A x \in Ends : Behind(x, v[x]) => Behind(x, w[x])'
    BY <1>4, <2>1, <2>2
  <2>5. "caller" \in Ends /\ Coherent(v) /\ dialog' = dialog /\ current' = current
    BY <1>1, TwoEnds DEF Sound
  <2> QED BY <2>3, <2>4, <2>5 DEF Coherent
<1> QED
  BY <1>4, <1>16, <1>18, <1>19, <1>20, <1>25, <1>26, <1>27, <1>29, <1>30 DEF Sound

-----------------------------------------------------------------------------
(* What the final response to the offer that a pump waits for makes of it.  *)
Unmoved(s, q) ==
    /\ q \in PumpType /\ Lives(q) /\ q.connected = s.connected /\ q.fax = s.fax
    /\ ~q.attempt.cancelling /\ q.attempt.at # "NotStarted"

(* An attempt that waits no more. *)
LEMMA Settled ==
    /\ \A a \in {Backoff, Accepted, Rejected} : a \in AttemptType /\ ~a.cancelling
         /\ a.at # "Waiting"
    /\ Backoff.at = "Backoff" /\ Accepted.at = "Accepted" /\ Rejected.at = "Rejected"
<1>1. Backoff \in AttemptType /\ Accepted \in AttemptType /\ Rejected \in AttemptType
  BY PumpTypes
<1> QED BY <1>1 DEF Backoff, Accepted, Rejected, Attempt

(* The final response that a pump waits for reaches its attempt. *)
LEMMA FinalConcerns ==
    ASSUME NEW p, NEW m, NEW code \in Nat, code # 401,
             NEW n, Lives(p), Asking(p), p.attempt.cseq = n
    PROVE  /\ Consume(p, InviteFinal(n, code), m) = OnInviteFinal(p, n, code)
           /\ Concerns(p.attempt, n, code)
<1>1. \A k, c : Consume(p, InviteFinal(k, c), m) = OnInviteFinal(p, k, c)
  BY DEF Consume, Lives, InviteFinal, Event
<1>2. Concerns(p.attempt, n, code)
  BY DEF Concerns, Asking
<1> QED BY <1>1, <1>2

(* A refusal, a collision or the end of a cancelled offer moves the attempt on. *)
LEMMA RefusedMoves ==
    ASSUME NEW s \in PumpType, Lives(s), Asking(s), NEW m, NEW code \in {487, 488, 491},
           s.attempt.kind = "t38" => s.remote = "audio"
    PROVE  LET q == Consume(s, InviteFinal(s.attempt.cseq, code), m) IN
           \/ q = Failed("unrestored") /\ s.attempt.kind = "audio"
           \/ /\ Unmoved(s, q) /\ ~Asking(q) /\ s.attempt.kind = "t38" /\ code = 491 /\ s.glares < 2
              /\ q.remote = s.remote /\ q.cseq = s.cseq /\ q.out = s.out
              /\ q.attempt.at = "Backoff" /\ q.glares = s.glares + 1
           \/ /\ Unmoved(s, q) /\ ~Asking(q) /\ s.attempt.kind = "t38"
                   /\ (code = 491 => s.glares = 2)
              /\ q.remote = s.remote /\ q.cseq = s.cseq /\ q.out = s.out
              /\ q.attempt.at = "Rejected" /\ q.glares = s.glares
<1> DEFINE n == s.attempt.cseq
           q == Consume(s, InviteFinal(n, code), m)
<1>1. q = OnInviteFinal(s, n, code) /\ Concerns(s.attempt, n, code) /\ code # 200
        /\ code >= 300 /\ code \in Nat
  BY FinalConcerns
<1>2. s.attempt.kind \in Kinds /\ s.glares \in 0..2
  BY DEF PumpType, AttemptType
<1> HIDE DEF q
<1>3. CASE s.attempt.kind = "audio"
  <2>1. q = Failed("unrestored")
    BY <1>1, <1>3 DEF OnInviteFinal
  <2> QED BY <1>3, <2>1 DEF q
<1>4. CASE s.attempt.kind = "t38" /\ code = 491 /\ s.glares < 2
  <2>1. q = [s EXCEPT !.glares = s.glares + 1, !.attempt = Backoff]
    BY <1>1, <1>4 DEF OnInviteFinal
  <2>2. s.glares + 1 \in 0..2
    BY <1>2, <1>4
  <2>3. /\ q \in PumpType /\ q.attempt = Backoff /\ q.glares = s.glares + 1 /\ q.over = s.over
        /\ q.connected = s.connected /\ q.fax = s.fax /\ q.remote = s.remote /\ q.cseq = s.cseq
        /\ q.out = s.out
    BY <2>1, <2>2, Settled DEF PumpType
  <2> QED BY <1>4, <2>3, Settled DEF Unmoved, Lives, Asking, q
<1>5. CASE s.attempt.kind = "t38" /\ ~(code = 491 /\ s.glares < 2)
  <2>1. q = [s EXCEPT !.attempt = Rejected]
    BY <1>1, <1>5 DEF OnInviteFinal
  <2>2. code = 491 => s.glares = 2
    BY <1>2, <1>5
  <2>3. /\ q \in PumpType /\ q.attempt = Rejected /\ q.glares = s.glares /\ q.over = s.over
        /\ q.connected = s.connected /\ q.fax = s.fax /\ q.remote = s.remote /\ q.cseq = s.cseq
        /\ q.out = s.out
    BY <2>1, Settled DEF PumpType
  <2> QED BY <1>5, <2>2, <2>3, Settled DEF Unmoved, Lives, Asking, q
<1> QED BY <1>2, <1>3, <1>4, <1>5 DEF Kinds

(* A description in the answer settles the attempt. *)
LEMMA AgreedMoves ==
    ASSUME NEW s \in PumpType, Lives(s), Asking(s), NEW m, s.fax = "none"
    PROVE  LET kind == s.attempt.kind
               q == Consume(Consume(s, Media(kind), m), InviteFinal(s.attempt.cseq, 200), m) IN
           /\ Unmoved(s, q) /\ ~Asking(q) /\ q.remote = kind /\ q.cseq = s.cseq /\ q.out = s.out
           /\ q.attempt.at = IF kind = "t38" THEN "Accepted" ELSE "Rejected"
           /\ q.glares = s.glares
<1> DEFINE kind == s.attempt.kind
           n == s.attempt.cseq
           r == Consume(s, Media(kind), m)
           q == Consume(r, InviteFinal(n, 200), m)
           a == IF kind = "t38" THEN Accepted ELSE Rejected
<1>1. kind \in Kinds
  BY DEF PumpType, AttemptType
<1>2. r \in PumpType /\ Alike(s, r) /\ r.remote = kind /\ r.attempt.ready = TRUE
  BY <1>1, MediaMoves DEF Asking
<1> HIDE DEF r
<1>3. Lives(r) /\ Asking(r) /\ r.attempt.cseq = n /\ r.attempt.kind = kind
  BY <1>2 DEF Alike, Lives, Asking
<1>4. q = OnInviteFinal(r, n, 200) /\ Concerns(r.attempt, n, 200)
  BY <1>3, FinalConcerns
<1> HIDE DEF q
<1>5. q = [r EXCEPT !.attempt = a]
  BY <1>2, <1>3, <1>4 DEF OnInviteFinal
<1>6. a \in AttemptType /\ ~a.cancelling /\ a.at # "Waiting" /\ a.at # "NotStarted"
      /\ a.at = IF kind = "t38" THEN "Accepted" ELSE "Rejected"
  BY Settled
<1> HIDE DEF a
<1>7. /\ q \in PumpType /\ q.attempt = a /\ q.glares = r.glares /\ q.over = r.over
      /\ q.connected = r.connected /\ q.fax = r.fax /\ q.remote = r.remote /\ q.cseq = r.cseq
      /\ q.out = r.out
  BY <1>2, <1>5, <1>6 DEF PumpType
<1>8. /\ Unmoved(s, q) /\ ~Asking(q) /\ q.remote = kind /\ q.cseq = s.cseq /\ q.out = s.out
      /\ q.attempt.at = IF kind = "t38" THEN "Accepted" ELSE "Rejected"
      /\ q.glares = s.glares
  BY <1>2, <1>3, <1>6, <1>7 DEF Unmoved, Alike, Lives, Asking
<1> QED BY <1>8 DEF q, r

(* An answer of no use makes the pump restore audio, once. *)
LEMMA BrokenMoves ==
    ASSUME NEW s \in PumpType, Lives(s), Asking(s), NEW m
    PROVE  LET q == Consume(Consume(s, MediaError, m), InviteFinal(s.attempt.cseq, 200), m) IN
           \/ q = Failed("unrestored") /\ s.attempt.kind = "audio"
           \/ /\ Unmoved(s, q) /\ Asking(q) /\ s.attempt.kind = "t38" /\ q.attempt.kind = "audio"
              /\ q.remote = s.remote /\ q.cseq = s.cseq + 1 /\ q.out = "audio"
              /\ q.attempt.cseq = s.cseq + 1 /\ q.glares = s.glares
<1> DEFINE n == s.attempt.cseq
           b == [s.attempt EXCEPT !.ready = FALSE]
           r == [s EXCEPT !.attempt = b]
           u == Consume(s, MediaError, m)
           q == Consume(u, InviteFinal(n, 200), m)
           a == Waiting("audio", s.cseq + 1)
<1>1. s.attempt.kind \in Kinds /\ s.cseq \in Nat /\ s.attempt \in AttemptType
  BY DEF PumpType, AttemptType
<1>2. u = r
  <2>1. u = [s EXCEPT !.attempt.ready = FALSE]
    BY Consumes DEF OnMediaError, Asking
  <2>2. [s EXCEPT !.attempt.ready = FALSE] = r
    BY DEF PumpType
  <2> QED BY <2>1, <2>2
<1>3. b \in AttemptType /\ b.at = "Waiting" /\ b.ready = FALSE /\ b.kind = s.attempt.kind
        /\ b.cseq = n
  BY <1>1 DEF Asking, AttemptType
<1> HIDE DEF b
<1>4. /\ r \in PumpType /\ r.attempt = b /\ r.glares = s.glares /\ r.over = s.over
      /\ r.connected = s.connected /\ r.fax = s.fax /\ r.remote = s.remote /\ r.cseq = s.cseq
  BY <1>3 DEF PumpType
<1> HIDE DEF r, u
<1>5. Lives(r) /\ Asking(r)
  BY <1>3, <1>4 DEF Lives, Asking
<1>6. Consume(r, InviteFinal(n, 200), m) = OnInviteFinal(r, n, 200) /\ Concerns(r.attempt, n, 200)
  BY <1>3, <1>4, <1>5, FinalConcerns
<1>7. q = OnInviteFinal(r, n, 200)
  BY <1>2, <1>6
<1> HIDE DEF q
<1>8. CASE s.attempt.kind = "audio"
  <2>1. q = Failed("unrestored")
    BY <1>3, <1>4, <1>6, <1>7, <1>8 DEF OnInviteFinal
  <2> QED BY <1>8, <2>1 DEF q, u
<1>9. CASE s.attempt.kind = "t38"
  <2>1. q = Reinvite(r, "audio")
    BY <1>3, <1>4, <1>6, <1>7, <1>9 DEF OnInviteFinal
  <2>2. q = [r EXCEPT !.cseq = r.cseq + 1, !.out = "audio", !.attempt
          = Waiting("audio", r.cseq + 1)]
    BY <2>1 DEF Reinvite
  <2>3. a \in AttemptType /\ a.at = "Waiting" /\ a.kind = "audio" /\ a.cseq = s.cseq + 1
          /\ ~a.cancelling
    BY <1>1, PumpTypes DEF Waiting, Attempt, Kinds
  <2>4. q = [r EXCEPT !.cseq = s.cseq + 1, !.out = "audio", !.attempt = a]
    BY <1>4, <2>2
  <2> HIDE DEF a
  <2>5. q \in PumpType
    BY <1>4, <2>1, ReinviteType DEF Kinds
  <2>6. /\ q.attempt = a /\ q.glares = r.glares /\ q.over = r.over /\ q.out = "audio"
        /\ q.connected = r.connected /\ q.fax = r.fax /\ q.remote = r.remote /\ q.cseq = s.cseq + 1
    BY <1>4, <2>4 DEF PumpType
  <2>7. /\ Unmoved(s, q) /\ Asking(q) /\ s.attempt.kind = "t38" /\ q.attempt.kind = "audio"
        /\ q.remote = s.remote /\ q.cseq = s.cseq + 1 /\ q.out = "audio"
        /\ q.attempt.cseq = s.cseq + 1 /\ q.glares = s.glares
    BY <1>4, <1>9, <2>3, <2>5, <2>6 DEF Unmoved, Lives, Asking
  <2> QED BY <2>7 DEF q, u
<1> QED BY <1>1, <1>8, <1>9 DEF Kinds

(* The answer was what the pump waited for, or the end of the call.         *)
Lost(e, q) == q = Failed("unrestored") /\ reply[e].kind = "none"
Answers(e, s, q) ==
    /\ Unmoved(s, q) /\ (Asking(q) <=> q.out \in Kinds) /\ q.out \in {"none", "audio"}
    /\ q.remote = IF reply[e].kind = "none" THEN s.remote ELSE reply[e].kind
    /\ reply[e].kind = "none" => s.attempt.kind = "t38"
    /\ Asking(q) <=> reply[e].code = 200 /\ reply[e].kind = "none"
    /\ Asking(q) => /\ q.attempt.kind = "audio"
                    /\ q.attempt.cseq = q.cseq /\ q.cseq = s.cseq + 1
    /\ q.out = "none" => q.cseq = s.cseq
    /\ q.attempt.at = "Backoff" => /\ s.glares < 2 /\ q.glares = s.glares + 1
                                    /\ s.attempt.kind = "t38"
    /\ q.attempt.at # "Backoff" => q.glares = s.glares
    /\ q.attempt.at = "Rejected" =>
          \/ s.attempt.kind = "audio"
          \/ reply[e].code \in {487, 488}
          \/ reply[e].code = 491 /\ s.glares = 2

(* The answer to an offer has come back, and the pump that sees it is q.    *)
LEMMA AnswerKeeps ==
    ASSUME NEW v, NEW w, Sound(v), NEW e \in Ends, NEW q \in PumpType, reply[e] # Nothing,
           w = [v EXCEPT ![e] = q], events' \in [Ends -> Seq(EventType)],
           reply' = [reply EXCEPT ![e] = Nothing],
           linger' \in {linger, [linger EXCEPT ![e] = reply[e]]},
           UNCHANGED <<mode, pump, dialog, offer, surprises>>,
           current' = [current EXCEPT ![e] = IF reply[e].kind
             = "none" THEN current[e] ELSE reply[e].kind],
           Answers(e, v[e], q) \/ Lost(e, q)
    PROVE  Sound(w)'
<1> DEFINE p == Other(e)
           s == v[e]
           r == reply[e]
<1>1. p \in Ends /\ p # e /\ Other(p) = e /\ Other(e) = p /\ \A x \in Ends : x = e \/ x = p
  BY TwoEnds
<1>2. /\ s \in PumpType /\ r \in MessageType
      /\ Staged(e, s) /\ Asked(e, s) /\ Runs(e, s) /\ Clean(e, s) /\ Resorts(e, s) /\ Wired(e)
           /\ Wired(p)
  BY <1>1 DEF Sound, Shaped
<1> HIDE DEF p
<1>3. /\ Lives(s) /\ Asking(s) /\ s.out = "none" /\ s.attempt.cseq = s.cseq /\ offer[e] = Nothing
      /\ s.connected /\ pump[e].fax = "none" /\ s.fax = "none" /\ mode[e] = "auto"
      /\ r.cseq = s.cseq /\ r.kind \in {"none", s.attempt.kind} /\ s.cseq = pump[e].cseq
  BY <1>2 DEF Asked, Sends, Wired, Pending, Staged, Runs, Asking
<1>4. /\ r.code \in {200, 487, 488, 491} /\ (r.kind # "none" => r.code = 200 /\ current[p] = r.kind)
      /\ r.kind # "none" => reply[p].kind = "none"
  BY <1>1, <1>2 DEF Wired
<1>5. Lost(e, q) \/ Unmoved(s, q)
  BY DEF Answers
<1>6. ASSUME Lost(e, q) PROVE ~Lives(q) /\ q.over = "unrestored" /\ q = Failed("unrestored")
  BY <1>6 DEF Lost, Failed, Fresh, Lives
<1>7. Lives(q) => Unmoved(s, q)
  BY <1>5, <1>6
<1>8. w \in [Ends -> PumpType] /\ w[e] = q /\ w[p] = v[p]
  <2>1. v \in [Ends -> PumpType]
    BY DEF Sound
  <2> QED BY <1>1, <2>1, Updated
<1>9. /\ reply'[e] = Nothing /\ reply'[p] = reply[p] /\ reply' \in [Ends -> MessageType]
      /\ linger' \in [Ends -> MessageType] /\ linger'[p] = linger[p]
      /\ linger'[e] = linger[e] \/ linger'[e] = r
      /\ current'[p] = current[p] /\ current' \in [Ends -> Kinds]
      /\ current'[e] = IF r.kind = "none" THEN current[e] ELSE r.kind
  <2>1. /\ reply \in [Ends -> MessageType] /\ linger \in [Ends -> MessageType]
             /\ current \in [Ends -> Kinds]
        /\ Nothing \in MessageType
    BY MessageTypes DEF Sound, Shaped
  <2>2. r.kind # "none" => r.kind \in Kinds
    BY <1>2 DEF MessageType
  <2>3. /\ reply'[e] = Nothing /\ reply'[p] = reply[p] /\ reply' \in [Ends -> MessageType]
    BY <1>1, <2>1
  <2>4. /\ linger' \in [Ends -> MessageType] /\ linger'[p] = linger[p]
        /\ linger'[e] = linger[e] \/ linger'[e] = r
    <3>1. CASE linger' = linger
      BY <2>1, <3>1
    <3>2. CASE linger' = [linger EXCEPT ![e] = reply[e]]
      BY <1>1, <1>2, <2>1, <3>2
    <3> QED BY <3>1, <3>2
  <2>5. /\ current'[p] = current[p] /\ current' \in [Ends -> Kinds]
        /\ current'[e] = IF r.kind = "none" THEN current[e] ELSE r.kind
    BY <1>1, <2>1, <2>2
  <2> QED BY <2>3, <2>4, <2>5
<1>10. UNCHANGED <<mode, pump, dialog, offer, surprises>> /\ Counted /\ (Lives(q) => ~Lost(e, q))
  BY <1>6 DEF Counted
<1>11. Shaped'
  BY <1>9, <1>10 DEF Sound, Shaped
<1>12. Lives(q) => Answers(e, s, q) /\ Unmoved(s, q)
  BY <1>10 DEF Answers
<1>r. r = reply[e]
  OBVIOUS
<1> HIDE DEF s, r
<1>13. Staged(e, w[e])'
  <2>1. Lives(q) => /\ q.connected /\ q.fax = "none" /\ q.out # "invite"
                    /\ q.remote = IF r.kind = "none" THEN s.remote ELSE r.kind
    BY <1>r, <1>3, <1>12 DEF Answers, Unmoved
  <2>2. /\ dialog.at \notin {"invited", "refused", "answered"}
        /\ ~(dialog.at = "acknowledged" /\ e = "callee")
        /\ s.remote # "none" => s.remote = current[e]
    BY <1>2, <1>3 DEF Staged
  <2>3. Lives(q) => (q.remote # "none" => q.remote = current'[e])
    BY <1>9, <2>1, <2>2
  <2>4. dialog' = dialog
    BY <1>10
  <2> QED BY <1>8, <2>1, <2>2, <2>3, <2>4 DEF Staged
<1>14. Staged(p, w[p])'
  BY <1>1, <1>8, <1>9, <1>10 DEF Sound, Staged
<1>15. Wired(e)' /\ Wired(p)'
  BY <1>1, <1>2, <1>3, <1>4, <1>9, <1>10, NoAnswer DEF Wired
<1>16. Asked(p, w[p])' /\ Runs(p, w[p])' /\ Clean(p, w[p])' /\ Resorts(p, w[p])'
  BY <1>1, <1>8, <1>9, <1>10, FrameKeeps
<1>17. Lives(q) => q.cseq <= Weight(q) + surprises
  <2>1. /\ s.cseq <= Weight(s) + surprises /\ s.cseq \in Nat /\ surprises \in Nat
             /\ s.glares \in 0..2
        /\ Weight(s) \in 0..4
    BY <1>2, <1>3, Counts DEF s, Asked, Sends
  <2>2. s.attempt.kind = "t38" => Weight(s) = s.glares + 1
    BY <1>3 DEF Weight, Asking
  <2>3. ASSUME Lives(q), q.attempt.at = "Backoff" PROVE q.cseq <= Weight(q) + surprises
    <3>1. Weight(q) = s.glares + 1 /\ s.attempt.kind = "t38" /\ q.out = "none"
      BY <1>r, <1>12, <2>3 DEF Weight, Answers, Kinds, Asking
    <3>2. q.cseq = s.cseq
      BY <1>r, <1>12, <2>3, <3>1 DEF Answers
    <3> QED BY <2>1, <2>2, <3>1, <3>2
  <2>4. ASSUME Lives(q), q.attempt.at # "Backoff", ~Asking(q) PROVE q.cseq <= Weight(q) + surprises
    <3>1. Weight(q) = 4 /\ q.out = "none"
      BY <1>r, <1>12, <2>4 DEF Weight, Answers, Unmoved, Kinds
    <3>2. q.cseq = s.cseq
      BY <1>r, <1>12, <2>4, <3>1 DEF Answers
    <3> QED BY <2>1, <3>1, <3>2
  <2>5. ASSUME Lives(q), Asking(q) PROVE q.cseq <= Weight(q) + surprises
    <3>1. Weight(q) = 4 /\ q.cseq = s.cseq + 1 /\ s.attempt.kind = "t38"
      BY <1>r, <1>12, <2>5 DEF Weight, Answers, Asking
    <3> QED BY <2>1, <2>2, <3>1
  <2> QED BY <2>3, <2>4, <2>5
<1>18. Lives(q) => s.cseq <= q.cseq /\ (Asking(q) => s.cseq < q.cseq)
                   /\ (linger[e] # Nothing => linger[e].cseq <= q.cseq /\ linger[e].cseq < s.cseq)
  <2>1. s.cseq \in Nat /\ q.cseq \in Nat /\ linger[e].cseq \in Nat
    BY <1>2 DEF PumpType, Sound, Shaped, MessageType
  <2>2. linger[e] # Nothing => linger[e].cseq < s.cseq
    BY <1>2, <1>3 DEF Asked, Sends
  <2>3. ASSUME Lives(q) PROVE (q.cseq = s.cseq /\ ~Asking(q)) \/ q.cseq = s.cseq + 1
    BY <1>r, <1>12, <2>3 DEF Answers, Kinds
  <2> QED BY <2>1, <2>2, <2>3
<1>19. Asked(e, w[e])'
  <2>1. ~Pending(e)' /\ offer'[e] = Nothing /\ reply'[e] = Nothing
    BY <1>3, <1>9, <1>10 DEF Pending
  <2>2. ASSUME Lives(q) PROVE q.out # "t38" /\ Sends(e, q)'
    <3>1. linger'[e] # Nothing => linger'[e].cseq <= q.cseq
            /\ (Asking(q) => linger'[e].cseq < q.cseq)
      <4>1. q.cseq \in Nat /\ s.cseq \in Nat /\ linger[e].cseq \in Nat
        BY <1>2 DEF PumpType, Sound, Shaped, MessageType
      <4>2. CASE linger'[e] = linger[e]
        BY <1>18, <2>2, <4>1, <4>2
      <4>3. CASE linger'[e] = r
        BY <1>3, <1>18, <2>2, <4>3
      <4> QED BY <1>9, <4>2, <4>3
    <3>2. Answers(e, s, q)
      BY <1>12, <2>2
    <3>3. "none" \notin Kinds /\ q.out # "t38"
      BY <1>r, <3>2 DEF Answers, Kinds
    <3> QED BY <1>r, <1>3, <1>10, <1>17, <2>1, <2>2, <3>1, <3>2, <3>3 DEF Sends, Answers
  <2> QED BY <1>8, <2>1, <2>2 DEF Asked
<1>20. Runs(e, w[e])' /\ Clean(e, w[e])'
  <2>1. Runs(e, w[e])'
    <3>1. Alive(e)
      BY <1>2, <1>3 DEF Runs
    <3>2. Lives(q) => q.fax = "none"
      BY <1>3, <1>12 DEF Unmoved
    <3>3. Alive(e)' /\ pump'[e].fax = "none"
      BY <1>3, <1>10, <3>1 DEF Alive
    <3> QED BY <1>8, <3>2, <3>3 DEF Runs
  <2>2. ~Lives(q) => q = Failed(q.over) /\ q.over = "unrestored"
    BY <1>5, <1>6 DEF Unmoved
  <2>3. Clean(e, w[e])'
    BY <1>2, <1>8, <1>10, <2>2 DEF Clean, Lives
  <2> QED BY <2>1, <2>3
<1>21. Resorts(e, w[e])'
  <2>1. surprises = 0 => /\ ~pump[e].attempt.cancelling /\ s.attempt.kind = "t38"
                         /\ r.code # 487 /\ (r.code = 200 => r.kind # "none")
    BY <1>2, <1>3 DEF Resorts, r
  <2>2. pump[e].glares = 2 => s.glares = 2
    BY <1>2, <1>3 DEF Resorts
  <2>3. ASSUME Lives(q), s.glares = 2 PROVE q.glares = 2
    BY <1>r, <1>12, <2>3 DEF Answers
  <2>4. ASSUME BothAuto, surprises = 0, Lives(q), q.attempt.at = "Rejected" PROVE Collided(q)
    <3>1. r.code = 488 \/ (r.code = 491 /\ s.glares = 2)
      BY <1>r, <1>12, <2>1, <2>4 DEF Answers
    <3>2. Collided(s)
      BY <1>2, <1>3, <2>4, <3>1 DEF Resorts, Collided, r
    <3> QED BY <2>3, <2>4, <3>2 DEF Collided
  <2>5. (BothAuto' <=> BothAuto) /\ (Collided(q)' <=> Collided(q))
    BY <1>10 DEF BothAuto, Collided, Alive
  <2>6. reply'[e].code \notin {200, 487, 488}
    BY <1>9, NoAnswer
  <2>7. Lives(q) => ~q.attempt.cancelling /\ (Asking(q) => r.code = 200 /\ r.kind = "none")
    BY <1>r, <1>12 DEF Answers, Unmoved
  <2> QED BY <1>8, <1>10, <2>1, <2>2, <2>3, <2>4, <2>5, <2>6, <2>7 DEF Resorts
<1>22. Coherent(w)'
  <2>1. Coherent(v) /\ s.connected /\ Lives(s)
    BY <1>3 DEF Sound
  <2>2. dialog.at \notin {"invited", "answered"}
    BY <1>2, <2>1 DEF Staged
  <2>3. ASSUME Lives(q), Lives(v[p]), dialog.at \in {"acknowledged", "confirmed"},
               current'[e] # current'[p]
        PROVE  Behind(e, w[e])' \/ Behind(p, w[p])'
    <3>1. r.kind = "none" /\ current[e] # current[p]
      BY <1>4, <1>9, <2>3
    <3>2. Behind(e, s) \/ Behind(p, v[p])
      <4>1. \A x \in Ends : Lives(v[x])
        BY <1>1, <2>1, <2>3 DEF s
      <4>2. current["caller"] # current["callee"]
        BY <1>1, <3>1, TwoEnds
      <4>3. PICK x \in Ends : Behind(x, v[x])
        BY <2>1, <2>3, <4>1, <4>2 DEF Coherent
      <4> QED BY <1>1, <4>3 DEF s
    <3>3. Behind(p, v[p]) => Behind(p, w[p])'
      BY <1>8, <1>9 DEF Behind
    <3>4. ASSUME Behind(e, s) PROVE Behind(e, w[e])'
      <4>1. r.code = 200 \/ s.attempt.kind = "audio"
        BY <3>4 DEF Behind, r
      <4>2. Answers(e, s, q)
        BY <1>12, <2>3
      <4>3. Asking(q) /\ q.attempt.kind = "audio"
        <5>1. r.code = 200
          BY <1>r, <3>1, <4>1, <4>2 DEF Answers
        <5> QED BY <1>r, <3>1, <4>2, <5>1 DEF Answers
      <4> QED BY <1>8, <4>3 DEF Behind
    <3> QED BY <3>2, <3>3, <3>4
  <2> QED BY <1>1, <1>8, <1>10, <2>2, <2>3, TwoEnds DEF Coherent
<1> QED
  BY <1>1, <1>8, <1>11, <1>13, <1>14, <1>15, <1>16, <1>19, <1>20, <1>21, <1>22 DEF Sound

(* The final response to an offer comes back. *)
LEMMA FinalKeeps ==
    ASSUME NEW v, NEW w, Sound(v), Foreseen(v), Foreseen(w)', NEW e \in Ends, Final(e)
    PROVE  Sound(w)'
<1> DEFINE s == v[e]
           r == reply[e]
           m == mode[e]
<1>1. /\ r # Nothing /\ reply' = [reply EXCEPT ![e] = Nothing]
      /\ UNCHANGED <<mode, pump, dialog, offer, surprises>>
  BY DEF Final
<1>2. /\ s \in PumpType /\ r \in MessageType /\ Asked(e, s) /\ Wired(e) /\ Runs(e, s)
      /\ current \in [Ends -> Kinds]
  BY DEF Sound, Shaped
<1>3. /\ Lives(s) /\ Asking(s) /\ s.out = "none" /\ s.attempt.cseq = s.cseq /\ r.cseq = s.cseq
      /\ r.kind \in {"none", s.attempt.kind} /\ r.cseq \in Nat
      /\ (s.attempt.kind = "t38" => s.remote = "audio") /\ s.fax = "none"
  BY <1>1, <1>2 DEF Asked, Sends, Pending, Runs, MessageType
<1>4. r.code \in {200, 487, 488, 491} /\ (r.kind # "none" => r.code = 200)
  BY <1>1, <1>2 DEF Wired
<1>5. s.attempt.kind \in Kinds /\ s.glares \in 0..2
  BY <1>2 DEF PumpType, AttemptType
<1> HIDE DEF s
<1>6. [current EXCEPT ![e] = current[e]] = current
  BY <1>2
<1>7. CASE r.code # 200
  <2> DEFINE q == Consume(s, InviteFinal(s.attempt.cseq, r.code), m)
             x == InviteFinal(r.cseq, r.code)
  <2>1. Push(e, <<x>>) /\ linger' = [linger EXCEPT ![e] = r] /\ current' = current
          /\ x \in EventType
    BY <1>2, <1>3, <1>4, <1>7, EventTypes DEF Final, MessageType
  <2>2. events' \in [Ends -> Seq(EventType)] /\ w = [v EXCEPT ![e] = q]
    <3>1. Consume(s, x, m) = q
      BY <1>3
    <3>2. UNCHANGED <<pump, mode>>
      BY <1>1
    <3> HIDE DEF x, q
    <3> QED BY <2>1, <3>1, <3>2, OneEvent DEF s
  <2>3. r.kind = "none" /\ r.code \in {487, 488, 491}
    BY <1>4, <1>7
  <2>4. \/ q = Failed("unrestored") /\ s.attempt.kind = "audio"
        \/ /\ Unmoved(s, q) /\ ~Asking(q) /\ s.attempt.kind = "t38" /\ r.code = 491 /\ s.glares < 2
           /\ q.remote = s.remote /\ q.cseq = s.cseq /\ q.out = s.out
           /\ q.attempt.at = "Backoff" /\ q.glares = s.glares + 1
        \/ /\ Unmoved(s, q) /\ ~Asking(q) /\ s.attempt.kind = "t38"
                /\ (r.code = 491 => s.glares = 2)
           /\ q.remote = s.remote /\ q.cseq = s.cseq /\ q.out = s.out
           /\ q.attempt.at = "Rejected" /\ q.glares = s.glares
    BY <1>2, <1>3, <2>3, RefusedMoves
  <2>5. q \in PumpType
    BY <2>4, PumpTypes DEF Unmoved, Whys
  <2> HIDE DEF q, m
  <2>6. Answers(e, s, q) \/ Lost(e, q)
    BY <1>3, <1>7, <2>3, <2>4 DEF Answers, Lost, Kinds
  <2>7. current' = [current EXCEPT ![e] = IF r.kind = "none" THEN current[e] ELSE r.kind]
    BY <1>6, <2>1, <2>3
  <2> QED BY <1>1, <2>1, <2>2, <2>5, <2>6, <2>7, AnswerKeeps DEF s
<1>8. CASE r.code = 200 /\ r.kind # "none"
  <2> DEFINE kind == s.attempt.kind
             q == Consume(Consume(s, Media(kind), m), InviteFinal(s.attempt.cseq, 200), m)
             x == InviteFinal(r.cseq, 200)
  <2>1. r.kind = kind /\ kind \in Kinds
    BY <1>3, <1>5, <1>8
  <2>2. Push(e, <<Media(kind), x>>) /\ linger' = linger
        /\ current' = [current EXCEPT ![e] = IF r.kind = "none" THEN current[e] ELSE r.kind]
    BY <1>8, <2>1 DEF Final
  <2>3. Media(kind) \in EventType /\ x \in EventType
    BY <1>3, <2>1, EventTypes
  <2>4. events' \in [Ends -> Seq(EventType)] /\ w = [v EXCEPT ![e] = q]
    <3>1. Consume(Consume(s, Media(kind), m), x, m) = q
      BY <1>3
    <3>2. UNCHANGED <<pump, mode>>
      BY <1>1
    <3> HIDE DEF x, q, kind
    <3> QED BY <2>2, <2>3, <3>1, <3>2, TwoEvents DEF s
  <2>5. /\ Unmoved(s, q) /\ ~Asking(q) /\ q.remote = kind /\ q.cseq = s.cseq /\ q.out = s.out
        /\ q.attempt.at = IF kind = "t38" THEN "Accepted" ELSE "Rejected"
        /\ q.glares = s.glares
    BY <1>2, <1>3, AgreedMoves
  <2>6. q \in PumpType
    BY <2>5 DEF Unmoved
  <2> HIDE DEF q, m
  <2>7. Answers(e, s, q)
    BY <1>3, <1>8, <2>1, <2>5 DEF Answers, Kinds
  <2> QED BY <1>1, <2>2, <2>4, <2>6, <2>7, AnswerKeeps DEF s
<1>9. CASE r.code = 200 /\ r.kind = "none"
  <2> DEFINE q == Consume(Consume(s, MediaError, m), InviteFinal(s.attempt.cseq, 200), m)
             x == InviteFinal(r.cseq, 200)
  <2>1. Push(e, <<MediaError, x>>) /\ linger' = linger
        /\ current' = [current EXCEPT ![e] = IF r.kind = "none" THEN current[e] ELSE r.kind]
    BY <1>9 DEF Final
  <2>2. MediaError \in EventType /\ x \in EventType
    BY <1>3, EventTypes
  <2>3. events' \in [Ends -> Seq(EventType)] /\ w = [v EXCEPT ![e] = q]
    <3>1. Consume(Consume(s, MediaError, m), x, m) = q
      BY <1>3
    <3>2. UNCHANGED <<pump, mode>>
      BY <1>1
    <3> HIDE DEF x, q
    <3> QED BY <2>1, <2>2, <3>1, <3>2, TwoEvents DEF s
  <2>4. \/ q = Failed("unrestored") /\ s.attempt.kind = "audio"
        \/ /\ Unmoved(s, q) /\ Asking(q) /\ s.attempt.kind = "t38" /\ q.attempt.kind = "audio"
           /\ q.remote = s.remote /\ q.cseq = s.cseq + 1 /\ q.out = "audio"
           /\ q.attempt.cseq = s.cseq + 1 /\ q.glares = s.glares
    BY <1>2, <1>3, BrokenMoves
  <2>5. q \in PumpType
    BY <2>4, PumpTypes DEF Unmoved, Whys
  <2> HIDE DEF q, m
  <2>6. Answers(e, s, q) \/ Lost(e, q)
    BY <1>3, <1>9, <2>4 DEF Answers, Lost, Kinds, Asking
  <2> QED BY <1>1, <2>1, <2>3, <2>5, <2>6, AnswerKeeps DEF s
<1> QED BY <1>7, <1>8, <1>9

(* Nothing has happened. *)
LEMMA SameKeeps ==
    ASSUME NEW v, Sound(v), UNCHANGED callVars
    PROVE  Sound(v)'
<1>1. /\ UNCHANGED <<mode, current, events, pump>>
      /\ UNCHANGED <<dialog, offer, reply, linger, surprises>>
  BY DEF callVars, wire
<1>2. Shaped' /\ v \in [Ends -> PumpType]
  BY <1>1 DEF Sound, Shaped
<1>3. Counted
  BY <1>1 DEF Counted
<1>4. ASSUME NEW e \in Ends
      PROVE  Staged(e, v[e])' /\ Wired(e)' /\ Asked(e, v[e])' /\ Runs(e, v[e])' /\ Clean(e, v[e])'
  <2>1. Staged(e, v[e])'
    BY <1>1 DEF Sound, Staged
  <2>2. Wired(e)'
    BY <1>1 DEF Sound, Wired
  <2>3. Asked(e, v[e])' /\ Runs(e, v[e])' /\ Clean(e, v[e])'
    BY <1>1, <1>3, FrameKeeps
  <2> QED BY <2>1, <2>2, <2>3
<1>5. ASSUME NEW e \in Ends PROVE Resorts(e, v[e])'
  <2>1. (BothAuto' <=> BothAuto) /\ (Collided(v[e])' <=> Collided(v[e]))
    BY <1>1 DEF BothAuto, Collided, Alive
  <2> QED BY <1>1, <2>1 DEF Sound, Resorts
<1>6. Coherent(v)'
  <2>1. \A e \in Ends : Behind(e, v[e])' <=> Behind(e, v[e])
    BY <1>1 DEF Behind
  <2> QED BY <1>1, <2>1 DEF Sound, Coherent
<1> QED BY <1>2, <1>4, <1>5, <1>6 DEF Sound

(* The invariant holds at first, *)
LEMMA InitAgreeing == CallInit => Agreeing
<1> SUFFICES ASSUME CallInit, NEW v, Foreseen(v) PROVE Sound(v)
  BY DEF Agreeing
<1>1. \A e \in Ends : v[e] = Fresh /\ pump[e] = Fresh
  BY ConsumedNone DEF CallInit, Foreseen, Ahead
<1>2. \A e \in Ends : offer[e] = Nothing /\ reply[e] = Nothing /\ linger[e] = Nothing
  BY DEF CallInit
<1>3. /\ Lives(Fresh) /\ ~Asking(Fresh) /\ Weight(Fresh) = 0 /\ ~Fresh.connected /\ Fresh.glares = 0
      /\ Fresh.out = "none" /\ Fresh.cseq = 0 /\ Fresh.remote = "none" /\ Fresh.fax = "none"
      /\ Fresh.over = "no" /\ Fresh.attempt.at = "NotStarted" /\ Fresh.attempt.cancelling = FALSE
      /\ "none" \notin Kinds
  BY DEF Fresh, Lives, Asking, Weight, NotStarted, Attempt, Kinds
<1>4. dialog.at = "invited" /\ dialog.kind = InitialKind(mode["caller"]) /\ surprises = 0
  BY DEF CallInit
<1>5. Shaped
  <2>1. \A m : InitialKind(m) \in Kinds
    BY DEF InitialKind, Kinds
  <2>2. /\ mode \in [Ends -> Modes] /\ current \in [Ends -> Kinds] /\ surprises \in Nat
        /\ pump \in [Ends -> PumpType] /\ events \in [Ends -> Seq(EventType)]
    BY <2>1, PumpTypes DEF CallInit
  <2>3. offer \in [Ends -> MessageType] /\ reply \in [Ends -> MessageType]
          /\ linger \in [Ends -> MessageType]
    BY MessageTypes DEF CallInit
  <2>4. dialog \in [at : {"invited", "refused", "answered", "acknowledged", "confirmed"}, kind : Kinds]
    BY <2>1 DEF CallInit
  <2> QED BY <2>2, <2>3, <2>4 DEF Shaped
<1>6. v \in [Ends -> PumpType]
  BY <1>1, PumpTypes DEF Foreseen
<1>7. ASSUME NEW e \in Ends
      PROVE  Staged(e, v[e]) /\ Wired(e) /\ Asked(e, v[e]) /\ Runs(e, v[e]) /\ Clean(e, v[e])
             /\ Resorts(e, v[e])
  <2>1. v[e] = Fresh /\ pump[e] = Fresh
    BY <1>1
  <2>2. Staged(e, v[e])
    BY <1>3, <1>4, <2>1 DEF Staged
  <2>3. Wired(e)
    BY <1>2, TwoEnds, NoAnswer DEF Wired
  <2>4. Asked(e, v[e])
    <3>1. Sends(e, Fresh)
      BY <1>2, <1>3, <1>4, <2>1 DEF Sends, Pending
    <3> QED BY <1>3, <2>1, <3>1 DEF Asked
  <2>5. Runs(e, v[e])
    BY <1>3, <2>1 DEF Runs, Alive
  <2>6. Clean(e, v[e])
    <3>1. 0 <= 4 + surprises
      BY <1>4
    <3> QED BY <1>3, <2>1, <3>1 DEF Clean
  <2>7. Resorts(e, v[e])
    BY <1>2, <1>3, <1>4, <2>1, NoAnswer DEF Resorts
  <2> QED BY <2>2, <2>3, <2>4, <2>5, <2>6, <2>7
<1>8. Coherent(v)
  BY <1>4, TwoEnds DEF Coherent, CallInit
<1> QED BY <1>5, <1>6, <1>7, <1>8 DEF Sound

(* and every step keeps it. *)
LEMMA NextAgreeing == Agreeing /\ [CallNext]_callVars => Agreeing'
<1> SUFFICES ASSUME Agreeing, [CallNext]_callVars, NEW w, Foreseen(w)' PROVE Sound(w)'
  BY DEF Agreeing
<1>1. PICK v : Foreseen(v)
  BY DEF Foreseen
<1>2. Sound(v)
  BY <1>1 DEF Agreeing
<1>3. ASSUME UNCHANGED <<pump, events, mode>> PROVE w = v
  <2>1. \A e \in Ends : Ahead(e)' = Ahead(e)
    BY <1>3, AheadSame
  <2> QED BY <1>1, <2>1 DEF Foreseen
<1>4. CASE UNCHANGED callVars
  <2>1. w = v
    BY <1>3, <1>4 DEF callVars
  <2>2. Sound(v)'
    BY <1>2, <1>4, SameKeeps
  <2> QED BY <2>1, <2>2
<1>5. CASE AnswerCall
  BY <1>1, <1>2, <1>5, AnswerCallKeeps
<1>6. CASE RefuseCall
  BY <1>1, <1>2, <1>6, RefuseCallKeeps
<1>7. CASE Answered
  BY <1>1, <1>2, <1>7, AnsweredKeeps
<1>8. CASE Acknowledged
  BY <1>1, <1>2, <1>8, AcknowledgedKeeps
<1>9. ASSUME NEW e \in Ends, Collide(e) \/ RefuseOffer(e) \/ Intercept(e) PROVE Sound(w)'
  <2>1. w = v
    BY <1>3, <1>9 DEF Collide, RefuseOffer, Intercept
  <2>2. Sound(v)'
    BY <1>2, <1>9, CollideKeeps, RefuseOfferKeeps, InterceptKeeps
  <2> QED BY <2>1, <2>2
<1>10. ASSUME NEW e \in Ends, AcceptOffer(e) PROVE Sound(w)'
  BY <1>1, <1>2, <1>10, AcceptOfferKeeps
<1>11. ASSUME NEW e \in Ends, Final(e) PROVE Sound(w)'
  BY <1>1, <1>2, <1>11, FinalKeeps
<1>12. ASSUME NEW e \in Ends, Challenge(e) PROVE Sound(w)'
  BY <1>1, <1>2, <1>12, ChallengeKeeps
<1>13. ASSUME NEW e \in Ends, Terminated(e) PROVE Sound(w)'
  BY <1>1, <1>2, <1>13, TerminatedKeeps
<1>14. ASSUME NEW e \in Ends, Step(e) PROVE Sound(w)'
  BY <1>1, <1>2, <1>14, StepKeeps
<1>15. ASSUME NEW e \in Ends, OfferT38(e) PROVE Sound(w)'
  BY <1>1, <1>2, <1>15, OfferT38Keeps
<1>16. ASSUME NEW e \in Ends, CancelReinvite(e) PROVE Sound(w)'
  BY <1>1, <1>2, <1>16, CancelReinviteKeeps
<1>17. ASSUME NEW e \in Ends, Unsettled(e) \/ HangUp(e) \/ PeerHangup(e) PROVE Sound(w)'
  BY <1>1, <1>2, <1>17, EndKeeps
<1> QED
  BY <1>4, <1>5, <1>6, <1>7, <1>8, <1>9, <1>10, <1>11, <1>12, <1>13, <1>14, <1>15, <1>16, <1>17
  DEF CallNext, Network

(* Every interference was counted before it happened. *)
Limited == surprises \in 0..MaxSurprises

(* The bound on surprises is kept. *)
LEMMA LimitedStep ==
    ASSUME Limited, [CallNext]_callVars
    PROVE  Limited'
<1>1. CASE UNCHANGED surprises
  BY <1>1 DEF Limited
<1>2. CASE Surprise
  BY <1>2, CallPumpAssumption DEF Limited, Surprise
<1> QED BY <1>1, <1>2 DEF CallNext, callVars, wire, AnswerCall, RefuseCall, Answered, Acknowledged,
     Network, Collide, AcceptOffer, RefuseOffer, Final, Intercept, Challenge, Terminated, Step,
     OfferT38, CancelReinvite, Unsettled, HangUp, PeerHangup

(* The invariant always holds. *)
LEMMA AlwaysAgreeing == CallSpec => [](Agreeing /\ Limited)
<1>1. CallInit => Limited
  BY CallPumpAssumption DEF CallInit, Limited
<1>2. Limited /\ [CallNext]_callVars => Limited'
  BY LimitedStep
<1> QED BY <1>1, <1>2, InitAgreeing, NextAgreeing, PTL DEF CallSpec

(* What the invariant says of a state. *)
LEMMA Typing ==
    ASSUME NEW v, Sound(v), Limited
    PROVE  CallTypeOK
<1>1. ASSUME NEW e \in Ends
      PROVE  /\ pump[e].remote \in Kinds \cup {"none"} /\ pump[e].fax \in Kinds \cup {"none"}
             /\ pump[e].glares \in 0 .. 2 /\ pump[e].cseq \in Nat
  BY DEF Sound, Shaped, PumpType
<1>2. ASSUME NEW e \in Ends PROVE pump[e].cseq <= 4 + surprises /\ pump[e].out = "none"
  BY DEF Sound, Clean
<1>3. ASSUME NEW e \in Ends PROVE offer[e].cseq <= pump[e].cseq /\ reply[e].cseq <= pump[e].cseq
  <2>1. pump[e].cseq \in Nat /\ Nothing.cseq = 0
    BY <1>1, MessageTypes
  <2>2. CASE Pending(e)
    <3>1. Lives(v[e]) /\ Sends(e, v[e])
      BY <2>2 DEF Sound, Asked, Pending
    <3>2. v[e].cseq = pump[e].cseq
      BY <2>2, <3>1 DEF Sends
    <3>3. /\ offer[e] # Nothing => offer[e].cseq = pump[e].cseq
          /\ reply[e] # Nothing => reply[e].cseq = pump[e].cseq
      BY <3>1, <3>2 DEF Sends
    <3> QED BY <2>1, <3>3
  <2>3. CASE ~Pending(e)
    BY <2>1, <2>3 DEF Pending
  <2> QED BY <2>2, <2>3
<1> QED BY <1>1, <1>2, <1>3 DEF CallTypeOK, Sound, Shaped, Limited

(* Two faxes that run are over the same media. *)
LEMMA Agreement ==
    ASSUME NEW v, Sound(v), Fax("caller") # "none", Fax("callee") # "none"
    PROVE  Fax("caller") = Fax("callee")
<1>1. ASSUME NEW e \in Ends
      PROVE  /\ Lives(v[e]) /\ ~Asking(v[e]) /\ current[e] = pump[e].fax
             /\ dialog.at \in {"acknowledged", "confirmed"}
  <2>1. pump[e].fax # "none"
    BY <1>1, TwoEnds DEF Fax
  <2>2. Lives(v[e]) /\ ~Asking(v[e]) /\ v[e].remote = pump[e].fax /\ v[e].fax # "none"
    BY <2>1 DEF Sound, Runs
  <2>3. v[e].connected /\ v[e].remote = current[e]
    BY <2>1, <2>2 DEF Sound, Staged
  <2>4. dialog.at \notin {"invited", "refused", "answered"}
    BY <2>2, <2>3 DEF Sound, Staged
  <2>5. dialog.at \in {"invited", "refused", "answered", "acknowledged", "confirmed"}
    BY DEF Sound, Shaped
  <2> QED BY <2>2, <2>3, <2>4, <2>5
<1>2. "caller" \in Ends /\ "callee" \in Ends
  BY TwoEnds
<1>3. \A e \in Ends : ~Behind(e, v[e])
  BY <1>1 DEF Behind
<1>4. current["caller"] = current["callee"]
  BY <1>1, <1>2, <1>3 DEF Sound, Coherent
<1> QED BY <1>1, <1>2, <1>4 DEF Fax

(* Without interference, audio comes from three collisions. *)
LEMMA LastResort ==
    ASSUME NEW v, Sound(v)
    PROVE  AudioIsLastResort
<1> SUFFICES ASSUME NEW e \in Ends, BothAuto, surprises = 0, Fax(e) = "audio"
             PROVE  \E p \in Ends : pump[p].glares = 2
  BY DEF AudioIsLastResort, BothAuto
<1>1. /\ Lives(v[e]) /\ v[e].fax = "audio" /\ v[e].glares = pump[e].glares
  BY DEF Sound, Runs, Fax
<1>2. v[e].attempt.at = "Rejected"
  BY <1>1 DEF Sound, Runs, BothAuto
<1>3. Collided(v[e])
  BY <1>1, <1>2 DEF Sound, Resorts
<1> QED BY <1>1, <1>3 DEF Collided

(* Two ends of faxe agree on the media of their fax, whatever happens to   *)
(* their offers.                                                           *)
THEOREM AgreesOnMedia == CallSpec => []SameMedia
<1>1. Agreeing /\ Limited => SameMedia
  <2> SUFFICES ASSUME Agreeing, Limited PROVE SameMedia
    OBVIOUS
  <2>1. PICK v : Foreseen(v)
    BY DEF Foreseen
  <2>2. Sound(v)
    BY <2>1 DEF Agreeing
  <2>3. NeverChanged
    BY <2>2 DEF Sound, Clean, NeverChanged
  <2> QED BY <2>2, <2>3, Typing, Agreement, LastResort DEF SameMedia
<1> QED BY <1>1, AlwaysAgreeing, PTL

(* A late offer is found when it is cancelled, challenged or not. *)
THEOREM CancelsWhatItOffered == CallSpec => []CancelFindsOffer
<1>1. Agreeing => CancelFindsOffer
  <2> SUFFICES ASSUME Agreeing PROVE CancelFindsOffer
    OBVIOUS
  <2>1. PICK v : Foreseen(v)
    BY DEF Foreseen
  <2>2. Sound(v)
    BY <2>1 DEF Agreeing
  <2> QED BY <2>2 DEF Sound, Clean, CancelFindsOffer
<1> QED BY <1>1, AlwaysAgreeing, PTL

-----------------------------------------------------------------------------
(* The audio of a call *)

(* Congruence: a number is a multiple of the width, and what follows.      *)
LEMMA ModIs ==
    ASSUME NEW c \in Nat \ {0}, NEW x \in Int
    PROVE  /\ x % c \in 0..(c - 1)
           /\ \E q \in Int : x = c * q + (x % c)
<1>1. x = c * (x \div c) + (x % c) OBVIOUS
<1>2. x \div c \in Int OBVIOUS
<1>3. x % c \in 0..(c - 1) OBVIOUS
<1> QED BY <1>1, <1>2, <1>3

LEMMA MultipleIs ==
    ASSUME NEW c \in Nat \ {0}, NEW q \in Int, NEW r \in 0..(c - 1)
    PROVE  (c * q + r) % c = r
  OBVIOUS

LEMMA SmallMultiple ==
    ASSUME NEW c \in Nat \ {0}, NEW q \in Int, -c < c * q, c * q < c
    PROVE  q = 0
<1>1. CASE q >= 1
  <2>1. PICK n \in Nat : q = n + 1 BY <1>1
  <2>2. c * q = c * n + c /\ c * n >= 0 BY <2>1
  <2> QED BY <2>2
<1>2. CASE q <= -1
  <2>1. PICK n \in Nat : q = -n - 1 BY <1>2
  <2>2. c * q = -(c * n) - c /\ c * n >= 0 BY <2>1
  <2> QED BY <2>2
<1> QED BY <1>1, <1>2

(* Two numbers nearer to each other than the width are equal if they are   *)
(* congruent.                                                              *)
LEMMA CongruentAreEqual ==
    ASSUME NEW c \in Nat \ {0}, NEW x \in Int, NEW y \in Int, NEW q \in Int,
           x - y = c * q, -c < x - y, x - y < c
    PROVE  x = y
<1>1. q = 0 BY SmallMultiple
<1> QED BY <1>1

(* A slot has one position in any window of the ring's length.             *)
LEMMA PositionIs ==
    ASSUME NEW p, p.cursor \in Int, NEW i \in Slots
    PROVE  /\ Position(p, i) \in Int /\ p.cursor <= Position(p, i)
           /\ Position(p, i) < p.cursor + Capacity /\ Position(p, i) % Capacity = i
<1> DEFINE cur == p.cursor
           r == (i - cur) % Capacity
<1>0. Capacity \in Nat \ {0} /\ i \in 0..(Capacity - 1) /\ cur \in Int
  BY MediaAssumption DEF MediaAssumption, Slots
<1>1. PICK q \in Int : r \in 0..(Capacity - 1) /\ i - cur = Capacity * q + r
  <2> DEFINE d == i - cur
  <2>1. d \in Int BY <1>0
  <2> HIDE DEF d
  <2>2. d % Capacity \in 0..(Capacity - 1) /\ \E q \in Int : d = Capacity * q + (d % Capacity)
    BY <1>0, <2>1, ModIs
  <2> QED BY <2>2 DEF d
<1>2. Position(p, i) = cur + r BY DEF Position
<1> HIDE DEF cur, r
<1>3. cur + r = Capacity * (-q) + i BY <1>0, <1>1
<1>4. (Capacity * (-q) + i) % Capacity = i BY <1>0, MultipleIs
<1>5. /\ Position(p, i) \in Int /\ cur <= Position(p, i)
      /\ Position(p, i) < cur + Capacity /\ Position(p, i) % Capacity = i
  BY <1>0, <1>1, <1>2, <1>3, <1>4
<1> QED BY <1>5 DEF cur

LEMMA PositionOf ==
    ASSUME NEW p, p.cursor \in Int, NEW x \in Int, p.cursor <= x, x < p.cursor + Capacity
    PROVE  x % Capacity \in Slots /\ Position(p, x % Capacity) = x
<1> DEFINE i == x % Capacity
           y == Position(p, i)
           cur == p.cursor
<1>0. Capacity \in Nat \ {0} BY MediaAssumption DEF MediaAssumption
<1>1. PICK q \in Int : i \in 0..(Capacity - 1) /\ x = Capacity * q + i BY <1>0, ModIs
<1>2. i \in Slots BY <1>1 DEF Slots
<1> HIDE DEF i
<1>3. y \in Int /\ cur <= y /\ y < cur + Capacity /\ y % Capacity = i
  BY <1>2, PositionIs
<1> HIDE DEF y
<1>4. PICK k \in Int : y = Capacity * k + i BY <1>0, <1>3, ModIs
<1>5. x - y = Capacity * (q - k) /\ q - k \in Int BY <1>0, <1>1, <1>4, <1>2 DEF Slots
<1>6. cur \in Int /\ cur <= x /\ x < cur + Capacity OBVIOUS
<1> HIDE DEF cur
<1>7. x = y BY <1>0, <1>3, <1>5, <1>6, CongruentAreEqual
<1> QED BY <1>2, <1>7 DEF y, i
-----------------------------------------------------------------------------
ThePackets == {Packet(d) : d \in Datagrams}
Addresses == {d.from : d \in Datagrams} \cup {r.address : r \in Remotes}
Candidates == [from : Addresses, stream : Streams, sequence : Nat, count : 1..3]
Playouts == [ring : [Slots -> Samples \cup {None}], anchor : 0..(Wrap - 1) \cup {None},
             cursor : Int, end : Int, next : Nat \cup {None}, started : BOOLEAN]

(* Every sample in the ring is where it belongs, and of a call that is     *)
(* short against the width of a timestamp.                                 *)
Short(s) == 2 * (s.place + 1) <= Wrap
InRing(p) ==
    \A i \in Slots : p.ring[i] # None =>
        /\ Position(p, i) < p.end /\ Belongs(p.ring[i], Position(p, i)) /\ Short(p.ring[i])
Good(p) ==
    /\ p \in Playouts /\ InRing(p)
    /\ -Capacity <= p.cursor /\ 0 <= p.end /\ p.end <= p.cursor + Capacity

(* The window does not run ahead of the clock.                             *)
Paced ==
    /\ clock <= MaxClock
    /\ playout.anchor = None <=> playout.next = None
    /\ playout.next = None => playout.cursor = 0 /\ playout.end = 0
    /\ playout.next # None =>
          /\ playout.next - Delay \in 0..clock
          /\ phase # "ended" => playout.cursor <= (playout.next - Delay) * FrameSamples
    /\ playout.cursor <= MaxClock * FrameSamples + Capacity

(* What has left the ring lies before the window, where it belonged.       *)
Before(j) == playout.cursor - Len(played) + j - 1
Heard ==
    /\ played \in Seq(Samples \cup {Silence})
    /\ ~playout.started /\ phase # "ended" => played = <<>>
    /\ -Capacity <= playout.cursor - Len(played)
    /\ \A j \in 1..Len(played) : played[j] # Silence =>
          Belongs(played[j], Before(j)) /\ Short(played[j])
    /\ phase = "ended" => \A i \in Slots : playout.ring[i] = None

(* An address packets are taken from is pinned, and it is the only one.    *)
Routed ==
    /\ peer \in [address : Addresses, pinned : BOOLEAN, candidate : Candidates \cup {None}]
    /\ ~peer.pinned /\ peer.candidate # None => peer.candidate.count < 3
    /\ taken \subseteq {peer.address} /\ (taken # {} => peer.pinned)

(* The packets on probation follow each other; after a change of the codec *)
(* none is on probation.                                                   *)
Follows(q, r) ==
    q.stream = r.stream /\ r.timestamp = (q.timestamp + Length[q.stream]) % Wrap
Kept ==
    /\ candidate \in Seq(ThePackets) /\ Len(candidate) < 3
    /\ \A i \in 1..(Len(candidate) - 1) : Follows(candidate[i], candidate[i + 1])
    /\ pending => candidate = <<>>

Inv == TypeOK /\ Good(playout) /\ Paced /\ Heard /\ Routed /\ Kept
-----------------------------------------------------------------------------
LEMMA MaxIs ==
    ASSUME NEW S \in SUBSET Int, S # {}, NEW b \in Int, \A x \in S : x <= b
    PROVE  Max(S) \in S /\ \A x \in S : Max(S) >= x
<1> DEFINE T == {n \in Nat : b - n \in S}
           R == {ss \in Nat \X Nat : ss[1] < ss[2]}
<1>1. IsWellFoundedOn(R, Nat)
  BY NatLessThanWellFounded, Zenon DEF OpToRel
<1>2. T \subseteq Nat /\ T # {}
  <2>1. PICK x \in S : TRUE OBVIOUS
  <2>2. b - x \in Nat /\ b - (b - x) = x BY <2>1
  <2>3. b - x \in T BY <2>1, <2>2
  <2> QED BY <2>3
<1>3. \E n \in T : \A y \in T : ~(<<y, n>> \in R)
  <2> HIDE DEF R, T
  <2> QED BY <1>1, <1>2, WFMin
<1>4. PICK n \in T : \A y \in T : ~(<<y, n>> \in R)
  BY <1>3
<1>5. b - n \in S /\ n \in Nat OBVIOUS
<1>6. ASSUME NEW x \in S PROVE b - n >= x
  <2>1. b - x \in Nat /\ b - (b - x) = x OBVIOUS
  <2>2. b - x \in T BY <2>1
  <2>3. ~(b - x < n) BY <2>1, <2>2, <1>4, <1>5
  <2> QED BY <2>1, <2>3, <1>5
<1>7. \E m \in S : \A x \in S : m >= x BY <1>5, <1>6
<1> QED BY <1>7 DEF Max

(* A call is short against the width of a timestamp.                       *)
LEMMA WidthIs ==
    /\ Wrap \in Nat \ {0} /\ Capacity \in Nat \ {0} /\ FrameSamples \in 1..Capacity
    /\ Delay \in Nat \ {0} /\ MaxClock \in Nat /\ MaxClock * FrameSamples \in Nat
    /\ 2 * (MaxClock * FrameSamples + 3 * Capacity) <= Wrap
<1>1. /\ Wrap \in Nat /\ Capacity \in Nat \ {0} /\ FrameSamples \in 1..Capacity
      /\ Delay \in Nat \ {0} /\ MaxClock \in Nat
      /\ 2 * (MaxClock * FrameSamples + 3 * Capacity) <= Wrap
  BY MediaAssumption DEF MediaAssumption
<1> DEFINE m == MaxClock * FrameSamples
<1>2. m \in Nat BY <1>1
<1>3. 2 * (m + 3 * Capacity) <= Wrap BY <1>1
<1> HIDE DEF m
<1>4. Wrap > 0 BY <1>1, <1>2, <1>3
<1> QED BY <1>1, <1>2, <1>4 DEF m

(* A packet is of a stream of the call, and its timestamp tells its place. *)
LEMMA PacketIs ==
    ASSUME NEW q \in ThePackets
    PROVE  /\ q.stream \in Streams /\ q.number \in Nat /\ q.sequence \in Nat
           /\ q.timestamp \in 0..(Wrap - 1)
           /\ Length[q.stream] \in 1..Capacity /\ First[q.stream].timestamp \in Nat
           /\ q.number * Length[q.stream] \in Nat
           /\ 2 * (q.number * Length[q.stream] + Length[q.stream]) <= Wrap
           /\ \E k \in Int : First[q.stream].timestamp + q.number * Length[q.stream]
                                = Wrap * k + q.timestamp
<1>1. PICK d \in Datagrams : q = Packet(d) BY DEF ThePackets
<1>2. /\ q.stream = d.stream /\ q.number = d.number
      /\ q.sequence = Sequence(d.stream, d.number)
      /\ q.timestamp = Timestamp(d.stream, d.number)
  BY <1>1 DEF Packet
<1> DEFINE l == Length[d.stream]
           n == d.number
           f == First[d.stream].timestamp
           g == First[d.stream].sequence
<1>3. /\ d.stream \in Streams /\ n \in Nat /\ l \in 1..Capacity /\ f \in Nat /\ g \in Nat
      /\ 2 * (n + 1) * l <= Wrap /\ Wrap \in Nat \ {0} /\ WrapSeq \in Nat \ {0}
      /\ Capacity \in Nat
  <2>1. d.stream \in Streams /\ n \in Nat /\ 2 * (n + 1) * l <= Wrap
    BY MediaAssumption DEF MediaAssumption
  <2>2. l \in 1..Capacity /\ f \in Nat /\ g \in Nat
    BY <2>1, MediaAssumption DEF MediaAssumption
  <2>3. Wrap \in Nat /\ WrapSeq \in Nat \ {0} /\ Capacity \in Nat \ {0}
    BY MediaAssumption DEF MediaAssumption
  <2> QED BY <2>1, <2>2, <2>3, WidthIs
<1>4. Sequence(d.stream, d.number) = (g + n) % WrapSeq
      /\ Timestamp(d.stream, d.number) = (f + n * l) % Wrap
  BY DEF Sequence, Timestamp
<1> HIDE DEF l, n, f, g
<1>5. (g + n) % WrapSeq \in Nat
  <2>1. g + n \in Int BY <1>3
  <2>2. (g + n) % WrapSeq \in 0..(WrapSeq - 1) BY <2>1, <1>3, ModIs
  <2> QED BY <2>2, <1>3
<1>6. n * l \in Nat /\ 2 * (n * l + l) <= Wrap
  <2>1. (n + 1) * l = n * l + l /\ n * l \in Nat BY <1>3
  <2>2. 2 * (n + 1) * l = 2 * ((n + 1) * l) BY <1>3
  <2> QED BY <2>1, <2>2, <1>3
<1>7. /\ (f + n * l) % Wrap \in 0..(Wrap - 1)
      /\ \E k \in Int : f + n * l = Wrap * k + ((f + n * l) % Wrap)
  <2>1. f + n * l \in Int BY <1>3, <1>6
  <2> QED BY <2>1, <1>3, ModIs
<1> QED BY <1>2, <1>3, <1>4, <1>5, <1>6, <1>7 DEF l, n, f

(* A timestamp's difference is congruent to it, and small ones are exact.  *)
LEMMA SignedIs ==
    ASSUME NEW d \in Int
    PROVE  /\ Signed(d) \in Int
           /\ \E k \in Int : d = Wrap * k + Signed(d)
<1>0. Wrap \in Nat \ {0} BY WidthIs
<1> DEFINE r == d % Wrap
<1>1. PICK k \in Int : r \in 0..(Wrap - 1) /\ d = Wrap * k + r BY <1>0, ModIs
<1>2. Signed(d) = r \/ Signed(d) = r - Wrap BY DEF Signed
<1> HIDE DEF r
<1> DEFINE j == k + 1
<1>3. d = Wrap * j + (r - Wrap) /\ j \in Int BY <1>0, <1>1
<1> HIDE DEF j
<1>4. CASE Signed(d) = r
  <2>1. Signed(d) \in Int BY <1>0, <1>1, <1>4
  <2>2. d = Wrap * k + Signed(d) BY <1>1, <1>4
  <2> QED BY <2>1, <2>2
<1>5. CASE Signed(d) = r - Wrap
  <2>1. Signed(d) \in Int BY <1>0, <1>1, <1>5
  <2>2. d = Wrap * j + Signed(d) BY <1>3, <1>5
  <2> QED BY <1>3, <2>1, <2>2
<1> QED BY <1>2, <1>4, <1>5

LEMMA SignedOf ==
    ASSUME NEW d \in Int, NEW x \in Nat, 2 * (x + 1) <= Wrap, NEW k \in Int, d = Wrap * k + x
    PROVE  Signed(d) = x
<1>0. Wrap \in Nat \ {0} BY WidthIs
<1>1. d % Wrap = x
  <2>1. x \in 0..(Wrap - 1) BY <1>0
  <2> QED BY <2>1, <1>0, MultipleIs
<1>2. x < Wrap \div 2 BY <1>0
<1> QED BY <1>1, <1>2 DEF Signed
-----------------------------------------------------------------------------
(* A packet's samples go where they belong, and nothing that the ring holds *)
(* moves, even if the window is moved back.                                *)
LEMMA OffsetIs ==
    ASSUME NEW p, p.anchor \in 0..(Wrap - 1) \cup {None}, NEW packet \in ThePackets,
           NEW anchor, anchor = Anchor(p, packet)
    PROVE  /\ anchor \in 0..(Wrap - 1) /\ anchor # None
           /\ Offset(p, packet) \in Int
           /\ \E k \in Int : First[packet.stream].timestamp
                                + packet.number * Length[packet.stream]
                                - anchor - Offset(p, packet) = Wrap * k
<1> DEFINE m == packet.number * Length[packet.stream]
           f == First[packet.stream].timestamp
           t == packet.timestamp
           x == Offset(p, packet)
<1>0. Wrap \in Nat \ {0} BY WidthIs
<1>1. PICK k \in Int : f + m = Wrap * k + t BY PacketIs
<1>2. f \in Nat /\ m \in Nat /\ t \in 0..(Wrap - 1) BY PacketIs
<1>3. anchor \in 0..(Wrap - 1) BY <1>2 DEF Anchor
<1>4. anchor # None BY <1>3, <1>0, MediaAssumption DEF MediaAssumption
<1>5. x = Signed(t - anchor) BY DEF Offset
<1>6. t - anchor \in Int BY <1>2, <1>3, <1>0
<1> HIDE DEF m, f, t, x
<1>7. PICK j \in Int : x \in Int /\ t - anchor = Wrap * j + x BY <1>5, <1>6, SignedIs
<1> DEFINE i == k + j
<1>8. f + m - anchor - x = Wrap * i /\ i \in Int
  <2> DEFINE a == Wrap * k
             b == Wrap * j
  <2>1. Wrap * i = a + b /\ a \in Int /\ b \in Int /\ i \in Int BY <1>0
  <2>2. f + m = a + t /\ t - anchor = b + x BY <1>1, <1>7
  <2> HIDE DEF a, b, i
  <2> QED BY <2>1, <2>2, <1>2, <1>3, <1>7
<1> HIDE DEF i
<1>9. \E n \in Int : f + m - anchor - x = Wrap * n BY <1>8
<1> QED BY <1>3, <1>4, <1>7, <1>9 DEF m, f, x

LEMMA MovesBackIs ==
    ASSUME NEW p, Good(p), NEW x \in Int,
           NEW cursor, cursor = Cursor(p, x)
    PROVE  /\ cursor \in Int /\ cursor <= p.cursor /\ (p.started => cursor = p.cursor)
           /\ -Capacity <= cursor /\ p.end <= cursor + Capacity
<1>1. /\ p.cursor \in Int /\ p.end \in Int /\ -Capacity <= p.cursor /\ 0 <= p.end
      /\ p.end <= p.cursor + Capacity /\ Capacity \in Nat
  BY WidthIs DEF Good, Playouts
<1>2. CASE MovesBack(p, x)
  <2>1. ~p.started /\ x < p.cursor /\ p.end - x <= Capacity BY <1>2 DEF MovesBack
  <2>2. cursor = x BY <1>2 DEF Cursor
  <2> QED BY <2>1, <2>2, <1>1
<1>3. CASE ~MovesBack(p, x)
  <2>1. cursor = p.cursor BY <1>3 DEF Cursor
  <2> QED BY <2>1, <1>1
<1> QED BY <1>2, <1>3

(* The same positions in an earlier window that still holds them. *)
LEMMA SamePosition ==
    ASSUME NEW p, Good(p), NEW q, q.cursor \in Int, q.cursor <= p.cursor,
           p.end <= q.cursor + Capacity, NEW i \in Slots, p.ring[i] # None
    PROVE  Position(q, i) = Position(p, i)
<1>1. p.cursor \in Int /\ p.end \in Int BY DEF Good, Playouts
<1>2. /\ Position(p, i) \in Int /\ p.cursor <= Position(p, i)
      /\ Position(p, i) % Capacity = i
  BY <1>1, PositionIs
<1>3. Position(p, i) < p.end BY DEF Good, InRing
<1>4. q.cursor <= Position(p, i) /\ Position(p, i) < q.cursor + Capacity
  BY <1>1, <1>2, <1>3, WidthIs
<1> QED BY <1>2, <1>4, PositionOf

(* What the insertion of a packet of l samples at position x makes of p.    *)
Inserted(p, packet, q, x, l) ==
    /\ Good(q)
    /\ q.started = p.started
    /\ q.cursor = Cursor(p, x)
    /\ q.anchor = Anchor(p, packet)
    /\ q.next = IF p.anchor = None THEN clock + Delay ELSE p.next
    /\ q.end = p.end \/ (p.end <= q.end /\ q.end <= x + l)
    /\ \A i \in Slots : p.ring[i] # None => q.ring[i] = p.ring[i]
    /\ \A k \in 0..(l - 1) :
          q.cursor <= x + k /\ x + k < q.cursor + Capacity
             /\ p.ring[(x + k) % Capacity] = None =>
                /\ q.ring[(x + k) % Capacity] # None
                /\ q.ring[(x + k) % Capacity].stream = packet.stream
                /\ q.ring[(x + k) % Capacity].place = packet.number * l + k

LEMMA InsertIs ==
    ASSUME NEW p, Good(p), NEW packet \in ThePackets, clock \in Nat,
           NEW q, q = Insert(p, packet)
    PROVE  Inserted(p, packet, q, Offset(p, packet), Length[packet.stream])
<1> DEFINE l == Length[packet.stream]
           x == Offset(p, packet)
           anchor == Anchor(p, packet)
           cursor == Cursor(p, x)
           slot(k) == (x + k) % Capacity
           written == Written(p, x, l)
           sample(k) == Sample(p, packet, k)
           ring == Filled(p, packet, x, written)
           ends == {p.end} \cup {x + k + 1 : k \in written}
           next == IF p.anchor = None THEN clock + Delay ELSE p.next
<1>1. q = [p EXCEPT !.anchor = anchor, !.next = next, !.cursor = cursor, !.ring = ring,
                    !.end = Max(ends)]
  BY DEF Insert
<1>a. \A k : k \in written <=>
         /\ k \in 0..(l - 1) /\ cursor <= x + k /\ x + k < cursor + Capacity
         /\ p.ring[slot(k)] = None
  BY DEF Written
<1>b. \A k : sample(k) = [stream |-> packet.stream, place |-> packet.number * l + k,
                          anchor |-> anchor]
  BY DEF Sample
<1>c. \A i \in Slots : ring[i] = IF \E k \in written : slot(k) = i
                                  THEN sample(CHOOSE k \in written : slot(k) = i)
                                  ELSE p.ring[i]
  BY DEF Filled
<1>d. ring = [i \in Slots |-> ring[i]] BY DEF Filled
<1> HIDE DEF x, written, sample, ring
<1>2. /\ p \in Playouts /\ p.cursor \in Int /\ p.end \in Int /\ 0 <= p.end
      /\ p.ring \in [Slots -> Samples \cup {None}]
      /\ p.anchor \in 0..(Wrap - 1) \cup {None}
  BY DEF Good, Playouts
<1>3. /\ anchor \in 0..(Wrap - 1) /\ x \in Int
      /\ \E k \in Int : First[packet.stream].timestamp + packet.number * l - anchor - x
                           = Wrap * k
  BY <1>2, OffsetIs DEF x
<1>4. /\ cursor \in Int /\ cursor <= p.cursor
      /\ -Capacity <= cursor /\ p.end <= cursor + Capacity
  BY <1>3, MovesBackIs
<1>5. /\ l \in 1..Capacity /\ packet.stream \in Streams /\ packet.number * l \in Nat
      /\ 2 * (packet.number * l + l) <= Wrap /\ First[packet.stream].timestamp \in Nat
  BY PacketIs DEF l
<1> HIDE DEF anchor, cursor
<1>6. ASSUME NEW k \in written
      PROVE  /\ slot(k) \in Slots /\ sample(k) \in Samples /\ Short(sample(k))
             /\ 0 <= k /\ k < l /\ k \in Int
             /\ cursor <= x + k /\ x + k < cursor + Capacity /\ p.ring[slot(k)] = None
  <2>1. /\ 0 <= k /\ k < l /\ k \in Int
        /\ cursor <= x + k /\ x + k < cursor + Capacity /\ p.ring[slot(k)] = None
    BY <1>a, <1>5, WidthIs
  <2>2. slot(k) \in Slots
    <3> DEFINE y == x + k
    <3>1. y \in Int BY <2>1, <1>3
    <3> HIDE DEF y
    <3>2. y % Capacity \in 0..(Capacity - 1) BY <3>1, ModIs, WidthIs
    <3> QED BY <3>2 DEF y, Slots
  <2> DEFINE m == packet.number * l
  <2>3. m \in Nat /\ 2 * (m + l) <= Wrap BY <1>5
  <2> HIDE DEF m
  <2>4. m + k \in Nat /\ 2 * (m + k + 1) <= Wrap BY <2>1, <2>3, <1>5, WidthIs
  <2>5. sample(k) = [stream |-> packet.stream, place |-> m + k, anchor |-> anchor] BY <1>b DEF m
  <2>6. sample(k) \in Samples BY <2>4, <2>5, <1>3, <1>5 DEF Samples
  <2>7. Short(sample(k)) BY <2>4, <2>5 DEF Short
  <2> QED BY <2>1, <2>2, <2>6, <2>7
<1>7. \A i \in Slots : \/ /\ ring[i] = p.ring[i] /\ \A k \in written : slot(k) # i
                       \/ \E k \in written : slot(k) = i /\ ring[i] = sample(k)
  BY <1>c
<1>8. ring \in [Slots -> Samples \cup {None}]
  <2>1. \A i \in Slots : ring[i] \in Samples \cup {None} BY <1>2, <1>6, <1>7
  <2> QED BY <2>1, <1>d
<1>9. Max(ends) \in ends /\ Max(ends) \in Int /\ \A y \in ends : y <= Max(ends)
  <2>1. ends \in SUBSET Int /\ ends # {} BY <1>2, <1>3, <1>6
  <2>2. \A y \in ends : y <= cursor + Capacity
    <3> SUFFICES ASSUME NEW y \in ends PROVE y <= cursor + Capacity OBVIOUS
    <3>1. CASE y = p.end BY <3>1, <1>4
    <3>2. ASSUME NEW k \in written, y = x + k + 1 PROVE y <= cursor + Capacity
      BY <3>2, <1>3, <1>4, <1>6, WidthIs
    <3> QED BY <3>1, <3>2
  <2>3. cursor + Capacity \in Int BY <1>4, WidthIs
  <2> HIDE DEF ends
  <2>4. Max(ends) \in ends /\ \A y \in ends : Max(ends) >= y BY <2>1, <2>2, <2>3, MaxIs
  <2> QED BY <2>1, <2>4
<1> HIDE DEF ring, ends, next
<1>10. /\ q.anchor = anchor /\ q.next = next /\ q.cursor = cursor /\ q.ring = ring
       /\ q.end = Max(ends) /\ q.started = p.started
       /\ q \in Playouts
  <2>1. next \in Nat \cup {None} BY <1>2, WidthIs DEF next, Playouts
  <2>2. p \in [ring : [Slots -> Samples \cup {None}], anchor : 0..(Wrap - 1) \cup {None},
               cursor : Int, end : Int, next : Nat \cup {None}, started : BOOLEAN]
    BY <1>2 DEF Playouts
  <2>3. /\ q.anchor = anchor /\ q.next = next /\ q.cursor = cursor /\ q.ring = ring
        /\ q.end = Max(ends) /\ q.started = p.started
    BY <1>1, <2>2
  <2>4. q \in [ring : [Slots -> Samples \cup {None}], anchor : 0..(Wrap - 1) \cup {None},
               cursor : Int, end : Int, next : Nat \cup {None}, started : BOOLEAN]
    BY <1>1, <2>1, <2>2, <1>3, <1>4, <1>8, <1>9
  <2> QED BY <2>3, <2>4 DEF Playouts
<1>11. \A i \in Slots : p.ring[i] # None => ring[i] = p.ring[i]
  BY <1>6, <1>7
<1>12. /\ p.end <= q.end /\ 0 <= q.end /\ q.end <= cursor + Capacity
       /\ \A k \in written : x + k < q.end
       /\ q.end = p.end \/ q.end <= x + l
  <2>1. q.end \in ends /\ q.end \in Int /\ \A y \in ends : y <= q.end BY <1>9, <1>10
  <2>2. p.end \in ends /\ \A k \in written : x + k + 1 \in ends BY DEF ends
  <2>3. ASSUME NEW k \in written PROVE x + k < q.end
    <3>1. x + k + 1 <= q.end /\ k \in Int /\ x \in Int /\ q.end \in Int
      BY <2>1, <2>2, <1>3, <1>6
    <3> QED BY <3>1
  <2>4. p.end <= q.end /\ 0 <= q.end BY <2>1, <2>2, <1>2
  <2>5. CASE q.end = p.end BY <2>3, <2>4, <2>5, <1>4
  <2>6. ASSUME NEW k \in written, q.end = x + k + 1
        PROVE  q.end <= cursor + Capacity /\ q.end <= x + l
    BY <2>6, <1>3, <1>4, <1>5, <1>6, WidthIs
  <2>7. q.end = p.end \/ \E k \in written : q.end = x + k + 1 BY <2>1 DEF ends
  <2> QED BY <2>3, <2>4, <2>5, <2>6, <2>7
<1>13. ASSUME NEW k \in written
       PROVE  /\ Position(q, slot(k)) = x + k
              /\ Belongs(sample(k), x + k)
  <2>1. x + k \in Int /\ q.cursor \in Int /\ q.cursor <= x + k /\ x + k < q.cursor + Capacity
    BY <1>3, <1>4, <1>6, <1>10
  <2>2. Position(q, slot(k)) = x + k
    <3> DEFINE y == x + k
    <3>1. y \in Int /\ q.cursor <= y /\ y < q.cursor + Capacity BY <2>1
    <3> HIDE DEF y
    <3>2. Position(q, y % Capacity) = y BY <2>1, <3>1, PositionOf
    <3> QED BY <3>2 DEF y
  <2>3. Belongs(sample(k), x + k)
    <3> DEFINE m == packet.number * l
               f == First[packet.stream].timestamp
               d == f + (m + k) - anchor - (x + k)
    <3>1. m \in Nat /\ f \in Nat /\ anchor \in Int /\ x \in Int /\ k \in Int
      BY <1>3, <1>5, <1>6, WidthIs
    <3>2. PICK n \in Int : f + m - anchor - x = Wrap * n BY <1>3
    <3>3. Belongs(sample(k), x + k) <=> d % Wrap = 0 BY <1>b DEF Belongs
    <3> HIDE DEF m, f
    <3>4. d = Wrap * n + 0 BY <3>1, <3>2, WidthIs
    <3> HIDE DEF d
    <3>5. d % Wrap = 0 BY <3>4, MultipleIs, WidthIs
    <3> QED BY <3>3, <3>5
  <2> QED BY <2>2, <2>3
<1>14. InRing(q)
  <2> SUFFICES ASSUME NEW i \in Slots, q.ring[i] # None
               PROVE  /\ Position(q, i) < q.end /\ Belongs(q.ring[i], Position(q, i))
                      /\ Short(q.ring[i])
    BY DEF InRing
  <2>1. CASE ring[i] = p.ring[i]
    <3>1. Position(q, i) = Position(p, i) /\ Position(p, i) \in Int
      BY <2>1, <1>2, <1>4, <1>10, SamePosition, PositionIs
    <3>2. /\ Position(p, i) < p.end /\ Belongs(p.ring[i], Position(p, i)) /\ Short(p.ring[i])
      BY <2>1, <1>10 DEF Good, InRing
    <3>3. Position(p, i) < q.end BY <3>1, <3>2, <1>2, <1>9, <1>10, <1>12
    <3> QED BY <3>1, <3>2, <3>3, <2>1, <1>10
  <2>2. ASSUME NEW k \in written, slot(k) = i, ring[i] = sample(k)
        PROVE  /\ Position(q, i) < q.end /\ Belongs(q.ring[i], Position(q, i))
               /\ Short(q.ring[i])
    <3>1. Short(sample(k)) BY <1>6
    <3>2. x + k < q.end BY <1>12
    <3>3. q.ring[i] = sample(k) BY <2>2, <1>10
    <3>4. Position(q, i) = x + k /\ Belongs(sample(k), x + k) BY <2>2, <1>13
    <3> QED BY <3>1, <3>2, <3>3, <3>4
  <2> QED BY <2>1, <2>2, <1>7
<1>15. Good(q)
  BY <1>4, <1>10, <1>12, <1>14 DEF Good
<1>16. ASSUME NEW k \in 0..(l - 1), cursor <= x + k, x + k < cursor + Capacity,
              p.ring[slot(k)] = None
       PROVE  /\ ring[slot(k)] # None
              /\ ring[slot(k)].stream = packet.stream
              /\ ring[slot(k)].place = packet.number * l + k
  <2>1. k \in written BY <1>16, <1>a
  <2>2. slot(k) \in Slots BY <2>1, <1>6
  <2>3. PICK j \in written : slot(j) = slot(k) /\ ring[slot(k)] = sample(j)
    BY <2>1, <2>2, <1>7
  <2>4. x + j = x + k
    BY <2>1, <2>3, <1>13
  <2>5. j = k BY <2>1, <2>4, <1>3, <1>6
  <2>6. sample(k) \in Samples /\ None \notin Samples
    BY <2>1, <1>6, MediaAssumption DEF MediaAssumption, Samples
  <2>7. sample(k).stream = packet.stream /\ sample(k).place = packet.number * l + k
    BY <1>b
  <2> QED BY <2>3, <2>5, <2>6, <2>7
<1>17. Inserted(p, packet, q, x, l)
  BY <1>10, <1>11, <1>12, <1>15, <1>16 DEF Inserted, anchor, cursor, next
<1> QED BY <1>17 DEF l, x

(* The clock of a new stream is joined to the buffered tail; nothing moves. *)
LEMMA RestartIs ==
    ASSUME NEW p, Good(p), NEW t \in Int, NEW q, q = Restart(p, t)
    PROVE  /\ Good(q) /\ q.ring = p.ring /\ q.cursor = p.cursor /\ q.end = p.end
           /\ q.next = p.next /\ q.started = p.started
           /\ q.anchor = None <=> p.anchor = None
           /\ p.anchor # None => q.anchor = (t - Larger(p.end, p.cursor)) % Wrap
<1>1. CASE p.anchor = None
  <2>1. q = p BY <1>1 DEF Restart
  <2> QED BY <1>1, <2>1
<1>2. CASE p.anchor # None
  <2> DEFINE a == (t - Larger(p.end, p.cursor)) % Wrap
  <2>1. q = [p EXCEPT !.anchor = a] BY <1>2 DEF Restart
  <2>2. p \in [ring : [Slots -> Samples \cup {None}], anchor : 0..(Wrap - 1) \cup {None},
               cursor : Int, end : Int, next : Nat \cup {None}, started : BOOLEAN]
    BY DEF Good, Playouts
  <2>3. a \in 0..(Wrap - 1)
    <3> DEFINE d == t - Larger(p.end, p.cursor)
    <3>1. d \in Int BY <2>2 DEF Larger
    <3> HIDE DEF d
    <3>2. d % Wrap \in 0..(Wrap - 1) BY <3>1, ModIs, WidthIs
    <3> QED BY <3>2 DEF d
  <2>4. a # None BY <2>3, WidthIs, MediaAssumption DEF MediaAssumption
  <2> HIDE DEF a
  <2>5. /\ q.anchor = a /\ q.ring = p.ring /\ q.cursor = p.cursor /\ q.end = p.end
        /\ q.next = p.next /\ q.started = p.started
        /\ q \in [ring : [Slots -> Samples \cup {None}], anchor : 0..(Wrap - 1) \cup {None},
                  cursor : Int, end : Int, next : Nat \cup {None}, started : BOOLEAN]
    BY <2>1, <2>2, <2>3
  <2>6. InRing(q) BY <2>5 DEF Good, InRing, Position
  <2>7. Good(q) BY <2>5, <2>6 DEF Good, Playouts
  <2>8. q.anchor = (t - Larger(p.end, p.cursor)) % Wrap BY <2>5 DEF a
  <2> QED BY <1>2, <2>4, <2>5, <2>7, <2>8
<1> QED BY <1>1, <1>2

(* What leaves the ring is what belongs where the window begins, and the   *)
(* rest stays where it is.                                                 *)
LEMMA FrameIs ==
    ASSUME NEW p, Good(p), NEW count \in 0..Capacity, NEW f, f = Frame(p, count)
    PROVE  /\ f \in Seq(Samples \cup {Silence}) /\ Len(f) = count
           /\ \A k \in 1..count : f[k] # Silence =>
                 Belongs(f[k], p.cursor + k - 1) /\ Short(f[k])
<1>0. /\ p.cursor \in Int /\ p.ring \in [Slots -> Samples \cup {None}]
      /\ Capacity \in Nat \ {0} /\ count \in Nat
  BY WidthIs DEF Good, Playouts
<1> DEFINE at(k) == (p.cursor + k - 1) % Capacity
<1>1. f = [k \in 1..count |-> IF p.ring[at(k)] = None THEN Silence ELSE p.ring[at(k)]]
  BY DEF Frame
<1>2. ASSUME NEW k \in 1..count
      PROVE  at(k) \in Slots /\ Position(p, at(k)) = p.cursor + k - 1
  <2> DEFINE y == p.cursor + k - 1
  <2>1. y \in Int /\ p.cursor <= y /\ y < p.cursor + Capacity BY <1>0
  <2> HIDE DEF y
  <2>2. y % Capacity \in Slots /\ Position(p, y % Capacity) = y BY <1>0, <2>1, PositionOf
  <2> QED BY <2>2 DEF y
<1> HIDE DEF at
<1>3. \A k \in 1..count : f[k] \in Samples \cup {Silence}
  BY <1>0, <1>1, <1>2
<1>4. f \in [1..count -> Samples \cup {Silence}]
  BY <1>1, <1>3
<1>5. f \in Seq(Samples \cup {Silence}) /\ Len(f) = count
  BY <1>0, <1>4, SeqDef, LenProperties
<1>6. ASSUME NEW k \in 1..count, f[k] # Silence
      PROVE  Belongs(f[k], p.cursor + k - 1) /\ Short(f[k])
  <2>1. p.ring[at(k)] # None /\ f[k] = p.ring[at(k)] BY <1>1, <1>6
  <2>2. at(k) \in Slots /\ Position(p, at(k)) = p.cursor + k - 1 BY <1>2
  <2> QED BY <2>1, <2>2 DEF Good, InRing
<1> QED BY <1>5, <1>6

LEMMA TakeFrameIs ==
    ASSUME NEW p, Good(p), NEW count \in 0..Capacity, NEW q, q = TakeFrame(p, count)
    PROVE  /\ Good(q) /\ q.cursor = p.cursor + count /\ q.end = p.end
           /\ q.anchor = p.anchor /\ q.next = p.next /\ q.started = p.started
           /\ p.end <= q.cursor => \A i \in Slots : q.ring[i] = None
<1>0. /\ p \in [ring : [Slots -> Samples \cup {None}], anchor : 0..(Wrap - 1) \cup {None},
                cursor : Int, end : Int, next : Nat \cup {None}, started : BOOLEAN]
      /\ Capacity \in Nat \ {0} /\ count \in Nat
      /\ -Capacity <= p.cursor /\ 0 <= p.end /\ p.end <= p.cursor + Capacity
  BY WidthIs DEF Good, Playouts
<1> DEFINE ring == [i \in Slots |-> IF \E k \in 0..(count - 1) : (p.cursor + k) % Capacity = i
                                      THEN None ELSE p.ring[i]]
<1>1. q = [p EXCEPT !.ring = ring, !.cursor = p.cursor + count] BY DEF TakeFrame
<1>2. ring \in [Slots -> Samples \cup {None}] BY <1>0
<1>3. \A i \in Slots : ring[i] # None =>
         /\ ring[i] = p.ring[i]
         /\ \A k \in 0..(count - 1) : (p.cursor + k) % Capacity # i
  OBVIOUS
<1> HIDE DEF ring
<1>4. /\ q.cursor = p.cursor + count /\ q.end = p.end /\ q.ring = ring
      /\ q.anchor = p.anchor /\ q.next = p.next /\ q.started = p.started
  BY <1>0, <1>1
<1>5. q \in Playouts
  <2>1. p.cursor + count \in Int BY <1>0
  <2>2. q \in [ring : [Slots -> Samples \cup {None}], anchor : 0..(Wrap - 1) \cup {None},
               cursor : Int, end : Int, next : Nat \cup {None}, started : BOOLEAN]
    BY <1>0, <1>1, <1>2, <2>1
  <2> QED BY <2>2 DEF Playouts
<1>6. ASSUME NEW i \in Slots, q.ring[i] # None
      PROVE  /\ Position(q, i) = Position(p, i) /\ Position(q, i) < p.end
             /\ q.cursor <= Position(q, i) /\ Position(q, i) \in Int
             /\ Belongs(q.ring[i], Position(q, i)) /\ Short(q.ring[i])
  <2> DEFINE y == Position(p, i)
             k == y - p.cursor
  <2>1. y \in Int /\ p.cursor <= y /\ y < p.cursor + Capacity /\ y % Capacity = i
    BY <1>0, PositionIs
  <2>2. q.ring[i] = p.ring[i] /\ p.ring[i] # None BY <1>3, <1>4, <1>6
  <2> HIDE DEF y
  <2>3. k \in Nat /\ (p.cursor + k) = y BY <1>0, <2>1
  <2>4. k \notin 0..(count - 1) BY <2>1, <2>3, <1>3, <1>4, <1>6
  <2>5. q.cursor <= y /\ y < q.cursor + Capacity /\ q.cursor \in Int
    BY <1>0, <1>4, <2>1, <2>3, <2>4
  <2>6. Position(q, i) = y BY <2>1, <2>5, PositionOf
  <2>7. y < p.end /\ Belongs(p.ring[i], y) /\ Short(p.ring[i])
    BY <2>2 DEF Good, InRing, y
  <2> QED BY <2>1, <2>2, <2>5, <2>6, <2>7 DEF y
<1>7. Good(q) BY <1>0, <1>4, <1>5, <1>6 DEF Good, InRing
<1>8. ASSUME p.end <= q.cursor, NEW i \in Slots PROVE q.ring[i] = None
  BY <1>0, <1>4, <1>6, <1>8
<1> QED BY <1>4, <1>7, <1>8
-----------------------------------------------------------------------------
LEMMA MulMono ==
    ASSUME NEW x \in Int, NEW y \in Int, x <= y, NEW f \in Nat
    PROVE  x * f \in Int /\ y * f \in Int /\ x * f <= y * f
<1>1. PICK n \in Nat : y = x + n BY y = x + (y - x)
<1>2. y * f = x * f + n * f /\ n * f >= 0 BY <1>1
<1> QED BY <1>2

(* What joining a stream and inserting its packets may do to the ring.     *)
Joined(p, q) ==
    /\ Good(q) /\ q.started = p.started
    /\ q.cursor <= p.cursor /\ (p.started => q.cursor = p.cursor)
    /\ q.anchor = None <=> q.next = None
    /\ p.next # None => q.next = p.next
    /\ p.next = None => q.next \in {None, clock + Delay}
    /\ q.next = None => q.cursor = p.cursor /\ q.end = p.end

LEMMA InsertJoins ==
    ASSUME NEW p, Good(p), p.anchor = None <=> p.next = None, NEW packet \in ThePackets,
           clock \in Nat, NEW q, q = Insert(p, packet)
    PROVE  Joined(p, q)
<1> DEFINE x == Offset(p, packet)
<1>1. Inserted(p, packet, q, x, Length[packet.stream]) BY InsertIs
<1>2. p.anchor \in 0..(Wrap - 1) \cup {None} BY DEF Good, Playouts
<1>3. x \in Int /\ Anchor(p, packet) # None BY <1>2, OffsetIs
<1>4. Cursor(p, x) <= p.cursor /\ (p.started => Cursor(p, x) = p.cursor)
  BY <1>3, MovesBackIs
<1>5. clock + Delay # None
  <2>1. clock + Delay \in Int BY WidthIs
  <2> QED BY <2>1, MediaAssumption DEF MediaAssumption
<1> HIDE DEF x
<1>6. /\ Good(q) /\ q.started = p.started /\ q.cursor = Cursor(p, x)
      /\ q.anchor = Anchor(p, packet)
      /\ q.next = IF p.anchor = None THEN clock + Delay ELSE p.next
  BY <1>1 DEF Inserted
<1> QED BY <1>3, <1>4, <1>5, <1>6 DEF Joined

LEMMA RestartJoins ==
    ASSUME NEW p, Good(p), p.anchor = None <=> p.next = None, NEW t \in Int,
           NEW q, q = Restart(p, t)
    PROVE  Joined(p, q)
<1>1. p.cursor \in Int BY DEF Good, Playouts
<1>2. /\ Good(q) /\ q.ring = p.ring /\ q.cursor = p.cursor /\ q.end = p.end
      /\ q.next = p.next /\ q.started = p.started
      /\ q.anchor = None <=> p.anchor = None
  BY RestartIs
<1> QED BY <1>1, <1>2 DEF Joined

LEMMA JoinedTwice ==
    ASSUME NEW p, Good(p), NEW q, Joined(p, q), NEW r, Joined(q, r)
    PROVE  Joined(p, r)
<1>1. p.cursor \in Int /\ q.cursor \in Int /\ r.cursor \in Int
  BY DEF Joined, Good, Playouts
<1> QED BY <1>1 DEF Joined

(* A datagram that joins a stream or inserts its packets leaves the call's *)
(* audio in order.                                                         *)
LEMMA AudioStays ==
    ASSUME Inv, Joined(playout, playout'), phase # "ended", UNCHANGED <<clock, phase, played>>
    PROVE  Good(playout') /\ Paced' /\ Heard'
<1>1. /\ playout.cursor \in Int /\ playout'.cursor \in Int /\ clock \in Nat
      /\ playout.next \in Nat \cup {None} /\ -Capacity <= playout'.cursor
      /\ playout.started \in BOOLEAN
  BY DEF Inv, TypeOK, Joined, Good, Playouts
<1>2. Good(playout') BY DEF Joined
<1>3. Paced'
  <2>1. /\ clock' <= MaxClock /\ (playout'.anchor = None <=> playout'.next = None)
        /\ playout'.cursor <= playout.cursor
    BY DEF Inv, Paced, Joined
  <2>2. playout'.next = None => playout'.cursor = 0 /\ playout'.end = 0
    BY DEF Inv, Paced, Joined
  <2>3. playout'.cursor <= MaxClock * FrameSamples + Capacity
    <3>1. playout.cursor <= MaxClock * FrameSamples + Capacity BY DEF Inv, Paced
    <3> QED BY <2>1, <3>1, <1>1, WidthIs
  <2>4. ASSUME playout'.next # None
        PROVE  /\ playout'.next - Delay \in 0..clock
               /\ playout'.cursor <= (playout'.next - Delay) * FrameSamples
    <3>1. CASE playout.next # None
      <4>1. playout'.next = playout.next BY <3>1 DEF Joined
      <4>2. /\ playout.next - Delay \in 0..clock
            /\ playout.cursor <= (playout.next - Delay) * FrameSamples
        BY <3>1 DEF Inv, Paced
      <4> DEFINE n == playout.next - Delay
      <4>3. n \in 0..clock /\ n * FrameSamples \in Nat BY <4>2, WidthIs, <1>1
      <4>4. playout'.next - Delay = n BY <4>1
      <4>5. playout'.cursor <= n * FrameSamples BY <4>2, <4>3, <2>1, <1>1
      <4> QED BY <4>3, <4>4, <4>5
    <3>2. CASE playout.next = None
      <4>1. playout'.next = clock + Delay BY <3>2, <2>4 DEF Joined
      <4>2. playout.cursor = 0 BY <3>2 DEF Inv, Paced
      <4>3. playout'.next - Delay = clock BY <4>1, <1>1, WidthIs
      <4>4. clock * FrameSamples \in Nat BY <1>1, WidthIs
      <4>5. playout'.cursor <= clock * FrameSamples BY <4>2, <4>4, <2>1, <1>1
      <4>6. (playout'.next - Delay) * FrameSamples = clock * FrameSamples BY <4>3
      <4>7. playout'.cursor <= (playout'.next - Delay) * FrameSamples BY <4>5, <4>6, Zenon
      <4> QED BY <4>3, <4>7, <1>1
    <3> QED BY <3>1, <3>2
  <2> QED BY <2>1, <2>2, <2>3, <2>4 DEF Paced
<1>4. Heard'
  <2>1. /\ played' = played /\ phase' = phase /\ playout'.started = playout.started
        /\ played \in Seq(Samples \cup {Silence})
    BY DEF Inv, Heard, Joined
  <2>2. CASE playout.started
    <3>1. playout'.cursor = playout.cursor BY <2>2 DEF Joined
    <3>2. \A j : Before(j)' = Before(j) BY <2>1, <3>1 DEF Before
    <3> QED BY <2>1, <2>2, <3>1, <3>2 DEF Inv, Heard
  <2>3. CASE ~playout.started
    <3>1. played = <<>> BY <2>3 DEF Inv, Heard
    <3>2. Len(played) = 0 /\ 1..Len(played) = {} BY <3>1
    <3> QED BY <2>1, <3>1, <3>2, <1>1 DEF Heard
  <2> QED BY <2>2, <2>3, <1>1
<1> QED BY <1>2, <1>3, <1>4

(* The choice of the peer's address.                                       *)
LEMMA RouteStays ==
    ASSUME Inv, NEW d \in Datagrams,
           NEW answer, answer = Accept(d.from, Packet(d)),
           peer' = answer.peer,
           taken' = IF answer.taken THEN taken \cup {d.from} ELSE taken
    PROVE  Routed'
<1> DEFINE address == d.from
           packet == Packet(d)
           c == Considered(address, packet)
<1>1. /\ peer \in [address : Addresses, pinned : BOOLEAN, candidate : Candidates \cup {None}]
      /\ ~peer.pinned /\ peer.candidate # None => peer.candidate.count < 3
      /\ taken \subseteq {peer.address} /\ (taken # {} => peer.pinned)
  BY DEF Inv, Routed
<1>2. address \in Addresses BY DEF Addresses
<1>3. packet.stream \in Streams /\ packet.sequence \in Nat
  <2>1. packet \in ThePackets BY DEF ThePackets
  <2> HIDE DEF packet
  <2> QED BY <2>1, PacketIs
<1>4. answer = Accept(address, packet) OBVIOUS
<1> HIDE DEF address, packet
<1>5. ASSUME ~peer.pinned PROVE c \in Candidates
  <2> DEFINE known == peer.candidate
             follows == IF known = None THEN FALSE
                        ELSE /\ known.from = address /\ known.stream = packet.stream
                             /\ packet.sequence = (known.sequence + 1) % WrapSeq
             count == IF follows THEN known.count + 1 ELSE 1
  <2>1. c = [from |-> address, stream |-> packet.stream, sequence |-> packet.sequence,
             count |-> count]
    BY DEF Considered
  <2>2. count \in 1..3
    <3>1. CASE follows
      <4>1. known # None BY <3>1
      <4>2. known \in Candidates /\ known.count < 3 BY <4>1, <1>1, <1>5
      <4>3. known.count \in 1..3 BY <4>2 DEF Candidates
      <4> QED BY <3>1, <4>2, <4>3
    <3>2. CASE ~follows BY <3>2
    <3> QED BY <3>1, <3>2
  <2> HIDE DEF count
  <2> QED BY <2>1, <2>2, <1>2, <1>3 DEF Candidates
<1> HIDE DEF c
<1>6. CASE address = peer.address
  <2>1. answer = [taken |-> TRUE, peer |-> [peer EXCEPT !.pinned = TRUE]]
    BY <1>4, <1>6 DEF Accept
  <2>2. peer' = [peer EXCEPT !.pinned = TRUE] /\ taken' = taken \cup {d.from} BY <2>1
  <2>3. peer' \in [address : Addresses, pinned : BOOLEAN, candidate : Candidates \cup {None}]
    BY <2>2, <1>1
  <2>4. peer'.address = peer.address /\ peer'.pinned = TRUE BY <2>2, <1>1
  <2>5. taken' \subseteq {peer'.address} BY <2>2, <2>4, <1>1, <1>6 DEF address
  <2> QED BY <2>3, <2>4, <2>5 DEF Routed
<1>7. CASE address # peer.address /\ Elsewhere(address)
  <2>1. answer = [taken |-> FALSE, peer |-> peer] BY <1>4, <1>7 DEF Accept
  <2>2. peer' = peer /\ taken' = taken BY <2>1
  <2> QED BY <2>2, <1>1 DEF Routed
<1>8. CASE address # peer.address /\ ~Elsewhere(address)
  <2>1. ~peer.pinned /\ taken = {} BY <1>1, <1>8 DEF Elsewhere
  <2>2. c \in Candidates /\ c.count \in 1..3 BY <2>1, <1>5 DEF Candidates
  <2>3. answer = IF c.count < 3
                   THEN [taken |-> FALSE, peer |-> [peer EXCEPT !.candidate = c]]
                   ELSE [taken |-> TRUE,
                         peer |-> [address |-> address, pinned |-> TRUE, candidate |-> c]]
    BY <1>4, <1>8 DEF Accept, c
  <2>4. CASE c.count < 3
    <3>1. peer' = [peer EXCEPT !.candidate = c] /\ taken' = taken BY <2>3, <2>4
    <3>2. /\ peer' \in [address : Addresses, pinned : BOOLEAN, candidate : Candidates \cup {None}]
          /\ peer'.candidate = c
      BY <3>1, <2>2, <1>1
    <3> QED BY <3>1, <3>2, <2>1, <2>4 DEF Routed
  <2>5. CASE ~(c.count < 3)
    <3>1. /\ peer' = [address |-> address, pinned |-> TRUE, candidate |-> c]
          /\ taken' = {address}
      BY <2>1, <2>3, <2>5 DEF address
    <3> QED BY <3>1, <2>2, <1>2 DEF Routed
  <2> QED BY <2>4, <2>5
<1> QED BY <1>6, <1>7, <1>8

(* The packets on probation: the one that does not follow starts them anew. *)
LEMMA ProbationIs ==
    ASSUME Inv, NEW packet \in ThePackets
    PROVE  /\ Probation(packet) \in Seq(ThePackets) /\ Len(Probation(packet)) \in 1..3
           /\ \A i \in 1..(Len(Probation(packet)) - 1) :
                 Follows(Probation(packet)[i], Probation(packet)[i + 1])
           /\ candidate # <<>> /\ Len(Probation(packet)) > 1 =>
                 Probation(packet) = Append(candidate, packet)
<1> DEFINE kept == Probation(packet)
<1>1. /\ candidate \in Seq(ThePackets) /\ Len(candidate) < 3 /\ Len(candidate) \in Nat
      /\ \A i \in 1..(Len(candidate) - 1) : Follows(candidate[i], candidate[i + 1])
  BY DEF Inv, Kept
<1>2. CASE kept = <<packet>>
  <2>1. /\ <<packet>> \in Seq(ThePackets) /\ Len(<<packet>>) = 1
        /\ 1..(Len(<<packet>>) - 1) = {}
    OBVIOUS
  <2> QED BY <2>1, <1>2
<1>3. CASE kept # <<packet>>
  <2>1. candidate # <<>> /\ kept = Append(candidate, packet) /\ Follows(Last(candidate), packet)
    BY <1>3 DEF Probation, Follows
  <2>2. Last(candidate) = candidate[Len(candidate)] /\ Len(candidate) \in 1..2
    <3> DEFINE n == Len(candidate)
    <3>1. n # 0 BY <1>1, <2>1, EmptySeq
    <3>2. n \in Nat /\ n < 3 BY <1>1
    <3>3. Last(candidate) = candidate[n] BY DEF Last
    <3> HIDE DEF n
    <3>4. n \in 1..2 BY <3>1, <3>2
    <3> QED BY <3>3, <3>4 DEF n
  <2>3. /\ kept \in Seq(ThePackets) /\ Len(kept) = Len(candidate) + 1
        /\ kept[Len(candidate) + 1] = packet
        /\ \A i \in 1..Len(candidate) : kept[i] = candidate[i]
    BY <1>1, <2>1, AppendProperties
  <2> HIDE DEF kept
  <2>4. ASSUME NEW i \in 1..(Len(kept) - 1) PROVE Follows(kept[i], kept[i + 1])
    <3>1. i \in 1..Len(candidate) BY <2>2, <2>3
    <3>2. CASE i = Len(candidate) BY <3>1, <3>2, <2>1, <2>2, <2>3
    <3>3. CASE i < Len(candidate)
      <4>1. i \in 1..(Len(candidate) - 1) /\ i + 1 \in 1..Len(candidate) BY <3>1, <3>3, <2>2
      <4> QED BY <4>1, <3>1, <1>1, <2>3
    <3> QED BY <3>1, <3>2, <3>3, <2>2
  <2> QED BY <2>1, <2>2, <2>3, <2>4 DEF kept
<1> QED BY <1>2, <1>3

(* The choice of the peer's stream.                                        *)
Selected ==
    /\ source \in Streams \cup {None} /\ retired \in Streams \cup {None}
    /\ pending \in BOOLEAN /\ lastReceived \in 0..clock

LEMMA StreamStays ==
    ASSUME Inv, NEW packet \in ThePackets, clock' = clock,
           \/ Ignores \/ Hears(packet)
           \/ ~pending /\ (OnProbation(packet) \/ EndsProbation(packet))
    PROVE  /\ playout' = playout \/ Joined(playout, playout')
           /\ Kept' /\ Selected'
<1>1. /\ Selected /\ Kept /\ clock \in Nat /\ Good(playout)
      /\ playout.anchor = None <=> playout.next = None
  BY DEF Inv, TypeOK, Paced, Selected
<1>2. packet.stream \in Streams /\ packet.timestamp \in Int BY PacketIs, WidthIs
<1>3. (candidate' = <<>>) => Kept'
  <2>1. <<>> \in Seq(ThePackets) /\ Len(<<>>) = 0 /\ 1..(Len(<<>>) - 1) = {} OBVIOUS
  <2> QED BY <2>1 DEF Kept
<1>4. CASE Ignores
  <2>1. UNCHANGED <<source, pending, retired, candidate, lastReceived, playout>>
    BY <1>4 DEF Ignores, stream
  <2> QED BY <2>1, <1>1 DEF Kept, Selected
<1>5. CASE ~pending /\ OnProbation(packet)
  <2>1. /\ Len(Probation(packet)) < 3 /\ candidate' = Probation(packet)
        /\ UNCHANGED <<source, pending, retired, lastReceived, playout>>
    BY <1>5 DEF OnProbation
  <2>2. /\ Probation(packet) \in Seq(ThePackets)
        /\ \A i \in 1..(Len(Probation(packet)) - 1) :
              Follows(Probation(packet)[i], Probation(packet)[i + 1])
    BY ProbationIs
  <2>3. Kept' BY <2>1, <2>2, <1>5 DEF Kept
  <2>4. Selected' BY <2>1, <1>1 DEF Selected
  <2> QED BY <2>1, <2>3, <2>4
<1>6. CASE EndsProbation(packet)
  <2> DEFINE kept == Probation(packet)
             p0 == Restart(playout, Head(kept).timestamp)
             p1 == Insert(p0, kept[1])
             p2 == Insert(p1, kept[2])
             p3 == Insert(p2, kept[3])
  <2>1. kept \in Seq(ThePackets) /\ Len(kept) = 3
    BY <1>6, ProbationIs DEF EndsProbation
  <2>2. playout' = p3
    BY <1>6 DEF EndsProbation, InsertAll
  <2> HIDE DEF kept
  <2>3. kept[1] \in ThePackets /\ kept[2] \in ThePackets /\ kept[3] \in ThePackets
        /\ Head(kept) = kept[1]
    <3>1. kept \in [1..3 -> ThePackets] BY <2>1, LenProperties
    <3>2. Head(kept) = kept[1] BY <2>1
    <3> QED BY <3>1, <3>2
  <2>4. Joined(playout, p0)
    <3>1. Head(kept).timestamp \in Int BY <2>3, PacketIs, WidthIs
    <3> QED BY <3>1, <1>1, RestartJoins
  <2> HIDE DEF p0
  <2>5. Joined(p0, p1) BY <2>3, <2>4, <1>1, InsertJoins DEF Joined
  <2> HIDE DEF p1
  <2>6. Joined(p1, p2) BY <2>3, <2>5, <1>1, InsertJoins DEF Joined
  <2> HIDE DEF p2
  <2>7. Joined(p2, p3) BY <2>3, <2>6, <1>1, InsertJoins DEF Joined
  <2> HIDE DEF p3
  <2>8. Good(p0) /\ Good(p1) /\ Good(p2) BY <2>4, <2>5, <2>6 DEF Joined
  <2>9. Joined(playout, p1) BY <2>4, <2>5, <2>8, <1>1, JoinedTwice
  <2>10. Joined(playout, p2) BY <2>9, <2>6, <2>8, <1>1, JoinedTwice
  <2>11. Joined(playout, playout') BY <2>10, <2>7, <2>2, <2>8, <1>1, JoinedTwice
  <2>12. /\ candidate' = <<>> /\ retired' = source /\ source' = packet.stream
         /\ lastReceived' = clock /\ pending' = pending
    BY <1>6 DEF EndsProbation
  <2>13. Selected' BY <2>12, <1>1, <1>2 DEF Selected
  <2> QED BY <2>11, <2>12, <2>13, <1>3
<1>7. CASE Hears(packet)
  <2> DEFINE p0 == IF source # packet.stream THEN Restart(playout, packet.timestamp) ELSE playout
  <2>1. playout' = Insert(p0, packet) BY <1>7 DEF Hears
  <2>2. /\ Good(p0)
        /\ p0.anchor = None <=> p0.next = None
        /\ p0 = playout \/ Joined(playout, p0)
    <3>1. CASE source # packet.stream
      <4>1. Joined(playout, p0) BY <3>1, <1>1, <1>2, RestartJoins
      <4> QED BY <4>1 DEF Joined
    <3>2. CASE source = packet.stream BY <3>2, <1>1
    <3> QED BY <3>1, <3>2
  <2> HIDE DEF p0
  <2>3. Joined(p0, playout') BY <2>1, <2>2, <1>1, InsertJoins
  <2>4. Joined(playout, playout') BY <2>2, <2>3, <1>1, JoinedTwice
  <2>5. /\ candidate' = <<>> /\ retired' \in {source, retired} /\ source' = packet.stream
        /\ lastReceived' = clock /\ pending' = FALSE
    BY <1>7 DEF Hears
  <2>6. /\ source' \in Streams \cup {None} /\ retired' \in Streams \cup {None}
        /\ pending' \in BOOLEAN
    BY <2>5, <1>1, <1>2 DEF Selected
  <2>7. lastReceived' \in 0..clock' BY <2>5, <1>1
  <2>8. Selected' BY <2>6, <2>7 DEF Selected
  <2> QED BY <2>4, <2>5, <2>8, <1>3
<1> QED BY <1>4, <1>5, <1>6, <1>7

(* The type invariant of the parts.                                        *)
LEMMA TypesStay ==
    ASSUME clock' \in Nat, nextFrame' \in Nat, turns' \in 0..CatchUp,
           phase' \in {"idle", "receiving", "draining", "ended", "failed"},
           Selected', Good(playout'), Routed', Kept'
    PROVE  TypeOK'
<1>1. /\ lastReceived' \in 0..clock' /\ source' \in Streams \cup {None}
      /\ retired' \in Streams \cup {None} /\ pending' \in BOOLEAN
  BY DEF Selected
<1>2. Len(candidate') < 3 /\ \A i \in DOMAIN candidate' : candidate'[i].stream \in Streams
  <2>1. candidate' \in Seq(ThePackets) BY DEF Kept
  <2>2. ASSUME NEW i \in DOMAIN candidate' PROVE candidate'[i].stream \in Streams
    <3>1. candidate'[i] \in ThePackets BY <2>1, <2>2, ElementOfSeq, LenProperties
    <3> QED BY <3>1, PacketIs
  <2> QED BY <2>2 DEF Kept
<1>3. peer'.pinned \in BOOLEAN /\ (peer'.candidate # None => peer'.candidate.count \in 1..3)
  BY DEF Routed, Candidates
<1>4. /\ \A i \in Slots : playout'.ring[i] \in Samples \cup {None}
      /\ playout'.cursor \in Int /\ playout'.end \in Int /\ playout'.started \in BOOLEAN
      /\ playout'.anchor \in 0..(Wrap - 1) \cup {None}
  BY DEF Good, Playouts
<1> QED BY <1>1, <1>2, <1>3, <1>4 DEF TypeOK

LEMMA DatagramStays ==
    ASSUME Inv, NEW d \in Datagrams, Datagram(d)
    PROVE  Inv'
<1> DEFINE packet == Packet(d)
           answer == Accept(d.from, packet)
<1>1. packet \in ThePackets BY DEF ThePackets
<1>2. /\ phase # "ended" /\ peer' = answer.peer
      /\ taken' = IF answer.taken THEN taken \cup {d.from} ELSE taken
      /\ \/ Ignores \/ Hears(packet)
         \/ ~pending /\ (OnProbation(packet) \/ EndsProbation(packet))
  BY DEF Datagram
<1>3. UNCHANGED <<clock, phase, nextFrame, turns, played>> BY DEF Datagram, worker
<1>4. Routed' BY <1>2, RouteStays
<1> HIDE DEF packet, answer
<1>5. /\ playout' = playout \/ Joined(playout, playout')
      /\ Kept' /\ Selected'
  BY <1>1, <1>2, <1>3, StreamStays
<1>6. Good(playout') /\ Paced' /\ Heard'
  <2>1. CASE playout' = playout
    <3>1. Good(playout) /\ Paced /\ Heard BY DEF Inv
    <3>2. \A j : Before(j)' = Before(j) BY <2>1, <1>3 DEF Before
    <3>3. Paced' BY <3>1, <2>1, <1>3 DEF Paced
    <3>4. Heard' BY <3>1, <3>2, <2>1, <1>3 DEF Heard
    <3> QED BY <2>1, <3>1, <3>3, <3>4
  <2>2. CASE Joined(playout, playout') BY <2>2, <1>2, <1>3, AudioStays
  <2> QED BY <1>5, <2>1, <2>2
<1>7. TypeOK'
  <2>1. /\ clock' \in Nat /\ nextFrame' \in Nat /\ turns' \in 0..CatchUp
        /\ phase' \in {"idle", "receiving", "draining", "ended", "failed"}
    BY <1>3 DEF Inv, TypeOK
  <2> QED BY <2>1, <1>4, <1>5, <1>6, TypesStay
<1> QED BY <1>4, <1>5, <1>6, <1>7 DEF Inv
-----------------------------------------------------------------------------
(* A step that leaves the ring and what was heard alone.                   *)
LEMMA AudioUnchanged ==
    ASSUME Inv, UNCHANGED <<playout, played>>,
           clock' \in Nat, clock <= clock', clock' <= MaxClock,
           phase' = "ended" <=> phase = "ended"
    PROVE  Good(playout') /\ Paced' /\ Heard'
<1>1. playout' = playout /\ played' = played /\ Good(playout) /\ Paced /\ Heard /\ clock \in Nat
  BY DEF Inv, TypeOK
<1>2. \A j : Before(j)' = Before(j) BY <1>1 DEF Before
<1>3. \A n : n \in 0..clock => n \in 0..clock' BY <1>1
<1>4. Paced' BY <1>1, <1>3 DEF Paced
<1>5. Heard' BY <1>1, <1>2 DEF Heard
<1> QED BY <1>1, <1>4, <1>5

(* Samples that leave the ring join what was heard.                        *)
LEMMA FrameHeard ==
    ASSUME Inv, NEW count \in 0..Capacity, playout'.cursor = playout.cursor + count,
           played' = played \o Frame(playout, count)
    PROVE  /\ played' \in Seq(Samples \cup {Silence})
           /\ -Capacity <= playout'.cursor - Len(played')
           /\ \A j \in 1..Len(played') : played'[j] # Silence =>
                 Belongs(played'[j], Before(j)') /\ Short(played'[j])
<1> DEFINE f == Frame(playout, count)
           n == Len(played)
           cur == playout.cursor
<1>1. /\ played \in Seq(Samples \cup {Silence}) /\ n \in Nat /\ -Capacity <= cur - n
      /\ \A j \in 1..n : played[j] # Silence => Belongs(played[j], Before(j)) /\ Short(played[j])
  BY DEF Inv, Heard
<1>2. cur \in Int /\ Capacity \in Nat /\ count \in Nat BY WidthIs DEF Inv, TypeOK
<1>3. /\ f \in Seq(Samples \cup {Silence}) /\ Len(f) = count
      /\ \A k \in 1..count : f[k] # Silence => Belongs(f[k], cur + k - 1) /\ Short(f[k])
  BY FrameIs DEF Inv
<1>a. played' = played \o f OBVIOUS
<1> HIDE DEF f
<1>4. /\ played' \in Seq(Samples \cup {Silence}) /\ Len(played') = n + count
      /\ \A j \in 1..(n + count) : played'[j] = IF j <= n THEN played[j] ELSE f[j - n]
  BY <1>1, <1>3, <1>a, ConcatProperties
<1>5. \A j \in Int : Before(j)' = cur - n + j - 1 /\ Before(j) = cur - n + j - 1
  <2> SUFFICES ASSUME NEW j \in Int
               PROVE  Before(j)' = cur - n + j - 1 /\ Before(j) = cur - n + j - 1
    OBVIOUS
  <2>1. Before(j)' = (cur + count) - (n + count) + j - 1 BY <1>4 DEF Before
  <2>2. Before(j) = cur - n + j - 1 BY DEF Before
  <2> HIDE DEF cur, n
  <2>3. (cur + count) - (n + count) + j - 1 = cur - n + j - 1 BY <1>1, <1>2
  <2> QED BY <2>1, <2>2, <2>3
<1>6. playout'.cursor - Len(played') = cur - n
  <2>1. playout'.cursor - Len(played') = (cur + count) - (n + count) BY <1>4
  <2> HIDE DEF cur, n
  <2> QED BY <2>1, <1>1, <1>2
<1> HIDE DEF cur, n
<1>7. ASSUME NEW j \in 1..(n + count), played'[j] # Silence
      PROVE  Belongs(played'[j], Before(j)') /\ Short(played'[j])
  <2>a. j \in Int BY <1>1, <1>2
  <2>0. j \in Int /\ Before(j)' = cur - n + j - 1 /\ Before(j) = cur - n + j - 1
    BY <2>a, <1>5
  <2>1. CASE j <= n
    <3>1. j \in 1..n /\ played'[j] = played[j] BY <2>1, <1>1, <1>2, <1>4
    <3>2. Belongs(played[j], Before(j)) /\ Short(played[j]) BY <3>1, <1>1, <1>7
    <3> QED BY <3>1, <3>2, <2>0
  <2>2. CASE ~(j <= n)
    <3> DEFINE k == j - n
    <3>1. k \in 1..count /\ played'[j] = f[k] BY <2>2, <2>0, <1>1, <1>2, <1>4
    <3>2. cur + k - 1 = cur - n + j - 1 BY <2>0, <1>1, <1>2
    <3> HIDE DEF k
    <3>3. Belongs(f[k], cur + k - 1) /\ Short(f[k]) BY <3>1, <1>3, <1>7
    <3> QED BY <3>1, <3>2, <3>3, <2>0
  <2> QED BY <2>1, <2>2
<1> QED BY <1>1, <1>4, <1>6, <1>7

LEMMA PlayStays ==
    ASSUME Inv, Play
    PROVE  Inv'
<1> DEFINE q == TakeFrame(playout, FrameSamples)
<1>1. /\ phase = "receiving" /\ playout.next # None /\ playout.next <= clock
      /\ turns < CatchUp /\ turns' = turns + 1
      /\ played' = played \o Frame(playout, FrameSamples)
      /\ playout' = [q EXCEPT !.next = @ + 1, !.started = TRUE]
      /\ UNCHANGED <<clock, phase, nextFrame, lastReceived, source, pending, retired, candidate,
                     peer, taken>>
  BY DEF Play, Due, route, stream
<1>2. FrameSamples \in 0..Capacity BY WidthIs
<1>3. /\ Good(q) /\ q.cursor = playout.cursor + FrameSamples /\ q.end = playout.end
      /\ q.anchor = playout.anchor /\ q.next = playout.next /\ q.started = playout.started
  BY <1>2, TakeFrameIs DEF Inv
<1> HIDE DEF q
<1>4. q \in [ring : [Slots -> Samples \cup {None}], anchor : 0..(Wrap - 1) \cup {None},
             cursor : Int, end : Int, next : Nat \cup {None}, started : BOOLEAN]
  BY <1>3 DEF Good, Playouts
<1>5. /\ clock \in Nat /\ clock <= MaxClock /\ playout.next - Delay \in 0..clock
      /\ playout.next \in Nat /\ playout.cursor \in Int
      /\ playout.cursor <= (playout.next - Delay) * FrameSamples
      /\ playout.anchor # None
  BY <1>1, <1>3, <1>4 DEF Inv, TypeOK, Paced
<1>6. /\ playout'.ring = q.ring /\ playout'.anchor = q.anchor /\ playout'.cursor = q.cursor
      /\ playout'.end = q.end /\ playout'.next = playout.next + 1 /\ playout'.started = TRUE
      /\ playout' \in [ring : [Slots -> Samples \cup {None}], anchor : 0..(Wrap - 1) \cup {None},
                       cursor : Int, end : Int, next : Nat \cup {None}, started : BOOLEAN]
  <2>1. playout' = [q EXCEPT !.next = q.next + 1, !.started = TRUE] BY <1>1, <1>4
  <2>2. q.next + 1 \in Nat /\ q.next = playout.next BY <1>3, <1>5
  <2> QED BY <2>1, <2>2, <1>4
<1>7. Good(playout')
  <2>1. \A i : Position(playout', i) = Position(q, i) BY <1>6 DEF Position
  <2> QED BY <2>1, <1>3, <1>6 DEF Good, InRing, Playouts
<1>8. Paced'
  <2> DEFINE n == playout.next - Delay
  <2>a. playout'.next = playout.next + 1 BY <1>6
  <2>b. playout.next <= clock BY <1>1
  <2>1. n + 1 \in 0..clock /\ playout'.next - Delay = n + 1 BY <2>a, <2>b, <1>5, WidthIs
  <2>2. n \in Nat /\ playout.cursor <= n * FrameSamples BY <1>5
  <2> HIDE DEF n
  <2>3. (n + 1) * FrameSamples = n * FrameSamples + FrameSamples /\ n * FrameSamples \in Nat
    BY <2>2, WidthIs
  <2>4. playout'.cursor <= (n + 1) * FrameSamples BY <2>2, <2>3, <1>3, <1>5, <1>6, WidthIs
  <2>5. (n + 1) * FrameSamples \in Int /\ (n + 1) * FrameSamples <= MaxClock * FrameSamples
    BY <2>1, <1>5, MulMono, WidthIs
  <2>6. playout'.cursor <= MaxClock * FrameSamples + Capacity
    BY <2>4, <2>5, <1>6, WidthIs
  <2>7. playout'.next # None /\ playout'.anchor # None
    BY <1>3, <1>5, <1>6, MediaAssumption DEF MediaAssumption
  <2>8. playout'.next - Delay \in 0..clock' BY <2>1, <1>1
  <2>9. playout'.cursor <= (playout'.next - Delay) * FrameSamples
    <3>1. (playout'.next - Delay) * FrameSamples = (n + 1) * FrameSamples BY <2>1
    <3> QED BY <3>1, <2>4, Zenon
  <2> QED BY <2>6, <2>7, <2>8, <2>9, <1>1, <1>5 DEF Paced
<1>9. Heard'
  <2>1. playout'.cursor = playout.cursor + FrameSamples BY <1>3, <1>6
  <2>2. /\ played' \in Seq(Samples \cup {Silence})
        /\ -Capacity <= playout'.cursor - Len(played')
        /\ \A j \in 1..Len(played') : played'[j] # Silence =>
              Belongs(played'[j], Before(j)') /\ Short(played'[j])
    BY <2>1, <1>1, <1>2, FrameHeard
  <2> QED BY <2>2, <1>1, <1>6 DEF Heard
<1>10. Selected' /\ Routed' /\ Kept'
  BY <1>1 DEF Inv, TypeOK, Selected, Routed, Kept
<1>11. TypeOK'
  <2>a. CatchUp \in Nat BY MediaAssumption DEF MediaAssumption
  <2>b. turns \in 0..CatchUp BY DEF Inv, TypeOK
  <2>1. turns' \in 0..CatchUp BY <1>1, <2>a, <2>b
  <2>2. /\ clock' \in Nat /\ nextFrame' \in Nat
        /\ phase' \in {"idle", "receiving", "draining", "ended", "failed"}
    BY <1>1 DEF Inv, TypeOK
  <2> QED BY <2>1, <2>2, <1>7, <1>10, TypesStay
<1> QED BY <1>7, <1>8, <1>9, <1>10, <1>11 DEF Inv

LEMMA DrainStays ==
    ASSUME Inv, Drain
    PROVE  Inv'
<1> DEFINE count == Remaining(playout)
<1>1. /\ phase = "draining" /\ phase' = "ended"
      /\ played' = played \o Frame(playout, count)
      /\ playout' = TakeFrame(playout, count)
      /\ UNCHANGED <<clock, nextFrame, turns, lastReceived, source, pending, retired, candidate,
                     peer, taken>>
  BY DEF Drain, route, stream
<1>2. /\ playout.cursor \in Int /\ playout.end \in Int /\ Good(playout)
      /\ playout.end <= playout.cursor + Capacity /\ clock \in Nat /\ clock <= MaxClock
  BY DEF Inv, TypeOK, Good, Paced
<1>3. /\ count \in 0..Capacity /\ playout.end <= playout.cursor + count
      /\ playout.cursor = 0 /\ playout.end = 0 => count = 0
  BY <1>2, WidthIs DEF Remaining, Larger
<1> HIDE DEF count
<1>4. /\ Good(playout') /\ playout'.cursor = playout.cursor + count
      /\ playout'.end = playout.end /\ playout'.anchor = playout.anchor
      /\ playout'.next = playout.next /\ playout'.started = playout.started
      /\ playout.end <= playout'.cursor => \A i \in Slots : playout'.ring[i] = None
  BY <1>1, <1>2, <1>3, TakeFrameIs
<1>5. playout.cursor <= MaxClock * FrameSamples
  <2>1. CASE playout.next = None
    <3>1. playout.cursor = 0 BY <2>1 DEF Inv, Paced
    <3> QED BY <3>1, WidthIs
  <2>2. CASE playout.next # None
    <3> DEFINE n == playout.next - Delay
    <3>1. n \in 0..clock /\ playout.cursor <= n * FrameSamples
      BY <2>2, <1>1 DEF Inv, Paced
    <3> HIDE DEF n
    <3>2. n * FrameSamples \in Int /\ n * FrameSamples <= MaxClock * FrameSamples
      BY <3>1, <1>2, MulMono, WidthIs
    <3> QED BY <3>1, <3>2, <1>2, WidthIs
  <2> QED BY <2>1, <2>2
<1>6. Paced'
  <2>1. playout'.cursor <= MaxClock * FrameSamples + Capacity
    BY <1>2, <1>3, <1>4, <1>5, WidthIs
  <2>2. playout.next = None => playout'.cursor = 0 /\ playout'.end = 0
    BY <1>2, <1>3, <1>4 DEF Inv, Paced
  <2> QED BY <2>1, <2>2, <1>1, <1>4 DEF Inv, Paced
<1>7. Heard'
  <2>1. /\ played' \in Seq(Samples \cup {Silence})
        /\ -Capacity <= playout'.cursor - Len(played')
        /\ \A j \in 1..Len(played') : played'[j] # Silence =>
              Belongs(played'[j], Before(j)') /\ Short(played'[j])
    BY <1>1, <1>3, <1>4, FrameHeard
  <2>2. \A i \in Slots : playout'.ring[i] = None BY <1>3, <1>4
  <2> QED BY <2>1, <2>2, <1>1 DEF Heard
<1>8. Selected' /\ Routed' /\ Kept'
  BY <1>1 DEF Inv, TypeOK, Selected, Routed, Kept
<1>9. TypeOK'
  <2>1. clock' \in Nat /\ nextFrame' \in Nat /\ turns' \in 0..CatchUp
    BY <1>1 DEF Inv, TypeOK
  <2> QED BY <2>1, <1>1, <1>4, <1>8, TypesStay
<1> QED BY <1>4, <1>6, <1>7, <1>8, <1>9 DEF Inv

LEMMA InitIs == Init => Inv
<1> SUFFICES ASSUME Init PROVE Inv OBVIOUS
<1>1. /\ clock = 0 /\ nextFrame = 0 /\ turns = 0 /\ phase = "idle" /\ lastReceived = 0
      /\ source = None /\ pending = FALSE /\ retired = None /\ candidate = <<>>
      /\ playout = NewPlayout /\ played = <<>> /\ taken = {}
  BY DEF Init
<1>2. /\ playout.ring = [i \in Slots |-> None] /\ playout.anchor = None /\ playout.cursor = 0
      /\ playout.end = 0 /\ playout.next = None /\ playout.started = FALSE
      /\ playout \in [ring : [Slots -> Samples \cup {None}], anchor : 0..(Wrap - 1) \cup {None},
                      cursor : Int, end : Int, next : Nat \cup {None}, started : BOOLEAN]
  BY <1>1 DEF NewPlayout
<1>3. Good(playout) BY <1>2, WidthIs DEF Good, InRing, Playouts
<1>4. Paced BY <1>1, <1>2, WidthIs DEF Paced
<1>5. Heard
  <2>1. played \in Seq(Samples \cup {Silence}) /\ Len(played) = 0 /\ 1..Len(played) = {}
    BY <1>1
  <2>2. -Capacity <= playout.cursor - Len(played) BY <2>1, <1>2, WidthIs
  <2> QED BY <2>1, <2>2, <1>1 DEF Heard
<1>6. Routed
  <2>1. PICK r \in Remotes : peer = NewPeer(r.address) BY DEF Init
  <2>2. r.address \in Addresses BY DEF Addresses
  <2>3. peer = [address |-> r.address, pinned |-> FALSE, candidate |-> None] BY <2>1 DEF NewPeer
  <2> QED BY <2>2, <2>3, <1>1 DEF Routed
<1>7. Kept
  <2>1. <<>> \in Seq(ThePackets) /\ Len(<<>>) = 0 /\ 1..(Len(<<>>) - 1) = {} OBVIOUS
  <2> QED BY <2>1, <1>1 DEF Kept
<1>8. TypeOK
  <2>1. turns \in 0..CatchUp
    <3>1. CatchUp \in Nat BY MediaAssumption DEF MediaAssumption
    <3> QED BY <3>1, <1>1
  <2>2. Len(candidate) < 3 /\ DOMAIN candidate = {} BY <1>1
  <2>3. peer.pinned \in BOOLEAN /\ (peer.candidate # None => peer.candidate.count \in 1..3)
    BY <1>6 DEF Routed, Candidates
  <2>4. /\ \A i \in Slots : playout.ring[i] \in Samples \cup {None}
        /\ playout.cursor \in Int /\ playout.end \in Int /\ playout.started \in BOOLEAN
        /\ playout.anchor \in 0..(Wrap - 1) \cup {None}
    BY <1>2
  <2>5. /\ clock \in Nat /\ nextFrame \in Nat /\ lastReceived \in 0..clock
        /\ phase \in {"idle", "receiving", "draining", "ended", "failed"}
        /\ source \in Streams \cup {None} /\ retired \in Streams \cup {None}
    BY <1>1
  <2>6. pending \in BOOLEAN BY <1>1
  <2> QED BY <2>1, <2>2, <2>3, <2>4, <2>5, <2>6 DEF TypeOK
<1> QED BY <1>3, <1>4, <1>5, <1>6, <1>7, <1>8 DEF Inv

LEMMA UpdateStays ==
    ASSUME Inv, NEW r \in Remotes, UpdateRemote(r)
    PROVE  Inv'
<1>1. /\ UNCHANGED <<clock, phase, nextFrame, turns, playout, played>>
      /\ candidate' = <<>>
  BY DEF UpdateRemote, worker
<1>2. clock \in Nat /\ clock <= MaxClock /\ Selected /\ Routed
  BY DEF Inv, TypeOK, Paced, Selected
<1>3. Good(playout') /\ Paced' /\ Heard' BY <1>1, <1>2, AudioUnchanged
<1>4. Kept'
  <2>1. <<>> \in Seq(ThePackets) /\ Len(<<>>) = 0 /\ 1..(Len(<<>>) - 1) = {} OBVIOUS
  <2> QED BY <2>1, <1>1 DEF Kept
<1>5. Selected' /\ Routed'
  <2>1. CASE signaled # r.address
    <3>1. /\ peer' = NewPeer(r.address) /\ taken' = {} /\ source' = None /\ pending' = FALSE
          /\ retired' = None /\ lastReceived' = clock
      BY <2>1 DEF UpdateRemote
    <3>2. Selected'
      <4>1. pending' \in BOOLEAN BY <3>1
      <4>2. lastReceived' \in 0..clock' BY <3>1, <1>1, <1>2
      <4>3. source' \in Streams \cup {None} /\ retired' \in Streams \cup {None} BY <3>1
      <4> QED BY <4>1, <4>2, <4>3 DEF Selected
    <3>3. r.address \in Addresses BY DEF Addresses
    <3>4. peer' = [address |-> r.address, pinned |-> FALSE, candidate |-> None]
      BY <3>1 DEF NewPeer
    <3>5. Routed' BY <3>1, <3>3, <3>4 DEF Routed
    <3> QED BY <3>2, <3>5
  <2>2. CASE signaled = r.address
    <3>1. pending' = TRUE /\ UNCHANGED <<peer, taken, source, retired, lastReceived>>
      BY <2>2 DEF UpdateRemote
    <3>2. Selected' BY <3>1, <1>1, <1>2 DEF Selected
    <3>3. Routed' BY <3>1, <1>2 DEF Routed
    <3> QED BY <3>2, <3>3
  <2> QED BY <2>1, <2>2
<1>6. TypeOK'
  <2>1. /\ clock' \in Nat /\ nextFrame' \in Nat /\ turns' \in 0..CatchUp
        /\ phase' \in {"idle", "receiving", "draining", "ended", "failed"}
    BY <1>1 DEF Inv, TypeOK
  <2> QED BY <2>1, <1>3, <1>4, <1>5, TypesStay
<1> QED BY <1>3, <1>4, <1>5, <1>6 DEF Inv

(* The worker's own steps: they leave the audio, the route and the stream. *)
LEMMA WorkerStays ==
    ASSUME Inv, Tick \/ StartFrame \/ EndFrame \/ Disconnect \/ UNCHANGED vars
    PROVE  Inv'
<1>1. UNCHANGED <<playout, played, source, pending, retired, candidate, lastReceived, peer, taken>>
  BY DEF Tick, StartFrame, EndFrame, Disconnect, vars, stream, route
<1>2. /\ clock \in Nat /\ clock <= MaxClock /\ Selected /\ nextFrame \in Nat
      /\ turns \in 0..CatchUp /\ CatchUp \in Nat /\ MaxClock \in Nat
      /\ phase \in {"idle", "receiving", "draining", "ended", "failed"}
  <2>1. CatchUp \in Nat /\ MaxClock \in Nat BY MediaAssumption DEF MediaAssumption
  <2> QED BY <2>1 DEF Inv, TypeOK, Paced, Selected
<1>3. /\ clock' \in Nat /\ clock <= clock' /\ clock' <= MaxClock
      /\ nextFrame' \in Nat /\ turns' \in 0..CatchUp
      /\ phase' \in {"idle", "receiving", "draining", "ended", "failed"}
      /\ phase' = "ended" <=> phase = "ended"
  <2>1. CASE Tick
    <3>1. clock < MaxClock /\ clock' = clock + 1 /\ UNCHANGED <<phase, nextFrame, turns>>
      BY <2>1 DEF Tick, worker
    <3> QED BY <3>1, <1>2
  <2>2. CASE StartFrame
    <3>1. /\ nextFrame' = 1 + (IF clock - nextFrame > Slack THEN clock ELSE nextFrame)
          /\ phase = "idle" /\ phase' = "receiving" /\ turns' = 0 /\ clock' = clock
      BY <2>2 DEF StartFrame
    <3>2. nextFrame' \in Nat BY <3>1, <1>2
    <3> QED BY <3>1, <3>2, <1>2
  <2>3. CASE EndFrame
    <3>1. /\ phase = "receiving" /\ phase' \in {"failed", "idle"} /\ turns' = 0
          /\ UNCHANGED <<clock, nextFrame>>
      BY <2>3 DEF EndFrame
    <3> QED BY <3>1, <1>2
  <2>4. CASE Disconnect
    <3>1. /\ phase = "idle" /\ phase' = "draining" /\ UNCHANGED <<clock, nextFrame, turns>>
      BY <2>4 DEF Disconnect
    <3> QED BY <3>1, <1>2
  <2>5. CASE UNCHANGED vars
    <3>1. UNCHANGED <<clock, phase, nextFrame, turns>> BY <2>5 DEF vars, worker
    <3> QED BY <3>1, <1>2
  <2> QED BY <2>1, <2>2, <2>3, <2>4, <2>5
<1>4. Good(playout') /\ Paced' /\ Heard' BY <1>1, <1>3, AudioUnchanged
<1>5. Routed' /\ Kept' BY <1>1 DEF Inv, Routed, Kept
<1>6. Selected'
  <2>1. lastReceived \in 0..clock BY <1>2 DEF Selected
  <2>2. lastReceived' \in 0..clock' BY <2>1, <1>1, <1>2, <1>3
  <2>3. /\ source' \in Streams \cup {None} /\ retired' \in Streams \cup {None}
        /\ pending' \in BOOLEAN
    BY <1>1, <1>2 DEF Selected
  <2> QED BY <2>2, <2>3 DEF Selected
<1>7. TypeOK' BY <1>3, <1>4, <1>5, <1>6, TypesStay
<1> QED BY <1>4, <1>5, <1>6, <1>7 DEF Inv

(* The invariant of a call's audio: the ring and what was heard are where  *)
(* the timestamps place them, in a window that does not run ahead of the   *)
(* clock; the route and the packets on probation are in order.             *)
THEOREM Invariant == Spec => []Inv
<1>1. Init => Inv BY InitIs
<1>2. Inv /\ [Next]_vars => Inv'
  <2> SUFFICES ASSUME Inv, [Next]_vars PROVE Inv' OBVIOUS
  <2>1. ASSUME NEW d \in Datagrams, Datagram(d) PROVE Inv' BY <2>1, DatagramStays
  <2>2. ASSUME NEW r \in Remotes, UpdateRemote(r) PROVE Inv' BY <2>2, UpdateStays
  <2>3. CASE Play BY <2>3, PlayStays
  <2>4. CASE Drain BY <2>4, DrainStays
  <2>5. CASE Tick \/ StartFrame \/ EndFrame \/ Disconnect \/ UNCHANGED vars
    BY <2>5, WorkerStays
  <2> QED BY <2>1, <2>2, <2>3, <2>4, <2>5 DEF Next
<1> QED BY <1>1, <1>2, PTL DEF Spec

(* The state of a call's audio has its type: positions of samples stay     *)
(* integers, a packet of the probation is of a stream of the call.         *)
THEOREM TypeCorrect == Spec => []TypeOK
<1>1. Inv => TypeOK BY DEF Inv
<1> QED BY <1>1, Invariant, PTL

(* Every slot of the ring holds the sample of its own position, before the *)
(* end, and at the end of the call none is left (playout.rs).              *)
THEOREM RingIsRight == Spec => []RingAgrees
<1>1. Inv => RingAgrees
  BY DEF Inv, RingAgrees, Good, InRing, Heard
<1> QED BY <1>1, Invariant, PTL

(* Packets are taken from one address between two addresses of the SDP     *)
(* (nat.rs).                                                               *)
THEOREM PeerIsPinned == Spec => []OnePeer
<1>1. Inv => OnePeer BY DEF Inv, Routed, OnePeer
<1> QED BY <1>1, Invariant, PTL

(* Two samples of one stream are heard as far apart as they were spoken:   *)
(* they belong where they were heard, and a call is too short for two      *)
(* places of it to be congruent without being equal.                       *)
THEOREM NothingIsShifted == Spec => []SamplesInPlace
<1>1. Inv => SamplesInPlace
  <2> SUFFICES ASSUME Inv, NEW i \in DOMAIN played, NEW j \in DOMAIN played,
                      i < j, played[i] # Silence, played[i].stream = played[j].stream,
                      played[i].anchor = played[j].anchor
               PROVE  played[j].place - played[i].place = j - i
    BY DEF SamplesInPlace
  <2> DEFINE n == Len(played)
             s == played[i]
             t == played[j]
             cur == playout.cursor
             f == First[s.stream].timestamp
  <2>1. /\ played \in Seq(Samples \cup {Silence}) /\ n \in Nat /\ -Capacity <= cur - n
        /\ cur <= MaxClock * FrameSamples + Capacity /\ cur \in Int
        /\ \A k \in 1..n : played[k] # Silence => Belongs(played[k], Before(k)) /\ Short(played[k])
    BY DEF Inv, Heard, Paced, TypeOK
  <2>2. i \in 1..n /\ j \in 1..n BY <2>1, LenProperties
  <2>3. s \in Samples BY <2>1, <2>2, ElementOfSeq
  <2>4. t \in Samples /\ t # Silence
    <3>1. t \in Samples \cup {Silence} BY <2>1, <2>2, ElementOfSeq
    <3>2. s.stream \in Streams /\ None \notin Streams
      BY <2>3, MediaAssumption DEF Samples, MediaAssumption
    <3>3. t.stream # None BY <3>2
    <3> QED BY <3>1, <3>3 DEF Silence
  <2>5. /\ Belongs(s, Before(i)) /\ Short(s) /\ Belongs(t, Before(j)) /\ Short(t)
    BY <2>1, <2>2, <2>4
  <2>6. /\ s.place \in Nat /\ t.place \in Nat /\ s.anchor \in Int /\ s.stream \in Streams
        /\ t.anchor = s.anchor /\ t.stream = s.stream
    BY <2>3, <2>4, WidthIs DEF Samples
  <2>7. f \in Nat BY <2>6, MediaAssumption DEF MediaAssumption
  <2>8. /\ (f + s.place - s.anchor - Before(i)) % Wrap = 0
        /\ (f + t.place - s.anchor - Before(j)) % Wrap = 0
    BY <2>5, <2>6 DEF Belongs
  <2>9. Before(i) = cur - n + i - 1 /\ Before(j) = cur - n + j - 1 BY DEF Before
  <2> DEFINE x == f + s.place - s.anchor - (cur - n + i - 1)
             y == f + t.place - s.anchor - (cur - n + j - 1)
             w == MaxClock * FrameSamples
  <2>10. 2 * (s.place + 1) <= Wrap /\ 2 * (t.place + 1) <= Wrap BY <2>5 DEF Short
  <2>11. w \in Nat /\ cur <= w + Capacity /\ 2 * (w + 3 * Capacity) <= Wrap
    BY <2>1, WidthIs
  <2>12. x % Wrap = 0 /\ y % Wrap = 0 BY <2>8, <2>9
  <2>13. i < j /\ i \in Int /\ j \in Int BY <2>1, <2>2
  <2> DEFINE a == s.place
             b == t.place
             h == s.anchor
  <2>14. /\ a \in Nat /\ b \in Nat /\ h \in Int /\ f \in Nat /\ n \in Nat /\ cur \in Int
         /\ 2 * (a + 1) <= Wrap /\ 2 * (b + 1) <= Wrap /\ i <= n /\ j <= n /\ 1 <= i
         /\ -Capacity <= cur - n
    BY <2>1, <2>2, <2>6, <2>7, <2>10
  <2> HIDE DEF n, cur, f, w, a, b, h
  <2>15. x \in Int /\ y \in Int /\ y - x = (b - a) - (j - i)
    <3>1. x = f + a - h - (cur - n + i - 1) /\ y = f + b - h - (cur - n + j - 1)
      BY DEF a, b, h
    <3> HIDE DEF x, y
    <3> QED BY <3>1, <2>13, <2>14
  <2> HIDE DEF x, y
  <2>16. -Wrap < y - x /\ y - x < Wrap
    <3>1. j - i < n /\ j - i > 0 BY <2>13, <2>14
    <3>2. n <= w + 2 * Capacity BY <2>11, <2>14, WidthIs
    <3> QED BY <3>1, <3>2, <2>11, <2>13, <2>14, <2>15, WidthIs
  <2>17. PICK k \in Int : x = Wrap * k + 0
    <3>1. \E q \in Int : x = Wrap * q + (x % Wrap) BY <2>15, ModIs, WidthIs
    <3> QED BY <3>1, <2>12
  <2>18. PICK m \in Int : y = Wrap * m + 0
    <3>1. \E q \in Int : y = Wrap * q + (y % Wrap) BY <2>15, ModIs, WidthIs
    <3> QED BY <3>1, <2>12
  <2>19. y - x = Wrap * (m - k) /\ m - k \in Int BY <2>17, <2>18, WidthIs
  <2>20. y = x BY <2>15, <2>16, <2>19, CongruentAreEqual, WidthIs
  <2>21. b - a = j - i BY <2>13, <2>14, <2>15, <2>20
  <2> QED BY <2>21 DEF a, b
<1> QED BY <1>1, Invariant, PTL
-----------------------------------------------------------------------------
(* The end of the probation: its packets are put behind all that is        *)
(* buffered.  A timestamp is at position x if it is x after the anchor, up *)
(* to the width.                                                           *)
At(t, anchor, x) == \E k \in Int : t - anchor = Wrap * k + x

LEMMA OffsetOf ==
    ASSUME NEW p, NEW packet, NEW e \in Nat, 2 * (e + 1) <= Wrap,
           packet.timestamp - Anchor(p, packet) \in Int,
           At(packet.timestamp, Anchor(p, packet), e)
    PROVE  Offset(p, packet) = e
<1> DEFINE d == packet.timestamp - Anchor(p, packet)
<1>1. d \in Int /\ \E k \in Int : d = Wrap * k + e BY DEF At
<1>2. Offset(p, packet) = Signed(d) BY DEF Offset
<1> HIDE DEF d
<1>3. Signed(d) = e BY <1>1, SignedOf
<1> QED BY <1>2, <1>3

LEMMA FollowsOn ==
    ASSUME NEW q \in ThePackets, NEW r \in ThePackets, Follows(q, r)
    PROVE  /\ r.stream = q.stream
           /\ r.number * Length[r.stream] = q.number * Length[q.stream] + Length[q.stream]
<1> DEFINE l == Length[q.stream]
           f == First[q.stream].timestamp
           m == q.number * l
           n == r.number * l
           t == q.timestamp
           u == r.timestamp
<1>0. Wrap \in Nat \ {0} /\ Capacity \in Nat BY WidthIs
<1>1. r.stream = q.stream /\ u = (t + l) % Wrap BY DEF Follows
<1>2. /\ t \in 0..(Wrap - 1) /\ l \in 1..Capacity /\ f \in Nat /\ m \in Nat
      /\ 2 * (m + l) <= Wrap /\ \E k \in Int : f + m = Wrap * k + t
  BY PacketIs
<1>3. /\ u \in 0..(Wrap - 1) /\ n \in Nat /\ 2 * (n + l) <= Wrap
      /\ \E k \in Int : f + n = Wrap * k + u
  BY <1>1, PacketIs
<1> HIDE DEF l, f, m, n, t, u
<1>4. PICK j \in Int : t + l = Wrap * j + u
  <2> DEFINE d == t + l
  <2>1. d \in Int BY <1>0, <1>2
  <2> HIDE DEF d
  <2>2. \E q1 \in Int : d = Wrap * q1 + (d % Wrap) BY <2>1, <1>0, ModIs
  <2>3. u = d % Wrap BY <1>1 DEF d
  <2> QED BY <2>2, <2>3 DEF d
<1>5. PICK k \in Int : f + m = Wrap * k + t BY <1>2
<1>6. PICK i \in Int : f + n = Wrap * i + u BY <1>3
<1>7. n - (m + l) = Wrap * (i - k - j) /\ i - k - j \in Int
  <2> DEFINE a == Wrap * i
             b == Wrap * k
             c == Wrap * j
  <2>1. Wrap * (i - k - j) = a - b - c /\ a \in Int /\ b \in Int /\ c \in Int BY <1>0
  <2>2. f + n = a + u /\ f + m = b + t /\ t + l = c + u BY <1>4, <1>5, <1>6
  <2> HIDE DEF a, b, c
  <2>3. n - (m + l) = a - b - c BY <2>1, <2>2, <1>0, <1>2, <1>3
  <2> QED BY <2>1, <2>3
<1>8. m + l \in Int /\ n \in Int /\ -Wrap < n - (m + l) /\ n - (m + l) < Wrap
  BY <1>0, <1>2, <1>3
<1> DEFINE y == m + l
<1>9. n - y = Wrap * (i - k - j) /\ y \in Int /\ -Wrap < n - y /\ n - y < Wrap
  BY <1>7, <1>8
<1> HIDE DEF y
<1>10. n = y BY <1>0, <1>7, <1>8, <1>9, CongruentAreEqual
<1> QED BY <1>1, <1>10 DEF y, l, m, n

(* A packet behind all that is buffered is held whole. *)
LEMMA InsertAtEnd ==
    ASSUME NEW p, Good(p), NEW packet \in ThePackets, clock \in Nat,
           NEW q, q = Insert(p, packet),
           NEW e \in Int, Offset(p, packet) = e, p.cursor <= e, p.end <= e,
           e + Length[packet.stream] <= p.cursor + Capacity
    PROVE  /\ Good(q) /\ q.cursor = p.cursor /\ q.anchor = Anchor(p, packet)
           /\ q.end <= e + Length[packet.stream]
           /\ \A i \in Slots : p.ring[i] # None => q.ring[i] = p.ring[i]
           /\ \A k \in 0..(Length[packet.stream] - 1) :
                 Holds(q, packet.stream, packet.number * Length[packet.stream] + k)
<1> DEFINE l == Length[packet.stream]
<1>1. Inserted(p, packet, q, e, l) BY InsertIs
<1>2. l \in 1..Capacity /\ Capacity \in Nat BY PacketIs, WidthIs
<1>3. p.cursor \in Int /\ p.end \in Int /\ p.cursor <= e /\ p.end <= e
      /\ e + l <= p.cursor + Capacity
  BY DEF Good, Playouts
<1> HIDE DEF l
<1>4. Cursor(p, e) = p.cursor BY <1>3 DEF Cursor, MovesBack
<1>5. /\ Good(q) /\ q.cursor = p.cursor /\ q.anchor = Anchor(p, packet)
      /\ q.end = p.end \/ q.end <= e + l
      /\ \A i \in Slots : p.ring[i] # None => q.ring[i] = p.ring[i]
  BY <1>1, <1>4 DEF Inserted
<1>6. q.end <= e + l BY <1>2, <1>3, <1>5
<1>7. ASSUME NEW k \in 0..(l - 1)
      PROVE  Holds(q, packet.stream, packet.number * l + k)
  <2> DEFINE y == e + k
             i == y % Capacity
  <2>1. y \in Int /\ p.cursor <= y /\ y < p.cursor + Capacity /\ p.end <= y
    BY <1>2, <1>3
  <2>2. i \in Slots /\ Position(p, i) = y
    <3> HIDE DEF y
    <3> QED BY <1>3, <2>1, PositionOf
  <2>3. p.ring[i] = None
    <3> HIDE DEF y, i
    <3>1. ~(Position(p, i) < p.end) BY <2>1, <2>2, <1>3
    <3> QED BY <2>2, <3>1 DEF Good, InRing
  <2>4. /\ q.ring[i] # None /\ q.ring[i].stream = packet.stream
        /\ q.ring[i].place = packet.number * l + k
    BY <1>1, <1>5, <2>1, <2>3 DEF Inserted
  <2> HIDE DEF i
  <2> QED BY <2>2, <2>4 DEF Holds
<1> QED BY <1>5, <1>6, <1>7 DEF l

LEMMA HoldsStays ==
    ASSUME NEW p, NEW q, \A i \in Slots : p.ring[i] # None => q.ring[i] = p.ring[i],
           NEW s, NEW place, Holds(p, s, place)
    PROVE  Holds(q, s, place)
  BY DEF Holds

LEMMA NextOffset ==
    ASSUME NEW q \in ThePackets, NEW r \in ThePackets, Follows(q, r),
           NEW anchor \in Int, NEW x \in Int, At(q.timestamp, anchor, x)
    PROVE  At(r.timestamp, anchor, x + Length[q.stream])
<1> DEFINE l == Length[q.stream]
           t == q.timestamp
           u == r.timestamp
           d == t + l
<1>0. Wrap \in Nat \ {0} BY WidthIs
<1>1. u = d % Wrap BY DEF Follows
<1>2. t \in Int /\ u \in Int /\ l \in Int BY PacketIs, WidthIs
<1>3. PICK k \in Int : t - anchor = Wrap * k + x BY DEF At
<1> HIDE DEF l, t, u
<1>4. d \in Int BY <1>2
<1> HIDE DEF d
<1>5. \E j \in Int : d = Wrap * j + (d % Wrap) BY <1>0, <1>4, ModIs
<1>6. PICK j \in Int : t + l = Wrap * j + u BY <1>1, <1>5 DEF d
<1> DEFINE a == Wrap * k
           b == Wrap * j
           i == k - j
<1>7. Wrap * i = a - b /\ a \in Int /\ b \in Int /\ i \in Int BY <1>0
<1>8. t - anchor = a + x /\ t + l = b + u BY <1>3, <1>6
<1> HIDE DEF a, b, i
<1> DEFINE c == Wrap * i
<1>b. c = a - b BY <1>7
<1> HIDE DEF c
<1>c. u - anchor = c + (x + l) BY <1>2, <1>7, <1>8, <1>b
<1>9. u - anchor = Wrap * i + (x + l) BY <1>c DEF c
<1>10. \E n \in Int : u - anchor = Wrap * n + (x + l) BY <1>7, <1>9
<1> QED BY <1>10 DEF u, l, At

LEMMA JoinsTail ==
    ASSUME Inv, NEW q \in ThePackets, NEW e, e = Larger(playout.end, playout.cursor),
           NEW p, p = Restart(playout, q.timestamp)
    PROVE  /\ Good(p) /\ p.ring = playout.ring /\ p.cursor = playout.cursor
           /\ p.end = playout.end
           /\ Anchor(p, q) \in 0..(Wrap - 1) /\ Anchor(p, q) # None
           /\ At(q.timestamp, Anchor(p, q), e)
<1> DEFINE t == q.timestamp
           anchor == Anchor(p, q)
<1>0. Wrap \in Nat \ {0} BY WidthIs
<1>1. t \in 0..(Wrap - 1) BY PacketIs
<1>2. t \in Int BY <1>0, <1>1
<1>3. /\ Good(p) /\ p.ring = playout.ring /\ p.cursor = playout.cursor
      /\ p.end = playout.end
      /\ p.anchor = None <=> playout.anchor = None
      /\ playout.anchor # None => p.anchor = (t - e) % Wrap
  BY <1>2, RestartIs DEF Inv
<1>4. p.anchor \in 0..(Wrap - 1) \cup {None} BY <1>3 DEF Good, Playouts
<1>5. anchor \in 0..(Wrap - 1) /\ anchor # None BY <1>4, OffsetIs
<1>6. e \in Int BY DEF Inv, TypeOK, Larger
<1>7. anchor = IF p.anchor = None THEN t ELSE p.anchor BY DEF Anchor
<1> HIDE DEF t, anchor
<1>8. \E k \in Int : t - anchor = Wrap * k + e
  <2>1. CASE playout.anchor = None
    <3>1. playout.cursor = 0 /\ playout.end = 0 BY <2>1 DEF Inv, Paced
    <3>2. e = 0 BY <3>1 DEF Larger
    <3>3. anchor = t BY <2>1, <1>3, <1>7
    <3>4. t - anchor = Wrap * 0 + e BY <3>2, <3>3, <1>0, <1>2
    <3> QED BY <3>4
  <2>2. CASE playout.anchor # None
    <3> DEFINE d == t - e
    <3>1. d \in Int BY <1>2, <1>6
    <3>2. anchor = d % Wrap BY <2>2, <1>3, <1>7
    <3> HIDE DEF d
    <3>3. PICK k \in Int : d = Wrap * k + anchor BY <3>1, <3>2, <1>0, ModIs
    <3> DEFINE a == Wrap * k
    <3>4. a \in Int /\ t - e = a + anchor BY <3>3, <1>0 DEF d
    <3> HIDE DEF a
    <3>5. t - anchor = a + e BY <3>4, <1>0, <1>2, <1>5, <1>6
    <3> QED BY <3>5 DEF a
  <2> QED BY <2>1, <2>2
<1> QED BY <1>3, <1>5, <1>8 DEF t, anchor, At

LEMMA Second ==
    ASSUME NEW l \in Nat, NEW k \in Nat, l <= k, k < l + l, NEW n \in Nat
    PROVE  k - l \in 0..(l - 1) /\ (n + l) + (k - l) = n + k
  OBVIOUS

LEMMA Third ==
    ASSUME NEW l \in Nat, NEW k \in 0..(3 * l - 1), l + l <= k, NEW n \in Nat
    PROVE  k - l - l \in 0..(l - 1) /\ (n + l + l) + (k - l - l) = n + k
  OBVIOUS

(* What three packets of audio leave of half the timestamps, each by each. *)
LEMMA Within ==
    ASSUME NEW e \in Nat, NEW l \in Nat, NEW w \in Nat, 1 <= l, 2 * (e + 3 * l) <= w
    PROVE  2 * (e + 1) <= w /\ 2 * (e + l + 1) <= w /\ 2 * (e + l + l + 1) <= w
  OBVIOUS

(* Where three packets fit, so do the first and the first two. *)
LEMMA Fits ==
    ASSUME NEW e \in Nat, NEW l \in Nat, NEW cap \in Nat,
             NEW c \in Int, c <= e, e + 3 * l <= c + cap
    PROVE  /\ e + l <= c + cap
           /\ e + l + l <= c + cap
           /\ e + l + l + l <= c + cap
           /\ c <= e + l
           /\ c <= e + l + l
<1>1. c <= e + l /\ c <= e + l + l
  OBVIOUS
<1>2. e + l + l + l <= c + cap
  OBVIOUS
<1> QED BY <1>1, <1>2

(* The three packets of the probation are held whole. *)
HasRoom(l) == Larger(playout.end, playout.cursor) + 3 * l <= playout.cursor + Capacity

LEMMA ProbationHeld ==
    ASSUME Inv, NEW packet \in ThePackets, EndsProbation(packet), candidate # <<>>,
           NEW l \in Nat, l = Length[packet.stream], HasRoom(l)
    PROVE  \A k \in 0..(3 * l - 1) :
              Holds(playout', packet.stream, candidate[1].number * l + k)
<1> DEFINE kept == Probation(packet)
           s == packet.stream
           q1 == kept[1]
           q2 == kept[2]
           q3 == kept[3]
           n1 == q1.number * l
           e == Larger(playout.end, playout.cursor)
           p0 == Restart(playout, Head(kept).timestamp)
           p1 == Insert(p0, q1)
           p2 == Insert(p1, q2)
           p3 == Insert(p2, q3)
<1>1. Len(kept) = 3 /\ playout' = p3 BY DEF EndsProbation, InsertAll
<1>2. /\ kept \in Seq(ThePackets) /\ kept = Append(candidate, packet)
      /\ Follows(q1, q2) /\ Follows(q2, q3)
  <2>1. /\ kept \in Seq(ThePackets)
        /\ \A i \in 1..(Len(kept) - 1) : Follows(kept[i], kept[i + 1])
        /\ Len(kept) > 1 => kept = Append(candidate, packet)
    BY ProbationIs
  <2> HIDE DEF kept
  <2> QED BY <2>1, <1>1
<1>3. q1 = candidate[1] /\ q3 = packet
  <2>1. candidate \in Seq(ThePackets) /\ Len(candidate) \in Nat BY DEF Inv, Kept
  <2>2. Len(kept) = Len(candidate) + 1 /\ kept[Len(candidate) + 1] = packet
        /\ \A i \in 1..Len(candidate) : kept[i] = candidate[i]
    BY <1>2, <2>1, AppendProperties
  <2> HIDE DEF kept
  <2> DEFINE n == Len(candidate)
             m == Len(kept)
  <2>3. n \in Nat /\ m = n + 1 /\ m = 3 BY <1>1, <2>1, <2>2
  <2> HIDE DEF n, m
  <2>4. n = 2 BY <2>3
  <2>5. Len(candidate) = 2 BY <2>4 DEF n
  <2> QED BY <2>2, <2>5
<1>4. q1 \in ThePackets /\ q2 \in ThePackets /\ q3 \in ThePackets /\ Head(kept) = q1
  <2> HIDE DEF kept
  <2>1. kept \in [1..3 -> ThePackets] BY <1>1, <1>2, LenProperties
  <2>2. Head(kept) = kept[1] BY <1>1, <1>2
  <2> QED BY <2>1, <2>2
<1> HIDE DEF kept
<1>5. p0 = Restart(playout, q1.timestamp) BY <1>4
<1> HIDE DEF q1, q2, q3, p0
<1>6. /\ q1.stream = s /\ q2.stream = s /\ q3.stream = s
      /\ q2.number * l = n1 + l /\ q3.number * l = n1 + l + l
  <2>1. q2.stream = q1.stream /\ q3.stream = q2.stream /\ q3.stream = s
    BY <1>2, <1>3, <1>4, FollowsOn
  <2>2. Length[q1.stream] = l /\ Length[q2.stream] = l /\ Length[q3.stream] = l BY <2>1
  <2>3. q2.number * Length[q2.stream] = q1.number * Length[q1.stream] + Length[q1.stream]
    BY <1>2, <1>4, FollowsOn
  <2>4. q3.number * Length[q3.stream] = q2.number * Length[q2.stream] + Length[q2.stream]
    BY <1>2, <1>4, FollowsOn
  <2> QED BY <2>1, <2>2, <2>3, <2>4
<1>7. n1 \in Nat /\ l \in 1..Capacity BY <1>4, <1>6, PacketIs
<1>8. clock \in Nat /\ playout.cursor \in Int /\ playout.end \in Int /\ 0 <= playout.end
      /\ playout.cursor <= MaxClock * FrameSamples + Capacity
  BY DEF Inv, TypeOK, Good, Paced
<1>9. e \in Nat /\ playout.cursor <= e /\ playout.end <= e
      /\ e + 3 * l <= playout.cursor + Capacity
  BY <1>8 DEF Larger, HasRoom
<1>10. 2 * (e + 3 * l) <= Wrap
  <2> DEFINE c == playout.cursor
             m == MaxClock * FrameSamples
             z == e + 3 * l
  <2>1. c \in Int /\ c <= m + Capacity BY <1>8
  <2>2. m \in Nat /\ 2 * (m + 3 * Capacity) <= Wrap /\ Wrap \in Nat /\ Capacity \in Nat
    BY WidthIs
  <2>3. z \in Int /\ z <= c + Capacity BY <1>9
  <2> HIDE DEF c, m, z
  <2>4. z <= m + 2 * Capacity BY <2>1, <2>2, <2>3
  <2>5. 2 * z <= Wrap BY <2>2, <2>3, <2>4
  <2> QED BY <2>5 DEF z
<1>11. /\ Good(p0) /\ p0.ring = playout.ring /\ p0.cursor = playout.cursor
       /\ p0.end = playout.end
       /\ Anchor(p0, q1) \in 0..(Wrap - 1) /\ Anchor(p0, q1) # None
       /\ At(q1.timestamp, Anchor(p0, q1), e)
  BY <1>4, <1>5, JoinsTail
<1> DEFINE anchor == Anchor(p0, q1)
<1> HIDE DEF e, s, n1
<1>a. anchor \in Int BY <1>11, WidthIs
<1>b. q1.timestamp \in Int /\ q2.timestamp \in Int /\ q3.timestamp \in Int
  <2>1. \A q \in ThePackets : q.timestamp \in Int
    <3> SUFFICES ASSUME NEW q \in ThePackets PROVE q.timestamp \in Int OBVIOUS
    <3>1. q.timestamp \in 0..(Wrap - 1) /\ Wrap \in Nat BY PacketIs, WidthIs
    <3> QED BY <3>1
  <2> QED BY <2>1, <1>4
<1>d. Length[q1.stream] = l /\ Length[q2.stream] = l /\ Length[q3.stream] = l
  BY <1>6 DEF s
<1>e. e \in Nat /\ l \in Nat /\ 1 <= l /\ 2 * (e + 3 * l) <= Wrap /\ Wrap \in Nat
  BY <1>7, <1>9, <1>10, WidthIs
<1>f. /\ playout.cursor \in Int /\ playout.cursor <= e
      /\ e + 3 * l <= playout.cursor + Capacity /\ Capacity \in Nat
  BY <1>8, <1>9, WidthIs
<1> DEFINE e2 == e + l
           e3 == e2 + l
<1>g. /\ 2 * (e + 1) <= Wrap /\ 2 * (e2 + 1) <= Wrap /\ 2 * (e3 + 1) <= Wrap
      /\ e + l <= playout.cursor + Capacity /\ e2 + l <= playout.cursor + Capacity
      /\ e3 + l <= playout.cursor + Capacity
      /\ playout.cursor <= e2 /\ playout.cursor <= e3
  <2>1. 2 * (e + 1) <= Wrap /\ 2 * (e + l + 1) <= Wrap /\ 2 * (e + l + l + 1) <= Wrap
    BY <1>e, Within
  <2>2. /\ e + l <= playout.cursor + Capacity
        /\ e + l + l <= playout.cursor + Capacity
        /\ e + l + l + l <= playout.cursor + Capacity
        /\ playout.cursor <= e + l
        /\ playout.cursor <= e + l + l
    BY <1>e, <1>f, Fits
  <2> QED BY <2>1, <2>2
<1>h. e2 \in Nat /\ e3 \in Nat /\ e2 = e + l /\ e3 = e2 + l BY <1>e
<1> HIDE DEF e2, e3
<1>12. Offset(p0, q1) = e
  <2>1. 2 * (e + 1) <= Wrap BY <1>g
  <2>2. q1.timestamp - Anchor(p0, q1) \in Int BY <1>a, <1>b
  <2> QED BY <2>1, <2>2, <1>9, <1>11, OffsetOf
<1>13. /\ Good(p1) /\ p1.cursor = playout.cursor /\ p1.anchor = anchor /\ p1.end <= e + l
       /\ \A k \in 0..(l - 1) : Holds(p1, s, n1 + k)
  <2>1. e \in Int /\ p0.cursor <= e /\ p0.end <= e /\ e + Length[q1.stream] <= p0.cursor + Capacity
    <3>1. e + l <= p0.cursor + Capacity BY <1>g, <1>11
    <3> QED BY <3>1, <1>d, <1>e, <1>9, <1>11
  <2>2. /\ Good(p1) /\ p1.cursor = p0.cursor /\ p1.anchor = anchor
        /\ p1.end <= e + Length[q1.stream]
        /\ \A k \in 0..(Length[q1.stream] - 1) :
              Holds(p1, q1.stream, q1.number * Length[q1.stream] + k)
    BY <2>1, <1>4, <1>8, <1>11, <1>12, InsertAtEnd
  <2> HIDE DEF p1, anchor
  <2> QED BY <2>2, <1>6, <1>11 DEF s, n1
<1> HIDE DEF p1, anchor
<1>14. Anchor(p1, q2) = anchor BY <1>13, <1>11 DEF Anchor, anchor
<1>15. At(q2.timestamp, anchor, e2)
  <2>1. At(q1.timestamp, anchor, e) BY <1>11 DEF anchor
  <2>2. e \in Int BY <1>9
  <2>3. At(q2.timestamp, anchor, e + Length[q1.stream])
    BY <2>1, <2>2, <1>2, <1>4, <1>a, NextOffset
  <2> QED BY <2>3, <1>d, <1>h
<1>17. Offset(p1, q2) = e2
  <2>1. 2 * (e2 + 1) <= Wrap BY <1>g
  <2>2. q2.timestamp - anchor \in Int BY <1>a, <1>b
  <2> QED BY <2>1, <2>2, <1>14, <1>15, <1>h, OffsetOf
<1>18. /\ Good(p2) /\ p2.cursor = playout.cursor /\ p2.anchor = anchor /\ p2.end <= e2 + l
       /\ \A i \in Slots : p1.ring[i] # None => p2.ring[i] = p1.ring[i]
       /\ \A k \in 0..(l - 1) : Holds(p2, s, (n1 + l) + k)
  <2>1. e2 \in Int /\ p1.cursor <= e2 /\ p1.end <= e2
          /\ e2 + Length[q2.stream] <= p1.cursor + Capacity
    <3>1. e2 + l <= p1.cursor + Capacity /\ p1.cursor <= e2 BY <1>g, <1>13
    <3>2. p1.end <= e2 BY <1>13, <1>h
    <3> QED BY <3>1, <3>2, <1>d, <1>h
  <2>2. /\ Good(p2) /\ p2.cursor = p1.cursor /\ p2.anchor = Anchor(p1, q2)
        /\ p2.end <= e2 + Length[q2.stream]
        /\ \A i \in Slots : p1.ring[i] # None => p2.ring[i] = p1.ring[i]
        /\ \A k \in 0..(Length[q2.stream] - 1) :
              Holds(p2, q2.stream, q2.number * Length[q2.stream] + k)
    <3>1. p2 = Insert(p1, q2) /\ Good(p1) /\ e2 \in Int BY <1>13, <1>h
    <3> HIDE DEF p2
    <3> QED BY <3>1, <2>1, <1>4, <1>8, <1>17, InsertAtEnd
  <2> HIDE DEF p2
  <2> QED BY <2>2, <1>6, <1>13, <1>14 DEF s, n1
<1> HIDE DEF p2
<1>19. Anchor(p2, q3) = anchor BY <1>18, <1>11 DEF Anchor, anchor
<1>21. At(q3.timestamp, anchor, e3)
  <2>1. e2 \in Int BY <1>h
  <2>2. At(q3.timestamp, anchor, e2 + Length[q2.stream])
    BY <2>1, <1>15, <1>2, <1>4, <1>a, NextOffset
  <2> QED BY <2>2, <1>d, <1>h
<1>22. Offset(p2, q3) = e3
  <2>1. 2 * (e3 + 1) <= Wrap BY <1>g
  <2>2. q3.timestamp - anchor \in Int BY <1>a, <1>b
  <2> QED BY <2>1, <2>2, <1>19, <1>h, <1>21, OffsetOf
<1>23. /\ \A i \in Slots : p2.ring[i] # None => p3.ring[i] = p2.ring[i]
       /\ \A k \in 0..(l - 1) : Holds(p3, s, (n1 + l + l) + k)
  <2>1. e3 \in Int /\ p2.cursor <= e3 /\ p2.end <= e3
          /\ e3 + Length[q3.stream] <= p2.cursor + Capacity
    <3>1. p2.end <= e3 BY <1>18, <1>h
    <3>2. e3 + l <= p2.cursor + Capacity /\ p2.cursor <= e3 BY <1>g, <1>18
    <3> QED BY <3>1, <3>2, <1>d, <1>h
  <2>2. /\ \A i \in Slots : p2.ring[i] # None => p3.ring[i] = p2.ring[i]
        /\ \A k \in 0..(Length[q3.stream] - 1) :
              Holds(p3, q3.stream, q3.number * Length[q3.stream] + k)
    BY <2>1, <1>4, <1>8, <1>18, <1>22, InsertAtEnd
  <2> HIDE DEF p3
  <2> QED BY <2>2, <1>6 DEF s, n1
<1> HIDE DEF p3
<1>24. ASSUME NEW k \in 0..(3 * l - 1) PROVE Holds(p3, s, n1 + k)
  <2>1. CASE k < l
    <3>1. k \in 0..(l - 1) BY <2>1, <1>7
    <3>2. Holds(p1, s, n1 + k) BY <3>1, <1>13
    <3>3. Holds(p2, s, n1 + k) BY <3>2, <1>18, HoldsStays
    <3> QED BY <3>3, <1>23, HoldsStays
  <2>2. CASE l <= k /\ k < l + l
    <3> DEFINE j == k - l
    <3>1. j \in 0..(l - 1) /\ (n1 + l) + j = n1 + k BY <2>2, <1>7, Second
    <3> HIDE DEF j
    <3>2. Holds(p2, s, (n1 + l) + j) BY <3>1, <1>18
    <3>3. Holds(p2, s, n1 + k) BY <3>1, <3>2
    <3> QED BY <3>3, <1>23, HoldsStays
  <2>3. CASE l + l <= k
    <3> DEFINE j == k - l - l
    <3>1. j \in 0..(l - 1) /\ (n1 + l + l) + j = n1 + k BY <2>3, <1>7, Third
    <3> HIDE DEF j
    <3>2. Holds(p3, s, (n1 + l + l) + j) BY <3>1, <1>23
    <3> QED BY <3>1, <3>2
  <2> QED BY <2>1, <2>2, <2>3, <1>7, WidthIs
<1> QED BY <1>1, <1>3, <1>24 DEF s, n1

(* When a stream ends its probation, its first packets are all buffered,   *)
(* unless the ring is full (network.rs): they join the tail, behind the    *)
(* last sample and the window's begin, and none of their slots is taken.   *)
THEOREM TrainingIsKept == Spec => TrainingKept
<1> DEFINE A == (source \in Streams /\ source' # source /\ source' # None /\ candidate # <<>>
                   /\ Larger(playout.end, playout.cursor) + 3 * Length[source']
                         <= playout.cursor + Capacity) =>
                   \A k \in 0..(3 * Length[source'] - 1) :
                       Holds(playout', source', candidate[1].number * Length[source'] + k)
<1>1. ASSUME Inv, [Next]_vars PROVE [A]_vars
  <2> SUFFICES ASSUME source \in Streams, source' # source, source' # None, candidate # <<>>,
                      HasRoom(Length[source'])
               PROVE  \A k \in 0..(3 * Length[source'] - 1) :
                         Holds(playout', source', candidate[1].number * Length[source'] + k)
    BY DEF HasRoom
  <2>1. CASE UNCHANGED vars BY <2>1 DEF vars, stream
  <2>2. CASE Tick \/ StartFrame \/ Play \/ EndFrame \/ Disconnect \/ Drain
    BY <2>2 DEF Tick, StartFrame, Play, EndFrame, Disconnect, Drain, stream
  <2>3. ASSUME NEW r \in Remotes, UpdateRemote(r) PROVE source' \in {source, None}
    BY <2>3 DEF UpdateRemote
  <2>4. ASSUME NEW d \in Datagrams, Datagram(d)
        PROVE  \A k \in 0..(3 * Length[source'] - 1) :
                  Holds(playout', source', candidate[1].number * Length[source'] + k)
    <3> DEFINE packet == Packet(d)
    <3>1. packet \in ThePackets BY DEF ThePackets
    <3>2. \/ Ignores \/ OnProbation(packet) \/ EndsProbation(packet)
          \/ Hears(packet) /\ (Foreign(packet) => pending)
      BY <2>4 DEF Datagram
    <3> HIDE DEF packet
    <3>3. ~Ignores /\ ~OnProbation(packet) BY DEF Ignores, OnProbation, stream
    <3>4. ~pending BY <1>1 DEF Inv, Kept
    <3>5. ~(Hears(packet) /\ (Foreign(packet) => pending))
      <4>1. None \notin Streams BY MediaAssumption DEF MediaAssumption
      <4> QED BY <3>4, <4>1 DEF Hears, Foreign
    <3>6. EndsProbation(packet) BY <3>2, <3>3, <3>5
    <3>7. source' = packet.stream BY <3>6 DEF EndsProbation
    <3>8. Length[packet.stream] \in Nat BY <3>1, PacketIs, WidthIs
    <3> QED BY <3>1, <3>6, <3>7, <3>8, <1>1, ProbationHeld
  <2> QED BY <1>1, <2>1, <2>2, <2>3, <2>4 DEF Next
<1> QED BY <1>1, Invariant, PTL DEF Spec, TrainingKept
=============================================================================
