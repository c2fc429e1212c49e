--------------------------- MODULE ReceptionProofs ----------------------------
(***************************************************************************)
(* Theorems of the admission of incoming calls, for every number of calls, *)
(* callers, accounts, slots, configurations and faults.                    *)
(***************************************************************************)
EXTENDS Reception, FiniteSetTheorems, SequenceTheorems, TLAPS

(* The actions of Next, without their grouping. *)
Actions ==
    \/ \E f \in Faxes, c \in Callers : Invite(f, c)
    \/ InviteFails
    \/ Expire
    \/ \E f \in Faxes : CallEnds(f)
    \/ Sleeps
    \/ \E a \in Accounts : ConnectionFails(a)
    \/ Reconnect
    \/ Refill
    \/ LoopFails
    \/ Configure
    \/ CancelIncoming
    \/ Refuse
    \/ Answer
    \/ AnswerFails
    \/ AnswerNobody
    \/ StopCommand
    \/ LoopGone
    \/ \E f \in Faxes : Hangup(f)
    \/ \E f \in Faxes : DeadlinePasses(f)
    \/ OfferExpired
    \/ OfferAccepted
    \/ OfferShown
    \/ ReadOffer
    \/ \E f \in Faxes : AcceptIncoming(f)
    \/ \E f \in Faxes : RejectIncoming(f)
    \/ \E f \in Faxes : DecisionTooLate(f)
    \/ \E f \in Faxes : CancelReception(f)
    \/ \E a \in Accounts \cup {None} : ConfigureReceiver(a)
    \/ Stop
    \/ Respond
    \/ RespondFails
    \/ Received
    \/ ReceivedFails
    \/ \E f \in Faxes : Recovers(f)
    \/ ShutdownSends
    \/ ShutdownJoins
    \/ Stopped

(* Every step of a reception is one of the listed actions. *)
LEMMA NextIsActions == Next <=> Actions
  BY DEF Next, Actions, Service, HandlesCommand, HandlesOffer, Application

Commands ==
    [what : {"configure"}, of : Accounts \cup {None}]
    \cup [what : {"admit", "refuse", "reject", "cancel"}, of : Faxes]
    \cup [what : {"stop"}, of : {None}]
Events == [of : Faxes, how : Results]

-----------------------------------------------------------------------------
(* What a channel holds, how often, and in which order. *)
In(x, s) == \E i \in DOMAIN s : s[i] = x
OnceIn(x, s) == \A i, k \in DOMAIN s : s[i] = x /\ s[k] = x => i = k
Distinct(s) == \A i, k \in DOMAIN s : s[i] = s[k] => i = k
EndsIn(f, s) == \E i \in DOMAIN s : s[i].of = f
EndsApart(s) == \A i, k \in DOMAIN s : s[i].of = s[k].of => i = k
NoAdmitAfterStop(s) ==
    \A i, k \in DOMAIN s : s[i].what = "stop" /\ s[k].what = "admit" => k < i

(* What a channel holds once more was sent. *)
LEMMA AppendIn ==
    ASSUME NEW S, NEW s \in Seq(S), NEW e \in S
    PROVE  LET t == Append(s, e)
           IN  /\ t \in Seq(S)
               /\ \A x : In(x, t) <=> In(x, s) \/ x = e
               /\ \A x : OnceIn(x, s) /\ ~(x = e /\ In(x, s)) => OnceIn(x, t)
               /\ Distinct(s) /\ ~In(e, s) => Distinct(t)
               /\ \A f : EndsIn(f, t) <=> EndsIn(f, s) \/ f = e.of
               /\ EndsApart(s) /\ ~EndsIn(e.of, s) => EndsApart(t)
               /\ NoAdmitAfterStop(s) /\ (e.what = "admit" => \A i \in DOMAIN s : s[i].what # "stop")
                    => NoAdmitAfterStop(t)
  <1> DEFINE t == Append(s, e)
             n == Len(s)
  <1>1. n \in Nat /\ DOMAIN s = 1..n
    BY LenProperties
  <1>2. /\ t \in Seq(S) /\ Len(t) = n + 1
        /\ \A i \in 1..n : t[i] = s[i]
        /\ t[n + 1] = e
    BY AppendProperties
  <1>3. DOMAIN t = 1..(n + 1)
    BY <1>2, LenProperties
  <1> HIDE DEF t, n
  <1>4. \A i \in DOMAIN t : (i \in DOMAIN s /\ t[i] = s[i]) \/ (i = n + 1 /\ t[i] = e)
    BY <1>1, <1>2, <1>3
  <1>5. /\ \A i \in DOMAIN s : i \in DOMAIN t /\ t[i] = s[i] /\ i # n + 1 /\ i < n + 1
        /\ n + 1 \in DOMAIN t
    BY <1>1, <1>2, <1>3
  <1>6. \A x : In(x, t) <=> In(x, s) \/ x = e
    BY <1>2, <1>4, <1>5 DEF In
  <1>7. \A x : OnceIn(x, s) /\ ~(x = e /\ In(x, s)) => OnceIn(x, t)
    BY <1>4, <1>5 DEF In, OnceIn
  <1>8. Distinct(s) /\ ~In(e, s) => Distinct(t)
    BY <1>4, <1>5 DEF In, Distinct
  <1>9. \A f : EndsIn(f, t) <=> EndsIn(f, s) \/ f = e.of
    BY <1>2, <1>4, <1>5 DEF EndsIn
  <1>10. EndsApart(s) /\ ~EndsIn(e.of, s) => EndsApart(t)
    BY <1>4, <1>5 DEF EndsIn, EndsApart
  <1>11. ASSUME NoAdmitAfterStop(s), e.what = "admit" => \A i \in DOMAIN s : s[i].what # "stop"
         PROVE  NoAdmitAfterStop(t)
    BY <1>4, <1>5, <1>11 DEF NoAdmitAfterStop
  <1> QED
    BY <1>2, <1>6, <1>7, <1>8, <1>9, <1>10, <1>11 DEF t

(* What a channel holds once its first element was taken. *)
LEMMA TailIn ==
    ASSUME NEW S, NEW s \in Seq(S), s # <<>>
    PROVE  LET t == Tail(s)
           IN  /\ Head(s) \in S /\ t \in Seq(S) /\ In(Head(s), s) /\ EndsIn(Head(s).of, s)
               /\ \A x : In(x, s) <=> In(x, t) \/ x = Head(s)
               /\ \A x : OnceIn(x, s) => OnceIn(x, t) /\ ~(x = Head(s) /\ In(x, t))
               /\ Distinct(s) => Distinct(t) /\ ~In(Head(s), t)
               /\ \A f : EndsIn(f, s) <=> EndsIn(f, t) \/ f = Head(s).of
               /\ EndsApart(s) => EndsApart(t) /\ ~EndsIn(Head(s).of, t)
               /\ NoAdmitAfterStop(s) => NoAdmitAfterStop(t)
               /\ NoAdmitAfterStop(s) /\ Head(s).what = "stop" =>
                    \A i \in DOMAIN s : s[i].what # "admit"
  <1> DEFINE t == Tail(s)
             n == Len(t)
  <1>1. /\ Head(s) \in S /\ t \in Seq(S) /\ n = Len(s) - 1
        /\ \A i \in 1..n : t[i] = s[i + 1]
    BY HeadTailProperties
  <1>2. n \in Nat /\ DOMAIN t = 1..n /\ DOMAIN s = 1..(n + 1)
    <2>1. n \in Nat /\ DOMAIN t = 1..n /\ DOMAIN s = 1..Len(s) /\ Len(s) \in Nat
      BY <1>1, LenProperties
    <2>2. Len(s) = n + 1
      BY <1>1, <2>1
    <2> QED
      BY <2>1, <2>2
  <1>3. Head(s) = s[1]
    OBVIOUS
  <1> HIDE DEF t, n
  <1>4. /\ 1 \in DOMAIN s
        /\ \A i \in DOMAIN t : i + 1 \in DOMAIN s /\ t[i] = s[i + 1] /\ i + 1 # 1 /\ i \in Nat
    BY <1>1, <1>2
  <1>5. \A i \in DOMAIN s : i = 1 \/ (i - 1 \in DOMAIN t /\ t[i - 1] = s[i])
    <2> SUFFICES ASSUME NEW i \in DOMAIN s, i # 1
                 PROVE  i - 1 \in DOMAIN t /\ t[i - 1] = s[i]
      OBVIOUS
    <2>1. i - 1 \in 1..n /\ i - 1 + 1 = i
      BY <1>2
    <2> QED
      BY <1>1, <1>2, <2>1
  <1>6. In(Head(s), s) /\ EndsIn(Head(s).of, s)
    BY <1>3, <1>4 DEF In, EndsIn
  <1>7. \A x : In(x, s) <=> In(x, t) \/ x = Head(s)
    BY <1>3, <1>4, <1>5 DEF In
  <1>8. \A x : OnceIn(x, s) => OnceIn(x, t) /\ ~(x = Head(s) /\ In(x, t))
    BY <1>3, <1>4 DEF In, OnceIn
  <1>9. Distinct(s) => Distinct(t) /\ ~In(Head(s), t)
    BY <1>3, <1>4 DEF In, Distinct
  <1>10. \A f : EndsIn(f, s) <=> EndsIn(f, t) \/ f = Head(s).of
    BY <1>3, <1>4, <1>5 DEF EndsIn
  <1>11. EndsApart(s) => EndsApart(t) /\ ~EndsIn(Head(s).of, t)
    BY <1>3, <1>4 DEF EndsIn, EndsApart
  <1>12. NoAdmitAfterStop(s) => NoAdmitAfterStop(t)
    BY <1>4 DEF NoAdmitAfterStop
  <1>13. NoAdmitAfterStop(s) /\ Head(s).what = "stop" => \A i \in DOMAIN s : s[i].what # "admit"
    BY <1>2, <1>3, <1>4 DEF NoAdmitAfterStop
  <1> QED
    BY <1>1, <1>6, <1>7, <1>8, <1>9, <1>10, <1>11, <1>12, <1>13 DEF t

(* What a channel holds once a list was added to it. *)
LEMMA ConcatIn ==
    ASSUME NEW S, NEW s \in Seq(S), NEW t \in Seq(S)
    PROVE  LET u == s \o t
           IN  /\ u \in Seq(S)
               /\ \A x : In(x, u) <=> In(x, s) \/ In(x, t)
               /\ \A x : OnceIn(x, s) /\ ~In(x, t) => OnceIn(x, u)
               /\ \A f : EndsIn(f, u) <=> EndsIn(f, s) \/ EndsIn(f, t)
               /\ EndsApart(s) /\ EndsApart(t) /\ (\A f : ~(EndsIn(f, s) /\ EndsIn(f, t)))
                    => EndsApart(u)
               /\ NoAdmitAfterStop(s) /\ (\A i \in DOMAIN t : t[i].what \notin {"admit", "stop"})
                    => NoAdmitAfterStop(u)
  <1> DEFINE u == s \o t
             m == Len(s)
             n == Len(t)
  <1>1. m \in Nat /\ DOMAIN s = 1..m /\ n \in Nat /\ DOMAIN t = 1..n
    BY LenProperties
  <1>2. /\ u \in Seq(S) /\ Len(u) = m + n
        /\ \A i \in 1..(m + n) : u[i] = IF i <= m THEN s[i] ELSE t[i - m]
    BY ConcatProperties
  <1>3. DOMAIN u = 1..(m + n)
    BY <1>2, LenProperties
  <1> HIDE DEF u, m, n
  <1>4. \A i \in DOMAIN u :
            \/ i \in DOMAIN s /\ u[i] = s[i]
            \/ i - m \in DOMAIN t /\ u[i] = t[i - m] /\ i \notin DOMAIN s
    BY <1>1, <1>2, <1>3
  <1>5. \A i \in DOMAIN s : i \in DOMAIN u /\ u[i] = s[i]
    BY <1>1, <1>2, <1>3
  <1>6. \A i \in DOMAIN t : \E k \in DOMAIN u : u[k] = t[i]
    <2>1. \A a, b \in Nat : \A i \in 1..b : \E k \in 1..(a + b) : ~(k <= a) /\ k - a = i
      <3> SUFFICES ASSUME NEW a \in Nat, NEW b \in Nat, NEW i \in 1..b
                   PROVE  \E k \in 1..(a + b) : ~(k <= a) /\ k - a = i
        OBVIOUS
      <3>1. i + a \in 1..(a + b) /\ ~(i + a <= a) /\ i + a - a = i
        OBVIOUS
      <3> QED
        BY <3>1
    <2> SUFFICES ASSUME NEW i \in DOMAIN t PROVE \E k \in DOMAIN u : u[k] = t[i]
      OBVIOUS
    <2>2. PICK k \in 1..(m + n) : ~(k <= m) /\ k - m = i
      BY <1>1, <2>1
    <2>3. u[k] = t[k - m]
      BY <1>2, <2>2
    <2> QED
      BY <1>3, <2>2, <2>3
  <1>7. \A x : In(x, u) <=> In(x, s) \/ In(x, t)
    BY <1>4, <1>5, <1>6 DEF In
  <1>8. \A x : OnceIn(x, s) /\ ~In(x, t) => OnceIn(x, u)
    BY <1>4 DEF In, OnceIn
  <1>9. \A f : EndsIn(f, u) <=> EndsIn(f, s) \/ EndsIn(f, t)
    BY <1>4, <1>5, <1>6 DEF EndsIn
  <1>10. ASSUME EndsApart(s), EndsApart(t), \A f : ~(EndsIn(f, s) /\ EndsIn(f, t))
         PROVE  EndsApart(u)
    <2> SUFFICES ASSUME NEW i \in DOMAIN u, NEW k \in DOMAIN u, u[i].of = u[k].of
                 PROVE  i = k
      BY DEF EndsApart
    <2>1. CASE i \in DOMAIN s /\ k \in DOMAIN s
      BY <1>5, <1>10, <2>1 DEF EndsApart
    <2>2. CASE i \in DOMAIN s /\ k \notin DOMAIN s
      BY <1>4, <1>5, <1>10, <2>2 DEF EndsIn
    <2>3. CASE i \notin DOMAIN s /\ k \in DOMAIN s
      BY <1>4, <1>5, <1>10, <2>3 DEF EndsIn
    <2>4. CASE i \notin DOMAIN s /\ k \notin DOMAIN s
      <3>1. i - m = k - m
        BY <1>4, <1>10, <2>4 DEF EndsApart
      <3> QED
        BY <1>1, <1>3, <3>1
    <2> QED
      BY <2>1, <2>2, <2>3, <2>4
  <1>11. ASSUME NoAdmitAfterStop(s), \A i \in DOMAIN t : t[i].what \notin {"admit", "stop"}
         PROVE  NoAdmitAfterStop(u)
    BY <1>4, <1>5, <1>11 DEF NoAdmitAfterStop
  <1> QED
    BY <1>2, <1>7, <1>8, <1>9, <1>10, <1>11 DEF u

(* An empty channel holds nothing. *)
LEMMA EmptyIn ==
    /\ \A x : ~In(x, <<>>) /\ OnceIn(x, <<>>) /\ ~EndsIn(x, <<>>)
    /\ Distinct(<<>>) /\ EndsApart(<<>>) /\ NoAdmitAfterStop(<<>>)
  BY DEF In, OnceIn, Distinct, EndsIn, EndsApart, NoAdmitAfterStop

(* A list of a set has every element of it, once. *)
LEMMA ListOf ==
    ASSUME NEW set, IsFiniteSet(set), NEW q \in Lists(set)
    PROVE  /\ q \in Seq(set) /\ Distinct(q)
           /\ \A x : In(x, q) <=> x \in set
  <1> DEFINE n == Cardinality(set)
  <1>1. n \in Nat
    BY FS_CardinalityType
  <1>2. /\ q \in [1..n -> set]
        /\ \A i, k \in 1..n : q[i] = q[k] => i = k
    BY DEF Lists
  <1>3. q \in Injection(1..n, set)
    BY <1>2 DEF Injection, IsInjective
  <1>4. Cardinality(1..n) = n
    <2>1. Cardinality(1..n) = IF 1 > n THEN 0 ELSE n - 1 + 1
      BY <1>1, FS_Interval
    <2> QED
      BY <1>1, <2>1
  <1>5. q \in Surjection(1..n, set)
    BY <1>3, <1>4, FS_Injection
  <1>6. \A x \in set : \E i \in 1..n : q[i] = x
    BY <1>5 DEF Surjection
  <1> HIDE DEF n
  <1>7. q \in Seq(set)
    BY <1>1, <1>2
  <1> QED
    BY <1>2, <1>6, <1>7 DEF Distinct, In

(* The ends of a set of calls are reported once each, and no others. *)
LEMMA FinishedList ==
    ASSUME NEW set \in SUBSET Faxes, NEW how \in Results, NEW q \in Lists(set)
    PROVE  LET t == [i \in DOMAIN q |-> Finished(q[i], how)]
           IN  /\ t \in Seq(Events) /\ EndsApart(t)
               /\ \A f : EndsIn(f, t) <=> f \in set
  <1> DEFINE t == [i \in DOMAIN q |-> Finished(q[i], how)]
  <1>1. IsFiniteSet(set)
    BY ReceptionAssumption, FS_Subset
  <1>2. q \in Seq(set) /\ Distinct(q) /\ \A x : In(x, q) <=> x \in set
    BY <1>1, ListOf
  <1>3. Len(q) \in Nat /\ DOMAIN q = 1..Len(q)
    BY <1>2, LenProperties
  <1>4. \A i \in DOMAIN q : q[i] \in set
    BY <1>2, <1>3, ElementOfSeq
  <1>5. t \in Seq(Events)
    <2>1. \A i \in DOMAIN q : t[i] \in Events
      BY <1>4 DEF Finished, Events
    <2>2. t \in [1..Len(q) -> Events]
      BY <1>3, <2>1
    <2> QED
      BY <1>3, <2>2, SeqDef
  <1>6. DOMAIN t = DOMAIN q /\ \A i \in DOMAIN q : t[i].of = q[i]
    BY DEF Finished
  <1>7. EndsApart(t)
    BY <1>2, <1>6 DEF EndsApart, Distinct
  <1>8. \A f : EndsIn(f, t) <=> f \in set
    BY <1>2, <1>6 DEF EndsIn, In
  <1> QED
    BY <1>5, <1>7, <1>8

LEMMA FinishIn ==
    ASSUME NEW set \in SUBSET Faxes, NEW how \in Results, NEW q \in Lists(set),
           NEW old \in Seq(Events)
    PROVE  LET new == old \o [i \in DOMAIN q |-> Finished(q[i], how)]
           IN  /\ new \in Seq(Events)
               /\ \A f : EndsIn(f, new) <=> EndsIn(f, old) \/ f \in set
               /\ EndsApart(old) /\ (\A f \in set : ~EndsIn(f, old)) => EndsApart(new)
  <1> DEFINE t == [i \in DOMAIN q |-> Finished(q[i], how)]
  <1>1. t \in Seq(Events) /\ EndsApart(t) /\ \A f : EndsIn(f, t) <=> f \in set
    BY FinishedList
  <1> HIDE DEF t
  <1>2. /\ old \o t \in Seq(Events)
        /\ \A f : EndsIn(f, old \o t) <=> EndsIn(f, old) \/ EndsIn(f, t)
        /\ EndsApart(old) /\ EndsApart(t) /\ (\A f : ~(EndsIn(f, old) /\ EndsIn(f, t)))
             => EndsApart(old \o t)
    BY <1>1, ConcatIn
  <1> QED
    BY <1>1, <1>2 DEF t

(* A stop rejects the open offers. *)
LEMMA RejectIn ==
    ASSUME NEW set \in SUBSET Faxes, NEW q \in Lists(set)
    PROVE  LET t == [i \in DOMAIN q |-> Command("reject", q[i])]
           IN  /\ t \in Seq(Commands)
               /\ \A i \in DOMAIN t : t[i].what = "reject"
               /\ \A x : In(x, t) => x.what = "reject"
  <1> DEFINE t == [i \in DOMAIN q |-> Command("reject", q[i])]
  <1>1. IsFiniteSet(set)
    BY ReceptionAssumption, FS_Subset
  <1>2. q \in Seq(set)
    BY <1>1, ListOf
  <1>3. Len(q) \in Nat /\ DOMAIN q = 1..Len(q)
    BY <1>2, LenProperties
  <1>4. \A i \in DOMAIN q : q[i] \in set
    BY <1>2, <1>3, ElementOfSeq
  <1>5. \A i \in DOMAIN q : t[i] \in Commands /\ t[i].what = "reject"
    BY <1>4 DEF Command, Commands
  <1>6. t \in [1..Len(q) -> Commands]
    BY <1>3, <1>5
  <1>7. t \in Seq(Commands)
    BY <1>3, <1>6, SeqDef
  <1>8. DOMAIN t = DOMAIN q
    OBVIOUS
  <1> HIDE DEF t
  <1> QED
    BY <1>5, <1>7, <1>8 DEF t, In

-----------------------------------------------------------------------------
(* The inductive invariants *)

(* The calls and slots of the service loop, and what outlives it. *)
Slots ==
    /\ valid = admission
    /\ loop = "running" =>
          /\ Occupied = admission \cup calls
          /\ admission \cap calls = {}
          /\ Cardinality(Occupied) + Len(available) <= Limit
    /\ loop # "running" => admission = {} /\ calls = {}
    /\ \A f \in Occupied : account[f] # None
    /\ OneAccount /\ OneCallPerInvite /\ AdmissionsBounded

(* Where the end of a reception comes from. *)
Answered(f) == In(Command("admit", f), commands)
Open(f) == In(f, offers) \/ f \in admissions
Stored(f) == answering = f \/ Answered(f) \/ f \in calls \/ EndsIn(f, events)

(* A fax is at one place at a time: not there, offered, being stored, on   *)
(* its way to an answer, answered, on its way to its end.                  *)
OnePlace(f) ==
    /\ account[f] = None => f \notin admission \cup admissions /\ ~In(f, offers) /\ ids[f] = None
    /\ account[f] = None \/ Open(f) => row[f] = "Absent"
    /\ ~(In(f, offers) /\ f \in admissions)
    /\ Stored(f) => row[f] = "Receiving"
    /\ answering = f => ~Answered(f) /\ f \notin calls /\ ~EndsIn(f, events)
    /\ Answered(f) => f \notin calls /\ ~EndsIn(f, events)
    /\ f \in calls => ~EndsIn(f, events)
    /\ OnceIn(Command("admit", f), commands)

Places == Distinct(offers) /\ EndsApart(events) /\ \A f \in Faxes : OnePlace(f)

(* A stop is the last the service hears, and without faults the only end   *)
(* of its loop.                                                            *)
StopIsLast ==
    /\ phase # "Running" => answering = None
    /\ stopper # "none" \/ In(Command("stop", None), commands) => phase # "Running"
    /\ NoAdmitAfterStop(commands)
    /\ faults = 0 /\ loop # "running" =>
          /\ phase # "Running"
          /\ \A f \in Faxes : ~Answered(f) /\ f \notin calls

Followed == \A f \in Faxes : row[f] = "Receiving" => Stored(f)

Inv == TypeOK /\ Slots /\ Places /\ StopIsLast /\ (faults = 0 => Followed)

-----------------------------------------------------------------------------
(* What a step does to the channels *)

LEMMA TypeCommands == TypeOK => commands \in Seq(Commands) /\ events \in Seq(Events)
  BY DEF TypeOK, Commands, Events

LEMMA CommandKinds ==
    /\ \A f \in Faxes : \A what \in {"admit", "refuse", "reject", "cancel"} : Command(what, f) \in Commands
    /\ \A a \in Accounts \cup {None} : Command("configure", a) \in Commands
    /\ Command("stop", None) \in Commands
    /\ \A w, x, f, g : Command(w, f) = Command(x, g) <=> w = x /\ f = g
    /\ \A w, f : Command(w, f).what = w /\ Command(w, f).of = f
  <1>1. \A w, x, f, g : Command(w, f) = Command(x, g) <=> w = x /\ f = g
    <2> SUFFICES ASSUME NEW w, NEW x, NEW f, NEW g, Command(w, f) = Command(x, g)
                 PROVE  w = x /\ f = g
      OBVIOUS
    <2>1. Command(w, f).what = w /\ Command(w, f).of = f
      BY DEF Command
    <2>2. Command(x, g).what = x /\ Command(x, g).of = g
      BY DEF Command
    <2> QED
      BY <2>1, <2>2
  <1> QED
    BY <1>1 DEF Command, Commands

(* One more command, unless the service is gone. *)
LEMMA SendIn ==
    ASSUME TypeOK, NEW what, NEW of, Command(what, of) \in Commands, Send(what, of)
    PROVE  /\ commands' \in Seq(Commands)
           /\ \A x : In(x, commands') <=> In(x, commands) \/ (loop # "gone" /\ x = Command(what, of))
           /\ \A x : OnceIn(x, commands) /\ ~(x = Command(what, of) /\ In(x, commands))
                       => OnceIn(x, commands')
           /\ NoAdmitAfterStop(commands) /\ (what = "admit" => ~In(Command("stop", None), commands))
                => NoAdmitAfterStop(commands')
  <1>1. commands \in Seq(Commands)
    BY TypeCommands
  <1>2. CASE loop = "gone"
    BY <1>1, <1>2 DEF Send
  <1>3. CASE loop # "gone"
    <2> DEFINE e == Command(what, of)
    <2>1. commands' = Append(commands, e)
      BY <1>3 DEF Send
    <2>2. e.what = what
      BY CommandKinds
    <2> HIDE DEF e
    <2>3. e \in Commands
      BY DEF e
    <2>4. \A i \in DOMAIN commands : commands[i].what = "stop" => commands[i] = Command("stop", None)
      <3> SUFFICES ASSUME NEW i \in DOMAIN commands, commands[i].what = "stop"
                   PROVE  commands[i] = Command("stop", None)
        OBVIOUS
      <3>1. commands[i] \in Commands
        BY <1>1, LenProperties, ElementOfSeq
      <3> QED
        BY <3>1 DEF Commands, Command
    <2>5. ~In(Command("stop", None), commands) => \A i \in DOMAIN commands : commands[i].what # "stop"
      BY <2>4 DEF In
    <2>6. /\ Append(commands, e) \in Seq(Commands)
          /\ \A x : In(x, Append(commands, e)) <=> In(x, commands) \/ x = e
          /\ \A x : OnceIn(x, commands) /\ ~(x = e /\ In(x, commands)) => OnceIn(x, Append(commands, e))
          /\ NoAdmitAfterStop(commands) /\ (e.what = "admit" => \A i \in DOMAIN commands : commands[i].what # "stop")
               => NoAdmitAfterStop(Append(commands, e))
      BY <1>1, <2>3, AppendIn
    <2> QED
      BY <1>3, <2>1, <2>2, <2>5, <2>6 DEF e
  <1> QED
    BY <1>2, <1>3

(* The service takes its next command. *)
LEMMA TakeIn ==
    ASSUME TypeOK, NEW what, Takes(what)
    PROVE  /\ commands' \in Seq(Commands) /\ Head(commands) \in Commands
           /\ Head(commands) = Command(what, Head(commands).of)
           /\ \A x : In(x, commands) <=> In(x, commands') \/ x = Head(commands)
           /\ \A x : OnceIn(x, commands) => OnceIn(x, commands') /\ ~(x = Head(commands) /\ In(x, commands'))
           /\ NoAdmitAfterStop(commands) => NoAdmitAfterStop(commands')
  <1>1. /\ commands \in Seq(Commands) /\ commands # <<>>
        /\ commands' = Tail(commands) /\ Head(commands).what = what
    BY TypeCommands DEF Takes
  <1>2. Head(commands) \in Commands
    BY <1>1, TailIn
  <1>3. Head(commands) = Command(what, Head(commands).of)
    BY <1>1, <1>2 DEF Commands, Command
  <1> QED
    BY <1>1, <1>2, <1>3, TailIn

(* The calls of a set end. *)
LEMMA FinishesIn ==
    ASSUME TypeOK, NEW set \in SUBSET Faxes, NEW how \in Results, Finish(set, how)
    PROVE  /\ calls' = calls \ set
           /\ events' \in Seq(Events)
           /\ \A f : EndsIn(f, events') <=> EndsIn(f, events) \/ f \in set
           /\ EndsApart(events) /\ (\A f \in set : ~EndsIn(f, events)) => EndsApart(events')
  <1>1. PICK q \in Lists(set) : events' = events \o [i \in DOMAIN q |-> Finished(q[i], how)]
    BY DEF Finish
  <1>2. events \in Seq(Events)
    BY TypeCommands
  <1>3. calls' = calls \ set
    BY DEF Finish
  <1> DEFINE new == events \o [i \in DOMAIN q |-> Finished(q[i], how)]
  <1>4. /\ new \in Seq(Events)
        /\ \A f : EndsIn(f, new) <=> EndsIn(f, events) \/ f \in set
        /\ EndsApart(events) /\ (\A f \in set : ~EndsIn(f, events)) => EndsApart(new)
    BY <1>2, FinishIn
  <1> HIDE DEF new
  <1>5. events' = new
    BY <1>1 DEF new
  <1> QED
    BY <1>3, <1>4, <1>5

(* The end of one call is reported. *)
LEMMA ReportIn ==
    ASSUME TypeOK, NEW f \in Faxes, NEW how \in Results, events' = Append(events, Finished(f, how))
    PROVE  /\ events' \in Seq(Events)
           /\ \A g : EndsIn(g, events') <=> EndsIn(g, events) \/ g = f
           /\ EndsApart(events) /\ ~EndsIn(f, events) => EndsApart(events')
  <1> DEFINE e == Finished(f, how)
  <1>1. events \in Seq(Events) /\ e \in Events /\ e.of = f
    BY TypeCommands DEF Events, Finished
  <1> HIDE DEF e
  <1>2. events' = Append(events, e)
    BY DEF e
  <1> QED
    BY <1>1, <1>2, AppendIn

(* The actor takes the next event. *)
LEMMA EventIn ==
    ASSUME TypeOK, events # <<>>, events' = Tail(events)
    PROVE  /\ events' \in Seq(Events) /\ Head(events) \in Events
           /\ EndsIn(Head(events).of, events)
           /\ \A g : EndsIn(g, events) <=> EndsIn(g, events') \/ g = Head(events).of
           /\ EndsApart(events) => EndsApart(events') /\ ~EndsIn(Head(events).of, events')
  BY TypeCommands, TailIn

(* The actor takes the next offer. *)
LEMMA OfferIn ==
    ASSUME TypeOK, TakesOffer
    PROVE  /\ offers' \in Seq(Faxes) /\ Head(offers) \in Faxes /\ In(Head(offers), offers)
           /\ \A g : In(g, offers) <=> In(g, offers') \/ g = Head(offers)
           /\ Distinct(offers) => Distinct(offers') /\ ~In(Head(offers), offers')
  BY TailIn DEF TypeOK, TakesOffer

-----------------------------------------------------------------------------
(* Type correctness *)

LEMMA TypeInit == Init => TypeOK
  <1> SUFFICES ASSUME Init PROVE TypeOK
    OBVIOUS
  <1>1. <<>> \in Seq(Accounts) /\ <<>> \in Seq(Commands) /\ <<>> \in Seq(Faxes) /\ <<>> \in Seq(Events)
    OBVIOUS
  <1> QED
    BY <1>1 DEF Init, TypeOK, Outcomes, None, Commands, Events

(* The service forgets calls and admissions, and reports the calls.        *)
LEMMA TypeLoses ==
    ASSUME TypeOK, NEW set \in SUBSET Faxes, Loses(set)
    PROVE  /\ admission' = admission \ set /\ valid' = valid \ (admission \cap set)
           /\ calls' = calls \ set
           /\ events' \in Seq(Events)
           /\ \A f : EndsIn(f, events') <=> EndsIn(f, events) \/ f \in calls \cap set
           /\ EndsApart(events) /\ (\A f \in calls \cap set : ~EndsIn(f, events)) => EndsApart(events')
           /\ ids' = [f \in Faxes |-> IF f \in set THEN None ELSE ids[f]]
           /\ UNCHANGED <<loop, desired, account, cancelled, late, hungup, commands, offers, actor, rest>>
  <1>1. "error" \in Results /\ calls \cap set \in SUBSET Faxes
    BY DEF Results
  <1>2. Finish(calls \cap set, "error")
    BY DEF Loses
  <1> DEFINE lost == calls \cap set
  <1> HIDE DEF lost
  <1>3. lost \in SUBSET Faxes /\ Finish(lost, "error")
    BY <1>1, <1>2 DEF lost
  <1>4. /\ calls' = calls \ lost
        /\ events' \in Seq(Events)
        /\ \A f : EndsIn(f, events') <=> EndsIn(f, events) \/ f \in lost
        /\ EndsApart(events) /\ (\A f \in lost : ~EndsIn(f, events)) => EndsApart(events')
    BY <1>1, <1>3, FinishesIn
  <1>5. /\ admission' = admission \ set /\ valid' = valid \ (admission \cap set)
        /\ ids' = [f \in Faxes |-> IF f \in set THEN None ELSE ids[f]]
        /\ UNCHANGED <<loop, desired, account, cancelled, late, hungup, commands, offers, actor, rest>>
    BY DEF Loses, Drop, Forget
  <1> QED
    BY <1>4, <1>5 DEF lost

(* The loop ends: every call with it, and what was asked of it. *)
LEMMA TypeTearDown ==
    ASSUME TypeOK, NEW how \in Results, TearDown(how)
    PROVE  /\ loop' = "down" /\ available' = <<>> /\ commands' = <<>>
           /\ admission' = {} /\ valid' = valid \ admission /\ calls' = {}
           /\ events' \in Seq(Events)
           /\ \A f : EndsIn(f, events') <=> EndsIn(f, events) \/ f \in calls
           /\ EndsApart(events) /\ (\A f \in calls : ~EndsIn(f, events)) => EndsApart(events')
           /\ UNCHANGED <<desired, ids, account, cancelled, late, hungup, offers, actor>>
  <1>1. calls \in SUBSET Faxes
    BY DEF TypeOK
  <1>2. Finish(calls, how)
    BY DEF TearDown
  <1>3. /\ calls' = calls \ calls
        /\ events' \in Seq(Events)
        /\ \A f : EndsIn(f, events') <=> EndsIn(f, events) \/ f \in calls
        /\ EndsApart(events) /\ (\A f \in calls : ~EndsIn(f, events)) => EndsApart(events')
    BY <1>1, <1>2, FinishesIn
  <1> QED
    BY <1>3 DEF TearDown, Drop

(* A reply is sent, or an offer is taken: the rows and the actor stay sound. *)
LEMMA TypeAccepts ==
    ASSUME TypeOK, NEW f \in Faxes, Accepts(f)
    PROVE  /\ commands' \in Seq(Commands) /\ row' \in [Faxes -> Outcomes]
           /\ answering' \in Faxes \cup {None} /\ faults' \in Nat
  <1>1. CASE Reserves(f)
    BY <1>1, TypeCommands DEF Reserves, TypeOK, Outcomes
  <1>2. CASE ReserveFails(f)
    <2>1. Command("refuse", f) \in Commands /\ Send("refuse", f)
      BY <1>2, CommandKinds DEF ReserveFails
    <2> QED
      BY <1>2, <2>1, SendIn DEF ReserveFails, Fault, TypeOK
  <1> QED
    BY <1>1, <1>2 DEF Accepts

(* Every step of a call's way keeps the shape of the state. *)
LEMMA TypeNext == TypeOK /\ [Next]_vars => TypeOK'
  <1> SUFFICES ASSUME TypeOK, [Next]_vars PROVE TypeOK'
    OBVIOUS
  <1> USE DEF service, channels, actor, rest, Commands, Events
  <1>a. commands \in Seq(Commands) /\ events \in Seq(Events)
    BY TypeCommands
  <1>1. ASSUME NEW f \in Faxes, NEW c \in Callers, Invite(f, c) PROVE TypeOK'
    <2>1. Head(available) \in Accounts /\ Tail(available) \in Seq(Accounts)
      BY <1>1, HeadTailProperties DEF Invite, TypeOK
    <2>2. offers' \in Seq(Faxes)
      BY <1>1, AppendProperties DEF Invite, TypeOK
    <2> QED
      BY <1>1, <2>1, <2>2 DEF Invite, TypeOK
  <1>2. CASE InviteFails
    <2>1. Tail(available) \in Seq(Accounts)
      BY <1>2, HeadTailProperties DEF InviteFails, TypeOK
    <2> QED
      BY <1>2, <2>1 DEF InviteFails, TypeOK
  <1>3. CASE Expire
    BY <1>3 DEF Expire, Drop, Forget, TypeOK
  <1>4. ASSUME NEW f \in Faxes, CallEnds(f) PROVE TypeOK'
    <2>1. PICK how \in Results : Finish({f}, how)
      BY <1>4 DEF CallEnds
    <2>2. events' \in Seq(Events) /\ calls' = calls \ {f}
      BY <2>1, FinishesIn
    <2> QED
      BY <1>4, <2>2 DEF CallEnds, Forget, TypeOK
  <1>5. CASE Sleeps
    <2> DEFINE set == admission \cup calls
    <2>1. set \in SUBSET Faxes
      BY DEF TypeOK
    <2> HIDE DEF set
    <2>2. Loses(set)
      BY <1>5 DEF Sleeps, set
    <2>3. /\ admission' \subseteq admission /\ valid' \subseteq valid /\ calls' \subseteq calls
          /\ events' \in Seq(Events)
          /\ ids' = [f \in Faxes |-> IF f \in set THEN None ELSE ids[f]]
          /\ UNCHANGED <<loop, desired, account, cancelled, late, hungup, commands, offers, actor, rest>>
      BY <2>1, <2>2, TypeLoses
    <2> QED
      BY <1>5, <2>3 DEF Sleeps, TypeOK
  <1>6. ASSUME NEW a \in Accounts, ConnectionFails(a) PROVE TypeOK'
    <2> DEFINE set == {f \in admission \cup calls : account[f] = a}
    <2>1. set \in SUBSET Faxes
      BY DEF TypeOK
    <2>2. Loses(set)
      BY <1>6 DEF ConnectionFails
    <2> HIDE DEF set
    <2>3. available' \in Seq(Accounts)
      BY <1>6 DEF ConnectionFails, TypeOK
    <2>4. /\ admission' \subseteq admission /\ valid' \subseteq valid /\ calls' \subseteq calls
          /\ events' \in Seq(Events)
          /\ ids' = [f \in Faxes |-> IF f \in set THEN None ELSE ids[f]]
          /\ UNCHANGED <<loop, desired, account, cancelled, late, hungup, commands, offers, actor, rest>>
      BY <2>1, <2>2, TypeLoses
    <2> QED
      BY <2>3, <2>4 DEF TypeOK
  <1>7. CASE Reconnect
    BY <1>7 DEF Reconnect, TypeOK
  <1>8. CASE Refill
    <2> DEFINE n == Limit - Cardinality(Occupied)
    <2>1. n \in Nat
      <3>1. IsFiniteSet(Occupied)
        BY ReceptionAssumption, FS_Subset DEF Occupied
      <3>2. Cardinality(Occupied) \in Nat /\ Len(available) \in Nat
        BY <3>1, FS_CardinalityType, LenProperties DEF TypeOK
      <3> QED
        BY <1>8, <3>2, ReceptionAssumption DEF Refill
    <2> HIDE DEF n
    <2>2. \A i \in 1..n : i <= Len(available) => available[i] \in Accounts
      BY LenProperties, ElementOfSeq DEF TypeOK
    <2>3. available' = [i \in 1..n |-> IF i <= Len(available) THEN available[i] ELSE desired]
      BY <1>8 DEF Refill, n
    <2>4. desired \in Accounts
      BY <1>8 DEF Refill, TypeOK
    <2>5. available' \in Seq(Accounts)
      BY <2>1, <2>2, <2>3, <2>4, SeqDef
    <2> QED
      BY <1>8, <2>5 DEF Refill, TypeOK
  <1>9. CASE LoopFails
    <2>1. "error" \in Results /\ TearDown("error") /\ <<>> \in Seq(Accounts)
      BY <1>9 DEF LoopFails, Results
    <2>2. faults' \in Nat /\ UNCHANGED <<stopper, configs>>
      BY <1>9 DEF LoopFails, Fault, TypeOK
    <2>3. /\ loop' = "down" /\ available' = <<>> /\ commands' = <<>>
          /\ admission' = {} /\ valid' = valid \ admission /\ calls' = {}
          /\ events' \in Seq(Events)
          /\ UNCHANGED <<desired, ids, account, cancelled, late, hungup, offers, actor>>
      BY <2>1, TypeTearDown
    <2> QED
      BY <2>1, <2>2, <2>3 DEF TypeOK
  <1>10. CASE Configure
    <2>1. Takes("configure") /\ desired' = Head(commands).of
      BY <1>10 DEF Configure
    <2>2. /\ commands' \in Seq(Commands) /\ Head(commands) \in Commands
          /\ Head(commands).what = "configure"
      BY <2>1, TakeIn DEF Takes
    <2>3. desired' \in Accounts \cup {None}
      BY <2>1, <2>2
    <2> QED
      BY <1>10, <2>2, <2>3 DEF Configure, TypeOK
  <1>11. CASE CancelIncoming
    <2>1. commands' \in Seq(Commands)
      BY <1>11, TakeIn DEF CancelIncoming
    <2> QED
      BY <1>11, <2>1 DEF CancelIncoming, TypeOK
  <1>12. CASE Refuse
    <2>1. commands' \in Seq(Commands)
      BY <1>12, TakeIn DEF Refuse
    <2> QED
      BY <1>12, <2>1 DEF Refuse, Drop, Forget, TypeOK
  <1>13. CASE Answer
    <2>1. commands' \in Seq(Commands)
      BY <1>13, TakeIn DEF Answer
    <2> QED
      BY <1>13, <2>1 DEF Answer, Drop, TypeOK
  <1>14. CASE AnswerFails
    <2>1. commands' \in Seq(Commands)
      BY <1>14, TakeIn DEF AnswerFails
    <2>2. Head(commands).of \in Faxes
      BY <1>14 DEF AnswerFails, TypeOK
    <2>3. events' \in Seq(Events)
      BY <1>14, <2>2, ReportIn DEF AnswerFails, Results
    <2> QED
      BY <1>14, <2>1, <2>3 DEF AnswerFails, Drop, Forget, TypeOK
  <1>15. CASE AnswerNobody
    <2>1. commands' \in Seq(Commands) /\ Head(commands) \in Commands /\ Head(commands).what = "admit"
      BY <1>15, TakeIn DEF AnswerNobody, Takes
    <2>2. Head(commands).of \in Faxes
      BY <2>1
    <2>3. events' \in Seq(Events)
      BY <1>15, <2>2, ReportIn DEF AnswerNobody, Results
    <2> QED
      BY <1>15, <2>1, <2>3 DEF AnswerNobody, TypeOK
  <1>16. CASE StopCommand
    <2>1. "cancelled" \in Results /\ TearDown("cancelled") /\ UNCHANGED rest /\ <<>> \in Seq(Accounts)
      BY <1>16 DEF StopCommand, Results
    <2>2. /\ loop' = "down" /\ available' = <<>> /\ commands' = <<>>
          /\ admission' = {} /\ valid' = valid \ admission /\ calls' = {}
          /\ events' \in Seq(Events)
          /\ UNCHANGED <<desired, ids, account, cancelled, late, hungup, offers, actor>>
      BY <2>1, TypeTearDown
    <2> QED
      BY <2>1, <2>2 DEF TypeOK
  <1>17. CASE LoopGone
    BY <1>17 DEF LoopGone, TypeOK
  <1>18. ASSUME NEW f \in Faxes, Hangup(f) \/ DeadlinePasses(f) PROVE TypeOK'
    BY <1>18 DEF Hangup, DeadlinePasses, TypeOK
  <1>19. CASE OfferExpired
    <2>1. /\ offers' \in Seq(Faxes) /\ Head(offers) \in Faxes
      BY <1>19, OfferIn DEF OfferExpired
    <2>2. commands' \in Seq(Commands)
      BY <1>19, <2>1, SendIn, CommandKinds DEF OfferExpired
    <2> QED
      BY <1>19, <2>1, <2>2 DEF OfferExpired, TakesOffer, Pending, TypeOK
  <1>20. CASE OfferAccepted
    <2>1. /\ offers' \in Seq(Faxes) /\ Head(offers) \in Faxes
      BY <1>20, OfferIn DEF OfferAccepted
    <2> QED
      BY <1>20, <2>1, TypeAccepts DEF OfferAccepted, TakesOffer, Pending, TypeOK
  <1>21. CASE OfferShown
    <2>1. /\ offers' \in Seq(Faxes) /\ Head(offers) \in Faxes
      BY <1>21, OfferIn DEF OfferShown
    <2>2. commands' \in Seq(Commands)
      BY <1>21, <2>1, SendIn, CommandKinds, TypeCommands DEF OfferShown
    <2>3. inbox' \in Seq(Faxes)
      <3>1. inbox \in Seq(Faxes) /\ Append(inbox, Head(offers)) \in Seq(Faxes)
        BY <2>1, AppendProperties DEF TypeOK
      <3>2. inbox' = inbox \/ inbox' = Append(inbox, Head(offers))
        BY <1>21 DEF OfferShown
      <3> QED
        BY <3>1, <3>2
    <2> QED
      BY <1>21, <2>1, <2>2, <2>3 DEF OfferShown, TakesOffer, Pending, TypeOK
  <1>22. CASE ReadOffer
    BY <1>22, HeadTailProperties DEF ReadOffer, TypeOK
  <1>23. ASSUME NEW f \in Faxes, AcceptIncoming(f) PROVE TypeOK'
    BY <1>23, TypeAccepts DEF AcceptIncoming, Decides, TypeOK
  <1>24. ASSUME NEW f \in Faxes, RejectIncoming(f) PROVE TypeOK'
    <2>1. commands' \in Seq(Commands)
      BY <1>24, SendIn, CommandKinds DEF RejectIncoming
    <2> QED
      BY <1>24, <2>1 DEF RejectIncoming, Decides, TypeOK
  <1>25. ASSUME NEW f \in Faxes, DecisionTooLate(f) PROVE TypeOK'
    BY <1>25 DEF DecisionTooLate, Decides, TypeOK
  <1>26. ASSUME NEW f \in Faxes, CancelReception(f) PROVE TypeOK'
    <2>1. commands' \in Seq(Commands)
      BY <1>26, SendIn, CommandKinds DEF CancelReception
    <2> QED
      BY <1>26, <2>1 DEF CancelReception, TypeOK
  <1>27. ASSUME NEW a \in Accounts \cup {None}, ConfigureReceiver(a) PROVE TypeOK'
    <2>1. commands' \in Seq(Commands)
      BY <1>27, SendIn, CommandKinds DEF ConfigureReceiver
    <2> QED
      BY <1>27, <2>1 DEF ConfigureReceiver, TypeOK
  <1>28. CASE Stop
    <2>1. admissions \in SUBSET Faxes
      BY DEF TypeOK
    <2>2. PICK q \in Lists(admissions) :
             commands' = IF loop = "gone" THEN commands
                         ELSE commands \o [i \in DOMAIN q |-> Command("reject", q[i])]
      BY <1>28 DEF Stop
    <2>3. [i \in DOMAIN q |-> Command("reject", q[i])] \in Seq(Commands)
      BY <2>1, RejectIn
    <2>4. commands' \in Seq(Commands)
      BY <1>a, <2>2, <2>3, ConcatProperties
    <2> QED
      BY <1>28, <2>4 DEF Stop, TypeOK
  <1>29. CASE Respond
    <2>1. answering \in Faxes
      BY <1>29 DEF Respond, TypeOK
    <2>2. commands' \in Seq(Commands)
      BY <1>29, <2>1, SendIn, CommandKinds, TypeCommands DEF Respond
    <2>3. row' \in [Faxes -> Outcomes]
      BY <1>29, <2>1 DEF Respond, TypeOK, Outcomes, Ends, CallEnd
    <2> QED
      BY <1>29, <2>2, <2>3 DEF Respond, TypeOK
  <1>30. CASE RespondFails
    BY <1>30 DEF RespondFails, Fault, TypeOK
  <1>31. CASE Received
    <2>1. events' \in Seq(Events) /\ Head(events) \in Events
      BY <1>31, EventIn DEF Received
    <2>2. Outcome(Head(events).how) \in Outcomes
      BY DEF Outcome, Outcomes, Ends, CallEnd
    <2>3. row' \in [Faxes -> Outcomes]
      BY <1>31, <2>2 DEF Received, TypeOK
    <2> QED
      BY <1>31, <2>1, <2>3 DEF Received, TypeOK
  <1>32. CASE ReceivedFails
    <2>1. events' \in Seq(Events)
      BY <1>32, EventIn DEF ReceivedFails
    <2> QED
      BY <1>32, <2>1 DEF ReceivedFails, Fault, TypeOK
  <1>33. CASE ShutdownSends
    <2>1. commands' \in Seq(Commands)
      BY <1>33, SendIn, CommandKinds DEF ShutdownSends
    <2> QED
      BY <1>33, <2>1 DEF ShutdownSends, TypeOK
  <1>34. CASE ShutdownJoins
    BY <1>34 DEF ShutdownJoins, TypeOK
  <1>35. CASE Stopped
    BY <1>35 DEF Stopped, TypeOK
  <1>36. CASE UNCHANGED vars
    BY <1>36 DEF vars, TypeOK
  <1>37. ASSUME NEW f \in Faxes, Recovers(f) PROVE TypeOK'
    <2>1. row' \in [Faxes -> Outcomes]
      BY <1>37 DEF Recovers, TypeOK, Outcomes, Ends
    <2> QED
      BY <1>37, <2>1 DEF Recovers, TypeOK
  <1> QED
    BY <1>1, <1>2, <1>3, <1>4, <1>5, <1>6, <1>7, <1>8, <1>9, <1>10, <1>11, <1>12, <1>13, <1>14,
       <1>15, <1>16, <1>17, <1>18, <1>19, <1>20, <1>21, <1>22, <1>23, <1>24, <1>25, <1>26, <1>27,
       <1>28, <1>29, <1>30, <1>31, <1>32, <1>33, <1>34, <1>35, <1>36, <1>37, NextIsActions DEF Actions

(* Every variable of a reception keeps its shape. *)
THEOREM TypeCorrect == Spec => []TypeOK
  BY TypeInit, TypeNext, PTL DEF Spec

-----------------------------------------------------------------------------
(* Calls and slots *)

LEMMA FewCalls == /\ IsFiniteSet(Occupied) /\ Cardinality(Occupied) \in Nat
                  /\ \A set \in SUBSET Occupied :
                        IsFiniteSet(set) /\ Cardinality(set) \in Nat /\ Cardinality(set) <= Cardinality(Occupied)
  <1>1. IsFiniteSet(Occupied)
    BY ReceptionAssumption, FS_Subset DEF Occupied
  <1> QED
    BY <1>1, FS_CardinalityType, FS_Subset

LEMMA FewSlots == TypeOK => Len(available) \in Nat /\ DOMAIN available = 1..Len(available)
  BY LenProperties DEF TypeOK

LEMMA SlotsInit == Init => Slots
  <1> SUFFICES ASSUME Init PROVE Slots
    OBVIOUS
  <1>1. Occupied = {}
    BY DEF Init, Occupied
  <1>2. Cardinality({}) = 0
    BY FS_EmptySet
  <1>3. Len(<<>>) = 0 /\ DOMAIN <<>> = {}
    OBVIOUS
  <1>4. available = <<>> /\ admission = {} /\ calls = {} /\ valid = {} /\ admissions = {} /\ loop = "running"
    BY DEF Init
  <1>5. AdmissionsBounded
    BY <1>2, <1>4, ReceptionAssumption DEF AdmissionsBounded
  <1>6. Cardinality(Occupied) + Len(available) <= Limit
    BY <1>1, <1>2, <1>3, <1>4, ReceptionAssumption
  <1> QED
    BY <1>1, <1>3, <1>4, <1>5, <1>6 DEF Slots, OneAccount, OneCallPerInvite

(* The actor forgets open offers, or keeps the pending ones and one more.  *)
LEMMA FewOffers ==
    ASSUME TypeOK, Slots, admissions' \subseteq admissions \/ admissions' \subseteq valid
    PROVE  AdmissionsBounded'
  <1>1. CASE admissions' \subseteq admissions
    <2>1. IsFiniteSet(admissions)
      BY ReceptionAssumption, FS_Subset DEF TypeOK
    <2>2. /\ Cardinality(admissions') \in Nat /\ Cardinality(admissions) \in Nat
          /\ Cardinality(admissions') <= Cardinality(admissions)
      BY <1>1, <2>1, FS_Subset, FS_CardinalityType
    <2> QED
      BY <2>2, ReceptionAssumption DEF Slots, AdmissionsBounded
  <1>2. CASE admissions' \subseteq valid /\ loop = "running"
    <2>1. admissions' \in SUBSET Occupied
      BY <1>2 DEF Slots
    <2>2. Cardinality(admissions') \in Nat /\ Cardinality(admissions') <= Cardinality(Occupied)
      BY <2>1, FewCalls
    <2> DEFINE n == Cardinality(Occupied)
               m == Cardinality(admissions')
               k == Len(available)
    <2>3. n + k <= Limit /\ n \in Nat /\ k \in Nat /\ m \in Nat /\ m <= n
      BY <1>2, <2>2, FewCalls, FewSlots DEF Slots
    <2> HIDE DEF n, m, k
    <2>4. m <= Limit
      BY <2>3, ReceptionAssumption
    <2> QED
      BY <2>4 DEF m, AdmissionsBounded
  <1>3. CASE admissions' \subseteq valid /\ loop # "running"
    <2>1. admissions' = {}
      BY <1>3 DEF Slots
    <2>2. Cardinality(admissions') = 0
      BY <2>1, FS_EmptySet
    <2> QED
      BY <2>2, ReceptionAssumption DEF AdmissionsBounded
  <1> QED
    BY <1>1, <1>2, <1>3

(* A step of the actor: the service is where it was. *)
LEMMA SlotsSame ==
    ASSUME TypeOK, Slots, UNCHANGED <<loop, desired, available, ids, account, admission, calls, valid>>,
           admissions' \subseteq admissions \/ admissions' \subseteq valid
    PROVE  Slots'
  <1>1. AdmissionsBounded'
    BY FewOffers
  <1>2. Occupied' = Occupied
    BY DEF Occupied
  <1> QED
    BY <1>1, <1>2 DEF Slots, OneAccount, OneCallPerInvite

(* Calls and admissions that end give up their places, and no slot comes.  *)
LEMMA SlotsForget ==
    ASSUME TypeOK, Slots, loop = "running", NEW set \in SUBSET Faxes, Forget(set),
           admission' = admission \ set, valid' = valid \ set, calls' = calls \ set,
           available' = available \/ available' = <<>>,
           UNCHANGED <<loop, desired, account, admissions>>
    PROVE  Slots'
  <1>1. AdmissionsBounded'
    BY FewOffers
  <1>2. /\ Occupied' = Occupied \ set
        /\ \A f \in Occupied' : ids'[f] = ids[f]
    BY DEF Occupied, Forget
  <1> DEFINE n == Cardinality(Occupied)
             m == Cardinality(Occupied')
             k == Len(available)
             j == Len(available')
  <1>3. n \in Nat /\ m \in Nat /\ m <= n
    BY <1>2, FewCalls
  <1>4. k \in Nat /\ j \in Nat /\ j <= k
    <2>1. k \in Nat
      BY FewSlots
    <2>2. Len(<<>>) = 0
      OBVIOUS
    <2>3. CASE available' = available
      BY <2>1, <2>3
    <2>4. CASE available' = <<>>
      BY <2>1, <2>2, <2>4
    <2> QED
      BY <2>3, <2>4
  <1>5. n + k <= Limit
    BY DEF Slots
  <1> HIDE DEF n, m, k, j
  <1>6. m + j <= Limit
    BY <1>3, <1>4, <1>5, ReceptionAssumption
  <1>7. \A i \in DOMAIN available' : i \in DOMAIN available /\ available'[i] = available[i]
    OBVIOUS
  <1>8. OneAccount'
    BY <1>2, <1>7 DEF Slots, OneAccount
  <1>9. OneCallPerInvite'
    BY <1>2 DEF Slots, OneCallPerInvite
  <1>10. Occupied' = admission' \cup calls' /\ admission' \cap calls' = {}
    BY <1>2 DEF Slots
  <1> QED
    BY <1>1, <1>2, <1>6, <1>8, <1>9, <1>10 DEF Slots, m, j

(* The loop ends: its calls are no more counted. *)
LEMMA SlotsTornDown ==
    ASSUME TypeOK, Slots, NEW how \in Results, TearDown(how)
    PROVE  Slots'
  <1>1. /\ loop' = "down" /\ admission' = {} /\ calls' = {} /\ valid' = valid \ admission
        /\ UNCHANGED <<ids, account, actor>>
    BY TypeTearDown
  <1>2. AdmissionsBounded'
    BY <1>1, FewOffers DEF actor
  <1>3. Occupied' = Occupied
    BY <1>1 DEF Occupied
  <1> QED
    BY <1>1, <1>2, <1>3 DEF Slots, OneAccount, OneCallPerInvite

LEMMA SlotsNext == TypeOK /\ Slots /\ [Next]_vars => Slots'
  <1> SUFFICES ASSUME TypeOK, Slots, [Next]_vars PROVE Slots'
    OBVIOUS
  <1> USE DEF service, channels, actor, rest
  <1> DEFINE n == Cardinality(Occupied)
             k == Len(available)
  <1>a. n \in Nat /\ k \in Nat /\ DOMAIN available = 1..k /\ Limit \in Nat
    BY FewCalls, FewSlots, ReceptionAssumption
  <1>b. loop = "running" => n + k <= Limit
    BY DEF Slots
  <1> HIDE DEF n, k
  <1>c. \A l, o, t \in Nat : l + o <= t /\ o # 0 => l + (o - 1) <= t /\ l + 1 + (o - 1) <= t
    OBVIOUS
  <1>d. available # <<>> =>
          /\ k # 0 /\ Len(Tail(available)) = k - 1 /\ DOMAIN Tail(available) = 1..(k - 1)
          /\ \A i \in 1..(k - 1) : i + 1 \in 1..k /\ Tail(available)[i] = available[i + 1]
          /\ 1 \in 1..k /\ Head(available) = available[1]
          /\ Head(available) \in Accounts
    <2> SUFFICES ASSUME available # <<>>
                 PROVE  /\ k # 0 /\ Len(Tail(available)) = k - 1 /\ DOMAIN Tail(available) = 1..(k - 1)
                        /\ \A i \in 1..(k - 1) : i + 1 \in 1..k /\ Tail(available)[i] = available[i + 1]
                        /\ 1 \in 1..k /\ Head(available) = available[1]
                        /\ Head(available) \in Accounts
      OBVIOUS
    <2>1. /\ Head(available) \in Accounts /\ Tail(available) \in Seq(Accounts)
          /\ Len(Tail(available)) = k - 1 /\ \A i \in 1..Len(Tail(available)) : Tail(available)[i] = available[i + 1]
      BY HeadTailProperties DEF TypeOK, k
    <2>2. k # 0
      BY EmptySeq DEF TypeOK, k
    <2>3. DOMAIN Tail(available) = 1..(k - 1)
      BY <2>1, LenProperties
    <2>4. 1 \in 1..k /\ \A i \in 1..(k - 1) : i + 1 \in 1..k
      BY <1>a, <2>2
    <2> QED
      BY <2>1, <2>2, <2>3, <2>4
  <1>1. ASSUME NEW f \in Faxes, NEW c \in Callers, Invite(f, c) PROVE Slots'
    <2>1. f \notin Occupied /\ c # None /\ Head(available) # None
      BY <1>1, <1>d, ReceptionAssumption DEF Invite, Slots, None
    <2>2. /\ Occupied' = Occupied \cup {f}
          /\ ids'[f] = c /\ account'[f] = Head(available)
          /\ \A g \in Occupied : ids'[g] = ids[g] /\ account'[g] = account[g]
      BY <1>1, <2>1 DEF Invite, Occupied, TypeOK
    <2>3. Cardinality(Occupied') = n + 1
      BY <2>1, <2>2, FewCalls, FS_AddElement DEF n
    <2>4. Cardinality(Occupied') + Len(available') <= Limit
      <3>1. n + k <= Limit /\ k # 0 /\ Len(available') = k - 1
        BY <1>1, <1>b, <1>d DEF Invite
      <3>2. n + 1 + (k - 1) <= Limit
        BY <1>a, <1>c, <3>1
      <3> QED
        BY <2>3, <3>1, <3>2
    <2>5. OneAccount'
      <3>1. /\ \A g \in Occupied : account[g] = desired
            /\ Head(available) = desired
            /\ \A i \in DOMAIN available' : available'[i] = desired
            /\ UNCHANGED desired
        BY <1>1, <1>a, <1>d DEF Invite, Slots, OneAccount
      <3> QED
        BY <2>2, <3>1 DEF OneAccount
    <2>6. OneCallPerInvite'
      BY <1>1, <2>2 DEF Invite, Slots, OneCallPerInvite
    <2>7. AdmissionsBounded'
      BY <1>1, FewOffers DEF Invite
    <2>8. /\ Occupied' = admission' \cup calls' /\ admission' \cap calls' = {}
          /\ valid' = admission' /\ loop' = "running"
      BY <1>1, <2>1, <2>2 DEF Invite, Slots
    <2>9. \A g \in Occupied' : account'[g] # None
      BY <2>1, <2>2 DEF Slots
    <2> QED
      BY <2>4, <2>5, <2>6, <2>7, <2>8, <2>9 DEF Slots
  <1>2. CASE InviteFails
    <2>1. Occupied' = Occupied
      BY <1>2 DEF InviteFails, Occupied
    <2>2. Cardinality(Occupied') + Len(available') <= Limit
      <3>1. n + k <= Limit /\ k # 0 /\ Len(available') = k - 1
        BY <1>2, <1>b, <1>d DEF InviteFails
      <3>2. n + (k - 1) <= Limit
        BY <1>a, <1>c, <3>1
      <3> QED
        BY <2>1, <3>1, <3>2 DEF n
    <2>3. OneAccount'
      <3>1. /\ \A g \in Occupied : account[g] = desired
            /\ \A i \in DOMAIN available' : available'[i] = desired
            /\ UNCHANGED <<desired, account>>
        BY <1>2, <1>a, <1>d DEF InviteFails, Slots, OneAccount
      <3> QED
        BY <2>1, <3>1 DEF OneAccount
    <2>4. AdmissionsBounded'
      BY <1>2, FewOffers DEF InviteFails
    <2> QED
      BY <1>2, <2>1, <2>2, <2>3, <2>4 DEF Slots, InviteFails, OneCallPerInvite
  <1>3. CASE Expire
    <2> DEFINE set == admission \cap (late \cup hungup)
    <2>1. /\ set \in SUBSET Faxes /\ admission' = admission \ set /\ valid' = valid \ set
          /\ calls' = calls \ set /\ Forget(set) /\ loop = "running"
          /\ UNCHANGED <<loop, desired, available, account, admissions>>
      BY <1>3 DEF Expire, Drop, Slots, TypeOK
    <2> HIDE DEF set
    <2> QED
      BY <2>1, SlotsForget
  <1>4. ASSUME NEW f \in Faxes, CallEnds(f) PROVE Slots'
    <2>1. /\ {f} \in SUBSET Faxes /\ calls' = calls \ {f} /\ Forget({f}) /\ loop = "running"
          /\ admission' = admission \ {f} /\ valid' = valid \ {f}
          /\ UNCHANGED <<loop, desired, available, account, admissions>>
      BY <1>4 DEF CallEnds, Finish, Slots
    <2> QED
      BY <2>1, SlotsForget
  <1>5. ASSUME NEW set \in SUBSET Faxes, Loses(set), loop = "running", set \subseteq admission \cup calls,
               available' = available \/ available' = <<>>
        PROVE  Slots'
    <2>1. /\ admission' = admission \ set /\ valid' = valid \ set
          /\ calls' = calls \ set /\ Forget(set)
          /\ UNCHANGED <<loop, desired, account, admissions>>
      BY <1>5 DEF Loses, Drop, Finish, Slots
    <2> QED
      BY <1>5, <2>1, SlotsForget
  <1>6. CASE Sleeps
    <2> DEFINE set == admission \cup calls
    <2>1. set \in SUBSET Faxes /\ Loses(set) /\ loop = "running" /\ available' = available
          /\ set \subseteq admission \cup calls
      BY <1>6 DEF Sleeps, TypeOK
    <2> HIDE DEF set
    <2> QED
      BY <1>5, <2>1
  <1>7. ASSUME NEW a \in Accounts, ConnectionFails(a) PROVE Slots'
    <2> DEFINE set == {f \in admission \cup calls : account[f] = a}
    <2>1. set \in SUBSET Faxes /\ Loses(set) /\ loop = "running"
          /\ (available' = available \/ available' = <<>>)
          /\ set \subseteq admission \cup calls
      BY <1>7 DEF ConnectionFails, TypeOK
    <2> HIDE DEF set
    <2> QED
      BY <1>5, <2>1
  <1>8. CASE Reconnect
    <2>1. /\ {} \in SUBSET Faxes /\ Forget({}) /\ loop = "running"
          /\ admission' = admission \ {} /\ valid' = valid \ {} /\ calls' = calls \ {}
          /\ available' = <<>> /\ UNCHANGED <<loop, desired, account, admissions>>
      BY <1>8 DEF Reconnect, Forget, TypeOK
    <2> QED
      BY <2>1, SlotsForget
  <1>9. CASE Refill
    <2> DEFINE m == Limit - Cardinality(Occupied)
    <2>1. m \in Nat /\ n + m = Limit
      BY <1>9, <1>a DEF Refill, n
    <2>2. Occupied' = Occupied
      BY <1>9 DEF Refill, Occupied
    <2> HIDE DEF m
    <2>3. available' = [i \in 1..m |-> IF i <= k THEN available[i] ELSE desired]
      BY <1>9 DEF Refill, m, k
    <2>4. Len(available') = m /\ DOMAIN available' = 1..m
      BY <2>1, <2>3
    <2>5. Cardinality(Occupied') + Len(available') <= Limit
      <3>1. n + m <= Limit
        BY <2>1, <1>a
      <3> QED
        BY <2>2, <2>4, <3>1 DEF n
    <2>6. OneAccount'
      <3>1. \A f \in Occupied : account[f] = desired
        BY <1>9 DEF Refill, Slots
      <3>2. \A i \in 1..m : available'[i] = desired
        <4> SUFFICES ASSUME NEW i \in 1..m PROVE available'[i] = desired
          OBVIOUS
        <4>1. CASE i <= k
          <5>1. i \in DOMAIN available
            BY <1>a, <2>1, <4>1
          <5> QED
            BY <1>9, <2>3, <4>1, <5>1 DEF Refill, Slots, OneAccount
        <4>2. CASE ~(i <= k)
          BY <2>3, <4>2
        <4> QED
          BY <4>1, <4>2
      <3> QED
        BY <1>9, <2>2, <2>4, <3>1, <3>2 DEF Refill, OneAccount
    <2>7. AdmissionsBounded'
      BY <1>9, FewOffers DEF Refill
    <2> QED
      BY <1>9, <2>2, <2>5, <2>6, <2>7 DEF Slots, Refill, OneCallPerInvite
  <1>10. CASE LoopFails
    BY <1>10, SlotsTornDown DEF LoopFails, Results
  <1>11. CASE Configure
    <2>1. Occupied' = Occupied /\ available' = <<>> /\ loop = "running"
          /\ UNCHANGED <<loop, ids, account, admission, calls, valid, admissions>>
      BY <1>11 DEF Configure, Takes, Occupied
    <2>2. AdmissionsBounded'
      BY <2>1, FewOffers
    <2>3. Len(<<>>) = 0 /\ DOMAIN <<>> = {}
      OBVIOUS
    <2>4. n + 0 <= Limit
      BY <1>a, <1>b, <2>1
    <2>5. Cardinality(Occupied') + Len(available') <= Limit
      BY <2>1, <2>3, <2>4 DEF n
    <2>6. OneAccount'
      BY <2>1, <2>3 DEF Slots, OneAccount
    <2> QED
      BY <2>1, <2>2, <2>5, <2>6 DEF Slots, OneCallPerInvite
  <1>12. CASE Refuse
    <2> DEFINE set == admission \cap {Head(commands).of}
    <2>1. /\ set \in SUBSET Faxes /\ admission' = admission \ set /\ valid' = valid \ set
          /\ calls' = calls \ set /\ Forget(set) /\ loop = "running"
          /\ UNCHANGED <<loop, desired, available, account, admissions>>
      BY <1>12 DEF Refuse, Takes, Drop, Slots, TypeOK
    <2> HIDE DEF set
    <2> QED
      BY <2>1, SlotsForget
  <1>13. CASE Answer
    <2> DEFINE f == Head(commands).of
    <2>1. /\ f \in admission /\ loop = "running"
          /\ admission' = admission \ {f} /\ valid' = valid \ {f} /\ calls' = calls \cup {f}
          /\ UNCHANGED <<loop, desired, available, ids, account, admissions>>
      BY <1>13 DEF Answer, Takes, Drop
    <2> HIDE DEF f
    <2>2. Occupied' = Occupied
      BY <2>1 DEF Occupied
    <2>3. AdmissionsBounded'
      BY <2>1, FewOffers
    <2>4. Occupied' = admission' \cup calls' /\ admission' \cap calls' = {}
      BY <2>1, <2>2 DEF Slots
    <2> QED
      BY <2>1, <2>2, <2>3, <2>4 DEF Slots, OneAccount, OneCallPerInvite
  <1>14. CASE AnswerFails
    <2> DEFINE f == Head(commands).of
    <2>1. /\ f \in admission /\ loop = "running" /\ Forget({f})
          /\ admission' = admission \ {f} /\ valid' = valid \ {f} /\ UNCHANGED calls
          /\ UNCHANGED <<loop, desired, available, account, admissions>>
      BY <1>14 DEF AnswerFails, Takes, Drop
    <2> HIDE DEF f
    <2>2. {f} \in SUBSET Faxes /\ calls' = calls \ {f}
      BY <2>1 DEF Slots, TypeOK
    <2> QED
      BY <2>1, <2>2, SlotsForget
  <1>15. CASE StopCommand
    BY <1>15, SlotsTornDown DEF StopCommand, Results
  <1>16. CASE LoopGone
    <2>1. Occupied' = {} /\ loop' # "running" /\ loop # "running"
      BY <1>16 DEF LoopGone, Occupied
    <2>2. AdmissionsBounded'
      BY <1>16, FewOffers DEF LoopGone
    <2> QED
      BY <1>16, <2>1, <2>2 DEF LoopGone, Slots, OneAccount, OneCallPerInvite
  <1>17. CASE \/ CancelIncoming \/ AnswerNobody
              \/ \E f \in Faxes : Hangup(f) \/ DeadlinePasses(f)
    <2>1. UNCHANGED <<loop, desired, available, ids, account, admission, calls, valid, admissions>>
      BY <1>17 DEF CancelIncoming, AnswerNobody, Hangup, DeadlinePasses
    <2> QED
      BY <2>1, SlotsSame
  <1>18. CASE OfferExpired \/ OfferAccepted \/ OfferShown
    <2>1. UNCHANGED <<loop, desired, available, ids, account, admission, calls, valid>>
      BY <1>18 DEF OfferExpired, OfferAccepted, OfferShown, TakesOffer
    <2>2. admissions' \subseteq valid
      BY <1>18 DEF OfferExpired, OfferAccepted, OfferShown, TakesOffer, Pending
    <2> QED
      BY <2>1, <2>2, SlotsSame
  <1>19. CASE \E f \in Faxes : AcceptIncoming(f) \/ RejectIncoming(f) \/ DecisionTooLate(f)
    <2>1. UNCHANGED <<loop, desired, available, ids, account, admission, calls, valid>>
      BY <1>19 DEF AcceptIncoming, RejectIncoming, DecisionTooLate, Decides
    <2>2. admissions' \subseteq admissions
      BY <1>19 DEF AcceptIncoming, RejectIncoming, DecisionTooLate, Decides
    <2> QED
      BY <2>1, <2>2, SlotsSame
  <1>20. CASE \/ ReadOffer
              \/ \E f \in Faxes : CancelReception(f)
              \/ \E a \in Accounts \cup {None} : ConfigureReceiver(a)
              \/ Stop
    <2>1. UNCHANGED <<loop, desired, available, ids, account, admission, calls, valid>>
      BY <1>20 DEF ReadOffer, CancelReception, ConfigureReceiver, Stop
    <2>2. admissions' \subseteq admissions
      BY <1>20 DEF ReadOffer, CancelReception, ConfigureReceiver, Stop
    <2> QED
      BY <2>1, <2>2, SlotsSame
  <1>21. CASE \/ Respond \/ RespondFails \/ Received \/ ReceivedFails
              \/ \E f \in Faxes : Recovers(f)
              \/ ShutdownSends \/ ShutdownJoins \/ Stopped \/ UNCHANGED vars
    <2>1. UNCHANGED <<loop, desired, available, ids, account, admission, calls, valid, admissions>>
      BY <1>21 DEF Respond, RespondFails, Received, ReceivedFails, Recovers,
                   ShutdownSends, ShutdownJoins, Stopped, vars
    <2> QED
      BY <2>1, SlotsSame
  <1> QED
    BY <1>1, <1>2, <1>3, <1>4, <1>6, <1>7, <1>8, <1>9, <1>10, <1>11, <1>12, <1>13, <1>14, <1>15,
       <1>16, <1>17, <1>18, <1>19, <1>20, <1>21, NextIsActions DEF Actions

(* Incoming calls and free slots never exceed the limit, every call is in  *)
(* exactly one of the maps of the loop, one for each INVITE and all of one *)
(* account, and the actor's open offers are as few.                        *)
THEOREM SlotsAlwaysAgree == Spec => []SlotsAgree
  <1>1. Init => TypeOK /\ Slots
    BY TypeInit, SlotsInit
  <1>2. TypeOK /\ Slots /\ [Next]_vars => (TypeOK /\ Slots)'
    BY TypeNext, SlotsNext
  <1>3. TypeOK /\ Slots => SlotsAgree
    BY DEF Slots, SlotsAgree
  <1> QED
    BY <1>1, <1>2, <1>3, PTL DEF Spec

-----------------------------------------------------------------------------
(* The way of a reception *)

LEMMA PlacesInit == Init => Places
  <1> SUFFICES ASSUME Init PROVE Places
    OBVIOUS
  <1>1. /\ commands = <<>> /\ offers = <<>> /\ events = <<>> /\ admission = {} /\ admissions = {}
        /\ calls = {} /\ answering = None
        /\ \A f \in Faxes : account[f] = None /\ ids[f] = None /\ row[f] = "Absent"
    BY DEF Init
  <1>2. \A f \in Faxes : f # None
    BY ReceptionAssumption DEF None
  <1> QED
    BY <1>1, <1>2, EmptyIn DEF Places, OnePlace, Stored, Open, Answered

(* A command that admits nobody changes nothing of where a fax is.         *)
LEMMA OtherSend ==
    ASSUME TypeOK, NEW what, NEW of, Command(what, of) \in Commands, what # "admit", Send(what, of)
    PROVE  \A f \in Faxes : /\ Answered(f)' <=> Answered(f)
                            /\ OnceIn(Command("admit", f), commands) => OnceIn(Command("admit", f), commands')
  BY SendIn, CommandKinds DEF Answered

LEMMA OtherTake ==
    ASSUME TypeOK, NEW what, what # "admit", Takes(what)
    PROVE  \A f \in Faxes : /\ Answered(f)' <=> Answered(f)
                            /\ OnceIn(Command("admit", f), commands) => OnceIn(Command("admit", f), commands')
  <1>1. Head(commands) = Command(what, Head(commands).of)
    BY TakeIn
  <1>2. \A f : Head(commands) # Command("admit", f)
    BY <1>1, CommandKinds
  <1> QED
    BY <1>2, TakeIn DEF Answered

(* The answer of a call is taken. *)
LEMMA AdmitTake ==
    ASSUME TypeOK, Takes("admit")
    PROVE  /\ Head(commands).of \in Faxes /\ Answered(Head(commands).of)
           /\ \A f \in Faxes : /\ Answered(f) <=> Answered(f)' \/ f = Head(commands).of
                               /\ OnceIn(Command("admit", f), commands) =>
                                    /\ OnceIn(Command("admit", f), commands')
                                    /\ f = Head(commands).of => ~Answered(f)'
  <1> DEFINE f == Head(commands).of
  <1>1. Head(commands) = Command("admit", f) /\ Head(commands) \in Commands
    BY TakeIn
  <1>2. f \in Faxes
    <2>1. Head(commands).what = "admit"
      BY DEF Takes
    <2> QED
      BY <1>1, <2>1 DEF Commands
  <1>3. Answered(f)
    BY <1>1, TakeIn DEF Answered
  <1>4. \A g : Head(commands) = Command("admit", g) <=> g = f
    BY <1>1, CommandKinds
  <1> HIDE DEF f
  <1>5. \A g \in Faxes : /\ Answered(g) <=> Answered(g)' \/ g = f
                         /\ OnceIn(Command("admit", g), commands) =>
                                    /\ OnceIn(Command("admit", g), commands')
                                    /\ g = f => ~Answered(g)'
    BY <1>4, TakeIn DEF Answered
  <1> QED
    BY <1>2, <1>3, <1>5 DEF f

(* A fax that moves on leaves the place it was at. *)
LEMMA MovesOn ==
    ASSUME NEW f \in Faxes, OnePlace(f), row'[f] = row[f], account'[f] = account[f],
           ids'[f] = ids[f] \/ ids'[f] = None,
           f \in admission' => f \in admission,
           In(f, offers') => In(f, offers),
           f \in admissions' => f \in admissions \/ (In(f, offers) /\ ~In(f, offers')),
           answering' = f => answering = f,
           Answered(f)' => Answered(f) \/ (answering = f /\ answering' # f),
           f \in calls' =>
               f \in calls \/ (Answered(f) /\ ~Answered(f)' /\ (EndsIn(f, events') => EndsIn(f, events))),
           EndsIn(f, events') =>
               EndsIn(f, events) \/ (f \in calls /\ f \notin calls') \/ (Answered(f) /\ ~Answered(f)'),
           OnceIn(Command("admit", f), commands')
    PROVE  OnePlace(f)'
  <1>1. Open(f)' => Open(f)
    BY DEF Open
  <1>2. Stored(f)' => Stored(f)
    BY DEF Stored
  <1> QED
    BY <1>1, <1>2 DEF OnePlace, Open, Stored

(* Calls of a set end with a report, admissions of it without one.         *)
LEMMA PlacesLost ==
    ASSUME TypeOK, Places, NEW set \in SUBSET Faxes, Loses(set)
    PROVE  Places'
  <1>1. /\ admission' = admission \ set /\ calls' = calls \ set
        /\ \A f : EndsIn(f, events') <=> EndsIn(f, events) \/ f \in calls \cap set
        /\ EndsApart(events) /\ (\A f \in calls \cap set : ~EndsIn(f, events)) => EndsApart(events')
        /\ ids' = [f \in Faxes |-> IF f \in set THEN None ELSE ids[f]]
        /\ UNCHANGED <<account, commands, offers, actor>>
    BY TypeLoses
  <1>2. \A f \in calls \cap set : ~EndsIn(f, events)
    BY DEF Places, OnePlace
  <1>3. EndsApart(events')
    BY <1>1, <1>2 DEF Places
  <1>4. ASSUME NEW f \in Faxes PROVE OnePlace(f)'
    <2>1. /\ Answered(f)' <=> Answered(f)
          /\ OnceIn(Command("admit", f), commands')
          /\ OnePlace(f)
      BY <1>1 DEF Answered, Places, OnePlace
    <2>2. ids'[f] = ids[f] \/ ids'[f] = None
      BY <1>1
    <2>3. /\ EndsIn(f, events') => EndsIn(f, events) \/ (f \in calls /\ f \notin calls')
          /\ f \in calls' => f \in calls
          /\ f \in admission' => f \in admission
      BY <1>1
    <2> QED
      BY <1>1, <2>1, <2>2, <2>3, MovesOn DEF actor
  <1> QED
    BY <1>1, <1>3, <1>4 DEF Places

LEMMA PlacesTornDown ==
    ASSUME TypeOK, Places, NEW how \in Results, TearDown(how)
    PROVE  Places'
  <1>1. /\ commands' = <<>> /\ admission' = {} /\ calls' = {}
        /\ \A f : EndsIn(f, events') <=> EndsIn(f, events) \/ f \in calls
        /\ EndsApart(events) /\ (\A f \in calls : ~EndsIn(f, events)) => EndsApart(events')
        /\ UNCHANGED <<ids, account, offers, actor>>
    BY TypeTearDown
  <1>2. \A f \in calls : ~EndsIn(f, events)
    BY DEF Places, OnePlace, TypeOK
  <1>3. EndsApart(events')
    BY <1>1, <1>2 DEF Places
  <1>4. ASSUME NEW f \in Faxes PROVE OnePlace(f)'
    <2>1. ~Answered(f)' /\ OnceIn(Command("admit", f), commands') /\ OnePlace(f)
      BY <1>1, EmptyIn DEF Answered, Places
    <2>2. /\ EndsIn(f, events') => EndsIn(f, events) \/ (f \in calls /\ f \notin calls')
          /\ f \notin calls' /\ f \notin admission'
      BY <1>1
    <2> QED
      BY <1>1, <2>1, <2>2, MovesOn DEF actor
  <1> QED
    BY <1>1, <1>3, <1>4 DEF Places

(* A step that only takes faxes away from where they were.                 *)
LEMMA PlacesLeft ==
    ASSUME Places, Distinct(offers'), EndsApart(events'),
           UNCHANGED <<row, account>>,
           ids' = ids \/ \E set : Forget(set),
           admission' \subseteq admission, calls' \subseteq calls,
           answering' = answering \/ answering' = None,
           \A f \in Faxes :
              /\ In(f, offers') => In(f, offers)
              /\ f \in admissions' => f \in admissions \/ (In(f, offers) /\ ~In(f, offers'))
              /\ EndsIn(f, events') => EndsIn(f, events)
              /\ Answered(f)' => Answered(f)
              /\ OnceIn(Command("admit", f), commands) => OnceIn(Command("admit", f), commands')
    PROVE  Places'
  <1>1. ASSUME NEW f \in Faxes PROVE OnePlace(f)'
    <2>1. OnePlace(f) /\ OnceIn(Command("admit", f), commands')
      BY DEF Places, OnePlace
    <2>2. ids'[f] = ids[f] \/ ids'[f] = None
      BY DEF Forget
    <2>3. f # None
      BY ReceptionAssumption DEF None
    <2> QED
      BY <2>1, <2>2, <2>3, MovesOn
  <1> QED
    BY <1>1 DEF Places

(* The actor stores a reception, or refuses it. *)
LEMMA PlacesAccept ==
    ASSUME TypeOK, Slots, Places, NEW f \in Faxes, Open(f), Accepts(f), answering = None,
           Distinct(offers'), UNCHANGED <<events, service>>,
           ~In(f, offers'), f \notin admissions',
           \A g \in Faxes : /\ In(g, offers') => In(g, offers)
                            /\ g \in admissions' => g \in admissions
    PROVE  Places'
  <1> USE DEF service
  <1>1. CASE ReserveFails(f)
    <2>1. Command("refuse", f) \in Commands /\ Send("refuse", f) /\ UNCHANGED <<row, answering>>
      BY <1>1, CommandKinds DEF ReserveFails
    <2>2. \A g \in Faxes : /\ Answered(g)' => Answered(g)
                           /\ OnceIn(Command("admit", g), commands) => OnceIn(Command("admit", g), commands')
      BY <2>1, OtherSend
    <2> QED
      BY <2>1, <2>2, PlacesLeft DEF Places
  <1>2. CASE Reserves(f)
    <2>1. /\ row' = [row EXCEPT ![f] = "Receiving"] /\ answering' = f /\ UNCHANGED commands
      BY <1>2 DEF Reserves
    <2>2. /\ row'[f] = "Receiving" /\ \A g \in Faxes \ {f} : row'[g] = row[g]
      BY <2>1 DEF TypeOK
    <2>3. ASSUME NEW g \in Faxes PROVE OnePlace(g)'
      <3>1. OnePlace(g) /\ OnePlace(f)
        BY DEF Places
      <3>2. CASE g # f
        <4>1. Answered(g)' <=> Answered(g)
          BY <2>1 DEF Answered
        <4> QED
          BY <2>1, <2>2, <3>1, <3>2, <4>1, MovesOn DEF OnePlace
      <3>3. CASE g = f
        <4>1. row[f] = "Absent" /\ ~Stored(f) /\ OnceIn(Command("admit", f), commands')
          BY <2>1, <3>1 DEF OnePlace
        <4>2. ~Answered(f)' /\ f \notin calls' /\ ~EndsIn(f, events')
          BY <2>1, <4>1 DEF Stored, Answered
        <4>3. account'[f] # None
          BY <3>1 DEF OnePlace, Open
        <4> QED
          BY <2>1, <2>2, <3>3, <4>1, <4>2, <4>3 DEF OnePlace, Open, Stored
      <3> QED
        BY <3>2, <3>3
    <2> QED
      BY <2>3 DEF Places
  <1> QED
    BY <1>1, <1>2 DEF Accepts

LEMMA PlacesNext == TypeOK /\ Slots /\ Places /\ [Next]_vars => Places'
  <1> SUFFICES ASSUME TypeOK, Slots, Places, [Next]_vars PROVE Places'
    OBVIOUS
  <1> USE DEF service, channels, actor, rest
  <1>a. commands' = commands =>
           \A f \in Faxes : /\ Answered(f)' <=> Answered(f)
                            /\ OnceIn(Command("admit", f), commands) => OnceIn(Command("admit", f), commands')
    BY DEF Answered
  <1>b. Distinct(offers) /\ EndsApart(events)
    BY DEF Places
  <1>1. ASSUME NEW f \in Faxes, NEW c \in Callers, Invite(f, c) PROVE Places'
    <2>1. /\ account[f] = None /\ account' = [account EXCEPT ![f] = Head(available)]
          /\ ids' = [ids EXCEPT ![f] = c] /\ admission' = admission \cup {f}
          /\ offers' = offers \/ offers' = Append(offers, f)
          /\ UNCHANGED <<calls, commands, events, admissions, row, answering>>
      BY <1>1 DEF Invite
    <2>2. OnePlace(f)
      BY DEF Places
    <2>3. Head(available) # None
      <3>1. Head(available) \in Accounts
        BY <1>1, HeadTailProperties DEF Invite, TypeOK
      <3> QED
        BY <3>1, ReceptionAssumption DEF None
    <2>4. account'[f] # None /\ \A g \in Faxes \ {f} : account'[g] = account[g] /\ ids'[g] = ids[g]
      BY <2>1, <2>3 DEF TypeOK
    <2>5. /\ Distinct(offers')
          /\ \A g \in Faxes : In(g, offers') => In(g, offers) \/ g = f
      <3>1. offers \in Seq(Faxes) /\ ~In(f, offers)
        BY <2>1, <2>2 DEF OnePlace, TypeOK
      <3>2. /\ \A x : In(x, Append(offers, f)) <=> In(x, offers) \/ x = f
            /\ Distinct(offers) /\ ~In(f, offers) => Distinct(Append(offers, f))
        BY <3>1, AppendIn
      <3> QED
        BY <1>b, <2>1, <3>1, <3>2
    <2>6. ASSUME NEW g \in Faxes PROVE OnePlace(g)'
      <3>1. OnePlace(g)
        BY DEF Places
      <3>2. CASE g # f
        BY <1>a, <2>1, <2>4, <2>5, <3>1, <3>2, MovesOn DEF OnePlace
      <3>3. CASE g = f
        <4>1. f \notin admissions /\ row[f] = "Absent" /\ ~Stored(f)
          BY <2>1, <2>2 DEF OnePlace
        <4>2. ~Stored(f)'
          BY <1>a, <2>1, <4>1 DEF Stored
        <4> QED
          BY <1>a, <2>1, <2>2, <2>4, <3>3, <4>1, <4>2 DEF OnePlace, Stored
      <3> QED
        BY <3>2, <3>3
    <2> QED
      BY <1>b, <2>1, <2>5, <2>6 DEF Places
  <1>2. CASE \/ InviteFails \/ Reconnect \/ Refill
             \/ \E f \in Faxes : Hangup(f) \/ DeadlinePasses(f)
             \/ ReadOffer \/ ShutdownJoins \/ UNCHANGED vars
    <2>1. UNCHANGED <<row, account, ids, admission, calls, answering, offers, events, commands, admissions>>
      BY <1>2 DEF InviteFails, Reconnect, Refill, Hangup, DeadlinePasses, ReadOffer, ShutdownJoins, vars
    <2> QED
      BY <1>a, <1>b, <2>1, PlacesLeft
  <1>3. CASE Expire
    <2>1. /\ UNCHANGED <<row, account, calls, answering, offers, events, commands, admissions>>
          /\ admission' \subseteq admission /\ \E set : Forget(set)
      BY <1>3 DEF Expire, Drop
    <2> QED
      BY <1>a, <1>b, <2>1, PlacesLeft
  <1>4. ASSUME NEW f \in Faxes, CallEnds(f) PROVE Places'
    <2>1. PICK how \in Results : Finish({f}, how)
      BY <1>4 DEF CallEnds
    <2> DEFINE set == {f}
    <2>2. /\ calls' = calls \ set
          /\ \A g : EndsIn(g, events') <=> EndsIn(g, events) \/ g \in set
          /\ EndsApart(events) /\ (\A g \in set : ~EndsIn(g, events)) => EndsApart(events')
      <3>1. set \in SUBSET Faxes /\ Finish(set, how)
        BY <2>1
      <3> HIDE DEF set
      <3> QED
        BY <3>1, FinishesIn
    <2>3. f \in calls /\ ~EndsIn(f, events)
      BY <1>4 DEF CallEnds, Places, OnePlace
    <2>4. EndsApart(events')
      BY <1>b, <2>2, <2>3
    <2>5. /\ UNCHANGED <<row, account, admission, answering, offers, commands, admissions>>
          /\ Forget({f})
      BY <1>4 DEF CallEnds
    <2>6. ASSUME NEW g \in Faxes PROVE OnePlace(g)'
      <3>1. OnePlace(g) /\ OnceIn(Command("admit", g), commands')
        BY <1>a, <2>5 DEF Places, OnePlace
      <3>2. ids'[g] = ids[g] \/ ids'[g] = None
        BY <2>5 DEF Forget
      <3>3. EndsIn(g, events') => EndsIn(g, events) \/ (g \in calls /\ g \notin calls')
        BY <2>2, <2>3
      <3>4. g \in calls' => g \in calls
        BY <2>2
      <3> QED
        BY <1>a, <2>5, <3>1, <3>2, <3>3, <3>4, MovesOn
    <2> QED
      BY <1>b, <2>4, <2>5, <2>6 DEF Places
  <1>5. CASE Sleeps
    <2> DEFINE set == admission \cup calls
    <2>1. set \in SUBSET Faxes /\ Loses(set)
      BY <1>5 DEF Sleeps, TypeOK
    <2> HIDE DEF set
    <2> QED
      BY <2>1, PlacesLost
  <1>6. ASSUME NEW a \in Accounts, ConnectionFails(a) PROVE Places'
    <2> DEFINE set == {f \in admission \cup calls : account[f] = a}
    <2>1. set \in SUBSET Faxes /\ Loses(set)
      BY <1>6 DEF ConnectionFails, TypeOK
    <2> HIDE DEF set
    <2> QED
      BY <2>1, PlacesLost
  <1>7. CASE LoopFails \/ StopCommand
    BY <1>7, PlacesTornDown DEF LoopFails, StopCommand, Results
  <1>8. CASE Configure
    <2>1. /\ Takes("configure")
          /\ UNCHANGED <<row, account, ids, admission, calls, answering, offers, events, admissions>>
      BY <1>8 DEF Configure
    <2> QED
      BY <1>b, <2>1, OtherTake, PlacesLeft
  <1>9. CASE CancelIncoming
    <2>1. /\ Takes("cancel")
          /\ UNCHANGED <<row, account, ids, admission, calls, answering, offers, events, admissions>>
      BY <1>9 DEF CancelIncoming
    <2> QED
      BY <1>b, <2>1, OtherTake, PlacesLeft
  <1>10. CASE Refuse
    <2>1. /\ Takes("reject") \/ Takes("refuse")
          /\ UNCHANGED <<row, account, calls, answering, offers, events, admissions>>
          /\ admission' \subseteq admission /\ \E set : Forget(set)
      BY <1>10 DEF Refuse, Drop
    <2>2. \A g \in Faxes : /\ Answered(g)' => Answered(g)
                           /\ OnceIn(Command("admit", g), commands) => OnceIn(Command("admit", g), commands')
      BY <2>1, OtherTake
    <2> QED
      BY <1>b, <2>1, <2>2, PlacesLeft
  <1>11. ASSUME Answer \/ AnswerFails \/ AnswerNobody PROVE Places'
    <2> DEFINE f == Head(commands).of
    <2>1. Takes("admit")
      BY <1>11 DEF Answer, AnswerFails, AnswerNobody
    <2>2. /\ f \in Faxes /\ Answered(f)
          /\ \A g \in Faxes : /\ Answered(g) <=> Answered(g)' \/ g = f
                              /\ OnceIn(Command("admit", g), commands) =>
                                    /\ OnceIn(Command("admit", g), commands')
                                    /\ g = f => ~Answered(g)'
      BY <2>1, AdmitTake
    <2>3. ~EndsIn(f, events) /\ f \notin calls /\ answering # f
      BY <2>2 DEF Places, OnePlace
    <2>4. /\ UNCHANGED <<row, account, answering, offers, admissions>>
          /\ admission' \subseteq admission /\ (ids' = ids \/ Forget({f}))
          /\ \/ UNCHANGED events /\ calls' = calls \cup {f}
             \/ UNCHANGED calls /\ \E how \in Results : events' = Append(events, Finished(f, how))
      BY <1>11 DEF Answer, AnswerFails, AnswerNobody, Drop, Results
    <2> HIDE DEF f
    <2>5. \/ UNCHANGED events /\ calls' = calls \cup {f}
          \/ /\ UNCHANGED calls /\ EndsApart(events')
             /\ \A g : EndsIn(g, events') <=> EndsIn(g, events) \/ g = f
      BY <1>b, <2>2, <2>3, <2>4, ReportIn
    <2>6. ASSUME NEW g \in Faxes PROVE OnePlace(g)'
      <3>1. OnePlace(g) /\ OnceIn(Command("admit", g), commands')
        BY <2>2 DEF Places, OnePlace
      <3>2. ids'[g] = ids[g] \/ ids'[g] = None
        BY <2>4 DEF Forget
      <3>3. g = f => Answered(g) /\ ~Answered(g)'
        BY <2>2, <3>1 DEF OnePlace
      <3>4. EndsIn(g, events') => EndsIn(g, events) \/ (Answered(g) /\ ~Answered(g)')
        BY <2>5, <3>3
      <3>5. g \in calls' => g \in calls \/ (Answered(g) /\ ~Answered(g)' /\ (EndsIn(g, events') => EndsIn(g, events)))
        BY <2>5, <3>3
      <3>6. Answered(g)' => Answered(g)
        BY <2>2
      <3> QED
        BY <2>4, <3>1, <3>2, <3>4, <3>5, <3>6, MovesOn
    <2> QED
      BY <1>b, <2>4, <2>5, <2>6 DEF Places
  <1>12. CASE LoopGone
    <2>1. /\ UNCHANGED <<row, account, admission, calls, answering, offers, events, admissions>>
          /\ commands' = <<>> /\ Forget(Faxes)
      BY <1>12 DEF LoopGone, Forget
    <2>2. \A g \in Faxes : ~Answered(g)' /\ OnceIn(Command("admit", g), commands')
      BY <2>1, EmptyIn DEF Answered
    <2> QED
      BY <1>b, <2>1, <2>2, PlacesLeft
  <1>13. ASSUME OfferExpired \/ OfferAccepted \/ OfferShown PROVE Places'
    <2> DEFINE f == Head(offers)
    <2>1. TakesOffer
      BY <1>13 DEF OfferExpired, OfferAccepted, OfferShown
    <2>2. /\ f \in Faxes /\ In(f, offers) /\ Distinct(offers') /\ ~In(f, offers')
          /\ \A g : In(g, offers) <=> In(g, offers') \/ g = f
      BY <1>b, <2>1, OfferIn
    <2>3. /\ UNCHANGED <<service, events>> /\ answering = None
          /\ admissions' \subseteq admissions \cup {f}
      BY <1>13 DEF TakesOffer, Free, OfferExpired, OfferAccepted, OfferShown, Pending
    <2>4. f \notin admissions
      BY <2>2 DEF Places, OnePlace
    <2>5. CASE OfferAccepted
      <3>1. Accepts(f) /\ admissions' \subseteq admissions
        BY <2>5 DEF OfferAccepted, Pending
      <3> HIDE DEF f
      <3>2. Open(f)
        BY <2>2 DEF Open
      <3> QED
        BY <2>2, <2>3, <2>4, <3>1, <3>2, PlacesAccept
    <2>6. CASE OfferExpired \/ OfferShown
      <3>1. /\ Command("reject", f) \in Commands
            /\ UNCHANGED <<row, answering>>
            /\ Send("reject", f) \/ UNCHANGED commands
        BY <2>2, <2>6, CommandKinds DEF OfferExpired, OfferShown
      <3>2. \A g \in Faxes : /\ Answered(g)' => Answered(g)
                             /\ OnceIn(Command("admit", g), commands) => OnceIn(Command("admit", g), commands')
        BY <1>a, <3>1, OtherSend
      <3> HIDE DEF f
      <3> QED
        BY <1>b, <2>2, <2>3, <3>1, <3>2, PlacesLeft
    <2> QED
      BY <1>13, <2>5, <2>6
  <1>14. ASSUME NEW f \in Faxes, AcceptIncoming(f) PROVE Places'
    <2>1. /\ Accepts(f) /\ f \in admissions /\ admissions' = admissions \ {f} /\ answering = None
          /\ UNCHANGED <<service, events, offers>>
      BY <1>14 DEF AcceptIncoming, Decides, Free
    <2>2. ~In(f, offers) /\ Open(f)
      BY <2>1 DEF Places, OnePlace, Open
    <2> QED
      BY <1>b, <2>1, <2>2, PlacesAccept
  <1>15. ASSUME NEW f \in Faxes, RejectIncoming(f) \/ DecisionTooLate(f) \/ CancelReception(f) PROVE Places'
    <2>1. /\ UNCHANGED <<row, account, ids, admission, calls, answering, offers, events>>
          /\ admissions' \subseteq admissions
          /\ Send("reject", f) \/ Send("cancel", f) \/ UNCHANGED commands
      BY <1>15 DEF RejectIncoming, DecisionTooLate, CancelReception, Decides
    <2>2. Command("reject", f) \in Commands /\ Command("cancel", f) \in Commands
      BY CommandKinds
    <2>3. \A g \in Faxes : /\ Answered(g)' => Answered(g)
                           /\ OnceIn(Command("admit", g), commands) => OnceIn(Command("admit", g), commands')
      BY <1>a, <2>1, <2>2, OtherSend
    <2> QED
      BY <1>b, <2>1, <2>3, PlacesLeft
  <1>16. ASSUME NEW a \in Accounts \cup {None}, ConfigureReceiver(a) PROVE Places'
    <2>1. /\ UNCHANGED <<row, account, ids, admission, calls, answering, offers, events, admissions>>
          /\ Send("configure", a) /\ Command("configure", a) \in Commands
      BY <1>16, CommandKinds DEF ConfigureReceiver
    <2> QED
      BY <1>b, <2>1, OtherSend, PlacesLeft
  <1>17. CASE ShutdownSends
    <2>1. /\ UNCHANGED <<row, account, ids, admission, calls, answering, offers, events, admissions>>
          /\ Send("stop", None) /\ Command("stop", None) \in Commands
      BY <1>17, CommandKinds DEF ShutdownSends
    <2> QED
      BY <1>b, <2>1, OtherSend, PlacesLeft
  <1>18. CASE Stop
    <2>1. PICK q \in Lists(admissions) :
             commands' = IF loop = "gone" THEN commands
                         ELSE commands \o [i \in DOMAIN q |-> Command("reject", q[i])]
      BY <1>18 DEF Stop
    <2> DEFINE t == [i \in DOMAIN q |-> Command("reject", q[i])]
    <2>2. t \in Seq(Commands) /\ \A x : In(x, t) => x.what = "reject"
      BY <2>1, RejectIn DEF TypeOK
    <2> HIDE DEF t
    <2>3. commands' = commands \/ commands' = commands \o t
      BY <2>1 DEF t
    <2>4. \A g \in Faxes : ~In(Command("admit", g), t)
      BY <2>2, CommandKinds
    <2>5. /\ \A x : In(x, commands \o t) <=> In(x, commands) \/ In(x, t)
          /\ \A x : OnceIn(x, commands) /\ ~In(x, t) => OnceIn(x, commands \o t)
      BY <2>2, TypeCommands, ConcatIn
    <2>6. \A g \in Faxes : /\ Answered(g)' => Answered(g)
                           /\ OnceIn(Command("admit", g), commands) => OnceIn(Command("admit", g), commands')
      BY <1>a, <2>3, <2>4, <2>5 DEF Answered
    <2>7. /\ UNCHANGED <<row, account, ids, admission, calls, answering, offers, events>>
          /\ admissions' = {}
      BY <1>18 DEF Stop
    <2> QED
      BY <1>b, <2>6, <2>7, PlacesLeft
  <1>19. CASE Respond
    <2> DEFINE f == answering
    <2>1. f \in Faxes /\ answering' = None
      BY <1>19 DEF Respond, TypeOK
    <2>2. \A g \in Faxes : g # None
      BY ReceptionAssumption DEF None
    <2>3. UNCHANGED <<account, ids, admission, calls, offers, events, admissions>>
      BY <1>19 DEF Respond
    <2>4. row[f] = "Receiving" /\ ~Answered(f) /\ f \notin calls /\ ~EndsIn(f, events)
      BY <2>1 DEF Places, OnePlace, Stored
    <2>5. CASE loop = "gone"
      <3>1. row' = [row EXCEPT ![f] = "Interrupted"] /\ UNCHANGED commands
        BY <1>19, <2>5 DEF Respond
      <3>2. ASSUME NEW g \in Faxes PROVE OnePlace(g)'
        <4>1. OnePlace(g) /\ OnceIn(Command("admit", g), commands')
          BY <3>1 DEF Places, OnePlace
        <4>2. CASE g # f
          <5>1. row'[g] = row[g] /\ answering' # g
            BY <2>1, <2>2, <3>1, <4>2 DEF TypeOK
          <5> QED
            BY <1>a, <2>3, <3>1, <4>1, <5>1, MovesOn
        <4>3. CASE g = f
          <5>1. ~Stored(g)' /\ ~Open(g) /\ account[g] # None
            BY <1>a, <2>1, <2>2, <2>3, <2>4, <3>1, <4>1, <4>3 DEF Stored, OnePlace
          <5>2. ~Open(g)' /\ account'[g] # None
            BY <2>3, <5>1 DEF Open
          <5> QED
            BY <4>1, <5>1, <5>2 DEF OnePlace, Open, Stored
        <4> QED
          BY <4>2, <4>3
      <3> QED
        BY <1>b, <2>3, <3>2 DEF Places
    <2>6. CASE loop # "gone"
      <3>1. Send("admit", f) /\ Command("admit", f) \in Commands /\ UNCHANGED row
        BY <1>19, <2>1, <2>6, CommandKinds DEF Respond
      <3>2. \A x : In(x, commands') <=> In(x, commands) \/ x = Command("admit", f)
        BY <2>6, <3>1, SendIn
      <3>3. \A x : OnceIn(x, commands) /\ ~(x = Command("admit", f) /\ In(x, commands)) => OnceIn(x, commands')
        BY <3>1, SendIn
      <3>4. ASSUME NEW g \in Faxes PROVE OnePlace(g)'
        <4>1. OnePlace(g) /\ answering' # g
          BY <2>1, <2>2 DEF Places
        <4>2. Answered(g)' <=> Answered(g) \/ g = f
          BY <3>2, CommandKinds DEF Answered
        <4>3. OnceIn(Command("admit", g), commands')
          <5>1. ~(Command("admit", g) = Command("admit", f) /\ In(Command("admit", g), commands))
            BY <2>4, CommandKinds DEF Answered
          <5> QED
            BY <3>3, <4>1, <5>1 DEF OnePlace
        <4> QED
          BY <2>3, <3>1, <4>1, <4>2, <4>3, MovesOn
      <3> QED
        BY <1>b, <2>3, <3>4 DEF Places
    <2> QED
      BY <2>5, <2>6
  <1>20. CASE RespondFails
    <2>1. /\ UNCHANGED <<row, account, ids, admission, calls, offers, events, admissions, commands>>
          /\ answering' = None
      BY <1>20 DEF RespondFails
    <2> QED
      BY <1>a, <1>b, <2>1, PlacesLeft
  <1>21. ASSUME Received \/ ReceivedFails PROVE Places'
    <2> DEFINE f == Head(events).of
    <2>1. /\ events # <<>> /\ events' = Tail(events)
          /\ UNCHANGED <<account, ids, admission, calls, answering, offers, admissions, commands>>
          /\ row' = row \/ \E x \in Outcomes : row' = [row EXCEPT ![f] = x]
      BY <1>21 DEF Received, ReceivedFails, Outcome, Outcomes, Ends, CallEnd
    <2>2. /\ Head(events) \in Events /\ EndsIn(f, events)
          /\ \A g : EndsIn(g, events) <=> EndsIn(g, events') \/ g = f
          /\ EndsApart(events) => EndsApart(events') /\ ~EndsIn(f, events')
      BY <2>1, EventIn
    <2>3. f \in Faxes
      BY <2>2 DEF Events
    <2> HIDE DEF f
    <2>4. EndsApart(events') /\ ~EndsIn(f, events')
      BY <1>b, <2>2
    <2>5. ASSUME NEW g \in Faxes PROVE OnePlace(g)'
      <3>1. OnePlace(g) /\ OnceIn(Command("admit", g), commands')
        BY <1>a, <2>1 DEF Places, OnePlace
      <3>2. CASE row'[g] = row[g]
        BY <1>a, <2>1, <2>2, <3>1, <3>2, MovesOn
      <3>3. CASE g = f
        <4>1. /\ Stored(g) /\ ~Open(g) /\ account[g] # None
              /\ answering # g /\ ~Answered(g) /\ g \notin calls
          BY <2>2, <3>1, <3>3 DEF OnePlace, Stored
        <4>2. ~Stored(g)' /\ ~Open(g)' /\ account'[g] # None
          BY <1>a, <2>1, <2>4, <3>3, <4>1 DEF Stored, Open
        <4> QED
          BY <3>1, <4>2 DEF OnePlace, Stored, Open
      <3>4. g # f => row'[g] = row[g]
        BY <2>1 DEF TypeOK
      <3> QED
        BY <3>2, <3>3, <3>4
    <2> QED
      BY <1>b, <2>1, <2>4, <2>5 DEF Places
  <1>23. ASSUME NEW f \in Faxes, Recovers(f) PROVE Places'
    <2>1. /\ UNCHANGED <<account, ids, admission, calls, answering, offers, events, admissions, commands>>
          /\ row[f] \in CallEnd /\ row' = [row EXCEPT ![f] = "Partial"]
      BY <1>23 DEF Recovers
    <2>2. ASSUME NEW g \in Faxes PROVE OnePlace(g)'
      <3>1. OnePlace(g) /\ OnceIn(Command("admit", g), commands')
        BY <1>a, <2>1 DEF Places, OnePlace
      <3>2. CASE row'[g] = row[g]
        BY <1>a, <2>1, <3>1, <3>2, MovesOn
      <3>3. CASE g = f
        <4>1. row[g] # "Receiving" /\ row[g] # "Absent"
          BY <2>1, <3>3 DEF CallEnd
        <4>2. ~Stored(g) /\ ~Open(g) /\ account[g] # None
          BY <3>1, <4>1 DEF OnePlace
        <4>3. ~Stored(g)' /\ ~Open(g)' /\ account'[g] # None
          BY <1>a, <2>1, <4>2 DEF Stored, Open, Answered
        <4> QED
          BY <3>1, <4>2, <4>3 DEF OnePlace, Stored, Open
      <3>4. g # f => row'[g] = row[g]
        BY <2>1 DEF TypeOK
      <3> QED
        BY <3>2, <3>3, <3>4
    <2> QED
      BY <1>b, <2>1, <2>2 DEF Places
  <1>22. CASE Stopped
    <2>1. /\ UNCHANGED <<row, account, ids, admission, calls, answering, events, admissions, commands>>
          /\ offers' = <<>>
      BY <1>22 DEF Stopped
    <2>2. Distinct(offers') /\ \A g : ~In(g, offers')
      BY <2>1, EmptyIn
    <2> QED
      BY <1>a, <1>b, <2>1, <2>2, PlacesLeft
  <1> QED
    BY <1>1, <1>2, <1>3, <1>4, <1>5, <1>6, <1>7, <1>8, <1>9, <1>10, <1>11, <1>12, <1>13, <1>14,
       <1>15, <1>16, <1>17, <1>18, <1>19, <1>20, <1>21, <1>22, <1>23, NextIsActions DEF Actions

(* A reception ends once: its end is reported only while its row waits for *)
(* it, one report for each; and only stored receptions are answered.       *)
THEOREM EndsAtMostOnce == Spec => []EndsOnce
  <1>1. Init => TypeOK /\ Slots /\ Places
    BY TypeInit, SlotsInit, PlacesInit
  <1>2. TypeOK /\ Slots /\ Places /\ [Next]_vars => (TypeOK /\ Slots /\ Places)'
    BY TypeNext, SlotsNext, PlacesNext
  <1>3. TypeOK /\ Places => EndsOnce
    <2> SUFFICES ASSUME TypeOK, Places PROVE EndsOnce
      OBVIOUS
    <2>1. \A f \in calls : row[f] = "Receiving"
      BY DEF Places, OnePlace, Stored, TypeOK
    <2>2. ASSUME NEW i \in DOMAIN events PROVE row[events[i].of] = "Receiving"
      <3>1. events[i] \in Events
        BY TypeCommands, LenProperties, ElementOfSeq
      <3>2. events[i].of \in Faxes /\ EndsIn(events[i].of, events)
        BY <3>1 DEF Events, EndsIn
      <3> QED
        BY <3>2 DEF Places, OnePlace, Stored
    <2> QED
      BY <2>1, <2>2 DEF EndsOnce, AnsweredIsStored, Places, EndsApart
  <1> QED
    BY <1>1, <1>2, <1>3, PTL DEF Spec

-----------------------------------------------------------------------------
(* A stop is the last that the service hears *)

LEMMA StopInit == Init => StopIsLast
  <1> SUFFICES ASSUME Init PROVE StopIsLast
    OBVIOUS
  <1> QED
    BY EmptyIn DEF Init, StopIsLast, None

(* A step that sends nothing of consequence. *)
LEMMA StopKept ==
    ASSUME StopIsLast, UNCHANGED <<phase, stopper>>,
           answering' # None => answering # None \/ phase = "Running",
           faults' = 0 => faults = 0,
           loop' # "running" => loop # "running",
           In(Command("stop", None), commands') => In(Command("stop", None), commands),
           NoAdmitAfterStop(commands'),
           \A f \in Faxes : /\ loop # "running" /\ Answered(f)' => Answered(f)
                            /\ loop # "running" /\ f \in calls' => f \in calls
    PROVE  StopIsLast'
  BY DEF StopIsLast

LEMMA StopNext == TypeOK /\ StopIsLast /\ [Next]_vars => StopIsLast'
  <1> SUFFICES ASSUME TypeOK, StopIsLast, [Next]_vars PROVE StopIsLast'
    OBVIOUS
  <1> USE DEF service, channels, actor, rest
  <1>a. faults \in Nat /\ NoAdmitAfterStop(commands)
    BY DEF TypeOK, StopIsLast
  <1>b. Fault => faults' # 0
    BY <1>a DEF Fault
  <1>c. commands' = commands => \A f : Answered(f)' <=> Answered(f)
    BY DEF Answered
  <1>1. CASE \/ \E f \in Faxes, c \in Callers : Invite(f, c)
             \/ InviteFails \/ Expire \/ Reconnect \/ Refill
             \/ \E f \in Faxes : Hangup(f)
             \/ \E f \in Faxes : DeadlinePasses(f)
             \/ \E f \in Faxes : DecisionTooLate(f)
             \/ \E f \in Faxes : Recovers(f)
             \/ ReadOffer \/ Received \/ UNCHANGED vars
    <2>1. UNCHANGED <<phase, stopper, answering, faults, loop, commands, calls>>
      BY <1>1 DEF Invite, InviteFails, Expire, Reconnect, Refill, Hangup, DeadlinePasses,
                  DecisionTooLate, Decides, ReadOffer, Received, Recovers, vars
    <2> QED
      BY <1>a, <1>c, <2>1, StopKept
  <1>2. CASE \/ Sleeps
             \/ \E f \in Faxes : CallEnds(f)
             \/ \E a \in Accounts : ConnectionFails(a)
    <2>1. /\ UNCHANGED <<phase, stopper, answering, faults, loop, commands>>
          /\ loop = "running"
      BY <1>2 DEF Sleeps, CallEnds, ConnectionFails, Loses
    <2> QED
      BY <1>a, <1>c, <2>1, StopKept
  <1>3. CASE LoopFails
    <2>1. /\ faults' # 0 /\ commands' = <<>> /\ UNCHANGED <<phase, stopper, answering>>
      BY <1>3, <1>b DEF LoopFails, TearDown
    <2> QED
      BY <2>1, EmptyIn DEF StopIsLast
  <1>4. ASSUME \/ Configure \/ CancelIncoming \/ Refuse \/ Answer \/ AnswerFails \/ AnswerNobody
        PROVE  StopIsLast'
    <2>1. /\ UNCHANGED <<phase, stopper, answering, faults, loop>> /\ loop = "running"
          /\ \E what : Takes(what)
      BY <1>4 DEF Configure, CancelIncoming, Refuse, Answer, AnswerFails, AnswerNobody, Takes
    <2>2. /\ \A x : In(x, commands') => In(x, commands)
          /\ NoAdmitAfterStop(commands')
      BY <1>a, <2>1, TakeIn
    <2> QED
      BY <2>1, <2>2, StopKept
  <1>5. CASE StopCommand
    <2>1. Head(commands) \in Commands /\ In(Head(commands), commands)
      BY <1>5, TypeCommands, TailIn DEF StopCommand
    <2>2. Head(commands) = Command("stop", None)
      BY <1>5, <2>1 DEF StopCommand, Commands, Command
    <2>3. phase # "Running"
      BY <2>1, <2>2 DEF StopIsLast
    <2>4. /\ UNCHANGED <<phase, stopper, answering, faults>> /\ commands' = <<>> /\ calls' = {}
      BY <1>5 DEF StopCommand, TearDown, Finish
    <2> QED
      BY <2>3, <2>4, EmptyIn DEF StopIsLast, Answered
  <1>6. CASE LoopGone
    <2>1. /\ UNCHANGED <<phase, stopper, answering, faults, calls>> /\ commands' = <<>> /\ loop # "running"
      BY <1>6 DEF LoopGone
    <2> QED
      BY <2>1, EmptyIn DEF StopIsLast, Answered
  <1>7. ASSUME NEW what \in {"refuse", "reject", "cancel", "configure"}, NEW of, Send(what, of),
               Command(what, of) \in Commands, UNCHANGED <<phase, stopper, loop, calls>>,
               answering' # None => answering # None \/ phase = "Running", faults' = 0 => faults = 0
        PROVE  StopIsLast'
    <2>1. \A x : In(x, commands') => In(x, commands) \/ x = Command(what, of)
      BY <1>7, SendIn
    <2>2. NoAdmitAfterStop(commands')
      BY <1>7, <1>a, SendIn
    <2>3. /\ In(Command("stop", None), commands') => In(Command("stop", None), commands)
          /\ \A f \in Faxes : Answered(f)' => Answered(f)
      BY <2>1, CommandKinds DEF Answered
    <2> QED
      BY <1>7, <2>2, <2>3, StopKept
  <1>8. ASSUME NEW f \in Faxes, Accepts(f), UNCHANGED <<phase, stopper, loop, calls>>, phase = "Running"
        PROVE  StopIsLast'
    <2>1. CASE Reserves(f)
      <3>1. UNCHANGED <<faults, commands>>
        BY <2>1 DEF Reserves
      <3> QED
        BY <1>8, <1>a, <1>c, <3>1, StopKept
    <2>2. CASE ReserveFails(f)
      <3>1. Send("refuse", f) /\ Command("refuse", f) \in Commands /\ faults' # 0 /\ UNCHANGED answering
        BY <1>b, <2>2, CommandKinds DEF ReserveFails
      <3> QED
        BY <1>7, <1>8, <3>1
    <2> QED
      BY <1>8, <2>1, <2>2 DEF Accepts
  <1>9. CASE OfferExpired \/ OfferShown
    <2>1. Head(offers) \in Faxes
      BY <1>9, OfferIn DEF OfferExpired, OfferShown
    <2>2. /\ UNCHANGED <<phase, stopper, loop, calls, answering, faults>>
          /\ Send("reject", Head(offers)) \/ UNCHANGED commands
      BY <1>9 DEF OfferExpired, OfferShown, TakesOffer
    <2>3. Command("reject", Head(offers)) \in Commands
      BY <2>1, CommandKinds
    <2> QED
      BY <1>7, <1>a, <1>c, <2>2, <2>3, StopKept
  <1>10. CASE OfferAccepted
    <2>1. Head(offers) \in Faxes
      BY <1>10, OfferIn DEF OfferAccepted
    <2>2. UNCHANGED <<phase, stopper, loop, calls>> /\ phase = "Running" /\ Accepts(Head(offers))
      BY <1>10 DEF OfferAccepted, TakesOffer
    <2> QED
      BY <1>8, <2>1, <2>2
  <1>11. ASSUME NEW f \in Faxes, AcceptIncoming(f) PROVE StopIsLast'
    <2>1. UNCHANGED <<phase, stopper, loop, calls>> /\ phase = "Running" /\ Accepts(f)
      BY <1>11 DEF AcceptIncoming, Decides
    <2> QED
      BY <1>8, <2>1
  <1>12. ASSUME NEW f \in Faxes, RejectIncoming(f) \/ CancelReception(f) PROVE StopIsLast'
    <2>1. /\ UNCHANGED <<phase, stopper, loop, calls, answering, faults>>
          /\ Send("reject", f) \/ Send("cancel", f)
      BY <1>12 DEF RejectIncoming, CancelReception, Decides
    <2>2. Command("reject", f) \in Commands /\ Command("cancel", f) \in Commands
      BY CommandKinds
    <2> QED
      BY <1>7, <2>1, <2>2
  <1>13. ASSUME NEW a \in Accounts \cup {None}, ConfigureReceiver(a) PROVE StopIsLast'
    <2>1. /\ UNCHANGED <<phase, stopper, loop, calls, answering, faults>>
          /\ Send("configure", a) /\ Command("configure", a) \in Commands
      BY <1>13, CommandKinds DEF ConfigureReceiver
    <2> QED
      BY <1>7, <2>1
  <1>14. CASE Stop
    <2>1. PICK q \in Lists(admissions) :
             commands' = IF loop = "gone" THEN commands
                         ELSE commands \o [i \in DOMAIN q |-> Command("reject", q[i])]
      BY <1>14 DEF Stop
    <2> DEFINE t == [i \in DOMAIN q |-> Command("reject", q[i])]
    <2>2. /\ t \in Seq(Commands) /\ \A i \in DOMAIN t : t[i].what = "reject"
          /\ \A x : In(x, t) => x.what = "reject"
      BY <2>1, RejectIn DEF TypeOK
    <2> HIDE DEF t
    <2>3. commands' = commands \/ commands' = commands \o t
      BY <2>1 DEF t
    <2>4. ~In(Command("stop", None), t) /\ \A g \in Faxes : ~In(Command("admit", g), t)
      BY <2>2, CommandKinds
    <2>5. /\ \A x : In(x, commands \o t) <=> In(x, commands) \/ In(x, t)
          /\ NoAdmitAfterStop(commands) /\ (\A i \in DOMAIN t : t[i].what \notin {"admit", "stop"})
               => NoAdmitAfterStop(commands \o t)
      BY <2>2, TypeCommands, ConcatIn
    <2>6. /\ NoAdmitAfterStop(commands')
          /\ \A f \in Faxes : Answered(f)' => Answered(f)
      BY <1>a, <2>2, <2>3, <2>4, <2>5 DEF Answered
    <2>7. /\ phase' = "Stopping" /\ answering' = None /\ UNCHANGED <<loop, calls, faults>>
      BY <1>14 DEF Stop, Free
    <2> QED
      BY <2>6, <2>7 DEF StopIsLast
  <1>15. CASE Respond
    <2>1. answering \in Faxes /\ answering # None /\ answering' = None
      BY <1>15 DEF Respond, TypeOK
    <2>2. phase = "Running"
      BY <2>1 DEF StopIsLast
    <2>3. UNCHANGED <<phase, stopper, loop, calls, faults>>
      BY <1>15 DEF Respond
    <2>4. CASE loop = "gone"
      <3>1. UNCHANGED commands
        BY <1>15, <2>4 DEF Respond
      <3> QED
        BY <1>a, <1>c, <2>1, <2>3, <3>1, StopKept
    <2>5. CASE loop # "gone"
      <3>1. Send("admit", answering) /\ Command("admit", answering) \in Commands
        BY <1>15, <2>1, <2>5, CommandKinds DEF Respond
      <3>2. /\ \A x : In(x, commands') => In(x, commands) \/ x = Command("admit", answering)
            /\ ~In(Command("stop", None), commands)
        BY <2>2, <3>1, SendIn DEF StopIsLast
      <3>3. NoAdmitAfterStop(commands')
        BY <1>a, <3>1, <3>2, SendIn
      <3>4. ~In(Command("stop", None), commands')
        BY <3>2, CommandKinds
      <3> QED
        BY <2>1, <2>2, <2>3, <3>3, <3>4 DEF StopIsLast
    <2> QED
      BY <2>4, <2>5
  <1>16. CASE RespondFails \/ ReceivedFails
    <2>1. /\ faults' # 0 /\ UNCHANGED <<phase, stopper, loop, calls, commands>>
          /\ answering' = answering \/ answering' = None
      BY <1>16, <1>b DEF RespondFails, ReceivedFails
    <2> QED
      BY <1>a, <1>c, <2>1, StopKept
  <1>17. CASE ShutdownSends
    <2>1. /\ Send("stop", None) /\ Command("stop", None) \in Commands
          /\ stopper = "sending" /\ UNCHANGED <<phase, loop, calls, answering, faults>>
      BY <1>17, CommandKinds DEF ShutdownSends
    <2>2. phase # "Running"
      BY <2>1 DEF StopIsLast
    <2>3. /\ \A x : In(x, commands') => In(x, commands) \/ x = Command("stop", None)
          /\ NoAdmitAfterStop(commands')
      BY <1>a, <2>1, SendIn
    <2>4. \A f \in Faxes : Answered(f)' => Answered(f)
      BY <2>3, CommandKinds DEF Answered
    <2> QED
      BY <2>1, <2>2, <2>3, <2>4 DEF StopIsLast
  <1>18. CASE ShutdownJoins \/ Stopped
    <2>1. /\ UNCHANGED <<loop, calls, answering, faults, commands>>
          /\ \/ stopper = "joining" /\ UNCHANGED phase
             \/ UNCHANGED stopper /\ phase' = "Stopped" /\ phase # "Running"
      BY <1>18 DEF ShutdownJoins, Stopped
    <2>2. phase # "Running" /\ phase' # "Running"
      BY <2>1 DEF StopIsLast
    <2>3. /\ answering' = None /\ NoAdmitAfterStop(commands')
          /\ \A f \in Faxes : Answered(f)' => Answered(f)
      BY <1>a, <1>c, <2>1, <2>2 DEF StopIsLast
    <2> QED
      BY <2>1, <2>2, <2>3 DEF StopIsLast
  <1> QED
    BY <1>1, <1>2, <1>3, <1>4, <1>5, <1>6, <1>9, <1>10, <1>11, <1>12, <1>13, <1>14,
       <1>15, <1>16, <1>17, <1>18, NextIsActions DEF Actions

-----------------------------------------------------------------------------
(* Without faults every stored reception is on its way to its end *)

LEMMA FollowedInit == Init => Followed
  BY DEF Init, Followed

(* A step that stores no reception and loses nothing on its way. *)
LEMMA FollowedKept ==
    ASSUME Followed, UNCHANGED <<row, answering>>,
           \A f \in Faxes : /\ Answered(f) => Answered(f)'
                            /\ f \in calls => f \in calls' \/ EndsIn(f, events')
                            /\ EndsIn(f, events) => EndsIn(f, events')
    PROVE  Followed'
  BY DEF Followed, Stored

LEMMA FollowedNext ==
    TypeOK /\ Places /\ StopIsLast /\ (faults = 0 => Followed) /\ [Next]_vars
        => (faults' = 0 => Followed')
  <1> SUFFICES ASSUME TypeOK, Places, StopIsLast, faults = 0 => Followed, [Next]_vars, faults' = 0
               PROVE  Followed'
    OBVIOUS
  <1> USE DEF service, channels, actor, rest
  <1>a. ~Fault
    BY DEF Fault, TypeOK
  <1>b. faults' = faults => Followed
    OBVIOUS
  <1>c. commands' = commands => \A f : Answered(f)' <=> Answered(f)
    BY DEF Answered
  <1>d. events' = events => \A f : EndsIn(f, events') <=> EndsIn(f, events)
    OBVIOUS
  <1>1. CASE \/ \E f \in Faxes, c \in Callers : Invite(f, c)
             \/ InviteFails \/ Expire \/ Reconnect \/ Refill
             \/ \E f \in Faxes : Hangup(f)
             \/ \E f \in Faxes : DeadlinePasses(f)
             \/ \E f \in Faxes : DecisionTooLate(f)
             \/ ReadOffer \/ ShutdownJoins \/ Stopped \/ UNCHANGED vars
    <2>1. UNCHANGED <<row, answering, commands, calls, events, faults>>
      BY <1>1 DEF Invite, InviteFails, Expire, Reconnect, Refill, Hangup, DeadlinePasses,
                  DecisionTooLate, Decides, ReadOffer, ShutdownJoins, Stopped, vars
    <2> QED
      BY <1>b, <1>c, <1>d, <2>1, FollowedKept
  <1>2. ASSUME NEW set \in SUBSET Faxes, NEW how \in Results, Finish(set, how),
               UNCHANGED <<row, answering, commands, faults>>
        PROVE  Followed'
    <2>1. /\ calls' = calls \ set
          /\ \A f : EndsIn(f, events') <=> EndsIn(f, events) \/ f \in set
      BY <1>2, FinishesIn
    <2> QED
      BY <1>2, <1>b, <1>c, <2>1, FollowedKept
  <1>3. ASSUME NEW f \in Faxes, CallEnds(f) PROVE Followed'
    <2> DEFINE set == {f}
    <2>1. PICK how \in Results : Finish(set, how)
      BY <1>3 DEF CallEnds
    <2>2. set \in SUBSET Faxes /\ UNCHANGED <<row, answering, commands, faults>>
      BY <1>3 DEF CallEnds
    <2> HIDE DEF set
    <2> QED
      BY <1>2, <2>1, <2>2
  <1>4. ASSUME NEW set \in SUBSET Faxes, Loses(set) PROVE Followed'
    <2> DEFINE lost == calls \cap set
    <2>1. /\ lost \in SUBSET Faxes /\ "error" \in Results /\ Finish(lost, "error")
          /\ UNCHANGED <<row, answering, commands, faults>>
      BY <1>4 DEF Loses, Results
    <2> HIDE DEF lost
    <2> QED
      BY <1>2, <2>1
  <1>5. CASE Sleeps
    <2> DEFINE set == admission \cup calls
    <2>1. set \in SUBSET Faxes /\ Loses(set)
      BY <1>5 DEF Sleeps, TypeOK
    <2> HIDE DEF set
    <2> QED
      BY <1>4, <2>1
  <1>6. ASSUME NEW a \in Accounts, ConnectionFails(a) PROVE Followed'
    <2> DEFINE set == {f \in admission \cup calls : account[f] = a}
    <2>1. set \in SUBSET Faxes /\ Loses(set)
      BY <1>6 DEF ConnectionFails, TypeOK
    <2> HIDE DEF set
    <2> QED
      BY <1>4, <2>1
  <1>7. ~LoopFails /\ ~RespondFails /\ ~ReceivedFails
    BY <1>a DEF LoopFails, RespondFails, ReceivedFails
  <1>8. ASSUME NEW what \in {"configure", "cancel", "reject", "refuse"}, Takes(what),
               UNCHANGED <<row, answering, calls, events, faults>>
        PROVE  Followed'
    <2>1. \A f \in Faxes : Answered(f)' <=> Answered(f)
      BY <1>8, OtherTake
    <2> QED
      BY <1>8, <1>b, <1>d, <2>1, FollowedKept
  <1>9. CASE Configure \/ CancelIncoming \/ Refuse
    <2>1. /\ UNCHANGED <<row, answering, calls, events, faults>>
          /\ Takes("configure") \/ Takes("cancel") \/ Takes("reject") \/ Takes("refuse")
      BY <1>9 DEF Configure, CancelIncoming, Refuse
    <2> QED
      BY <1>8, <2>1
  <1>10. ASSUME Answer \/ AnswerFails \/ AnswerNobody PROVE Followed'
    <2> DEFINE f == Head(commands).of
    <2>1. Takes("admit")
      BY <1>10 DEF Answer, AnswerFails, AnswerNobody
    <2>2. f \in Faxes /\ \A g \in Faxes : Answered(g) <=> Answered(g)' \/ g = f
      BY <2>1, AdmitTake
    <2>3. /\ UNCHANGED <<row, answering, faults>>
          /\ \/ UNCHANGED events /\ calls' = calls \cup {f}
             \/ UNCHANGED calls /\ \E how \in Results : events' = Append(events, Finished(f, how))
      BY <1>10 DEF Answer, AnswerFails, AnswerNobody, Results
    <2> HIDE DEF f
    <2>4. \/ UNCHANGED events /\ calls' = calls \cup {f}
          \/ UNCHANGED calls /\ \A g : EndsIn(g, events') <=> EndsIn(g, events) \/ g = f
      BY <2>2, <2>3, ReportIn
    <2>5. \A g \in Faxes : Stored(g) => Stored(g)'
      BY <2>2, <2>3, <2>4 DEF Stored
    <2> QED
      BY <1>b, <2>3, <2>5 DEF Followed
  <1>11. CASE StopCommand
    <2>1. commands # <<>> /\ Head(commands).what = "stop" /\ commands \in Seq(Commands)
      BY <1>11, TypeCommands DEF StopCommand
    <2>2. \A i \in DOMAIN commands : commands[i].what # "admit"
      BY <2>1, TailIn DEF StopIsLast
    <2>3. \A f \in Faxes : ~Answered(f)
      BY <2>2, CommandKinds DEF Answered, In
    <2>4. /\ calls' = {} /\ \A f : EndsIn(f, events') <=> EndsIn(f, events) \/ f \in calls
          /\ UNCHANGED <<row, answering, faults>>
      BY <1>11, TypeTearDown DEF StopCommand, Results
    <2> QED
      BY <1>b, <2>3, <2>4, FollowedKept
  <1>12. CASE LoopGone
    <2>1. UNCHANGED <<row, answering, calls, events, faults>> /\ loop # "running"
      BY <1>12 DEF LoopGone
    <2>2. \A f \in Faxes : ~Answered(f)
      BY <2>1 DEF StopIsLast
    <2> QED
      BY <1>b, <1>d, <2>1, <2>2, FollowedKept
  <1>13. ASSUME NEW what \in {"refuse", "reject", "cancel", "configure", "stop"}, NEW of, Send(what, of),
                Command(what, of) \in Commands, UNCHANGED <<row, answering, calls, events, faults>>
         PROVE  Followed'
    <2>1. \A f \in Faxes : Answered(f)' <=> Answered(f)
      BY <1>13, OtherSend
    <2> QED
      BY <1>13, <1>b, <1>d, <2>1, FollowedKept
  <1>14. ASSUME NEW f \in Faxes, Accepts(f), answering = None, UNCHANGED <<calls, events>> PROVE Followed'
    <2>1. Reserves(f)
      BY <1>14, <1>a DEF Accepts, ReserveFails
    <2>2. /\ UNCHANGED <<commands, faults>> /\ answering' = f
          /\ \A g \in Faxes \ {f} : row'[g] = row[g]
      BY <2>1 DEF Reserves, TypeOK
    <2>3. \A g \in Faxes : g # None
      BY ReceptionAssumption DEF None
    <2>4. \A g \in Faxes : Stored(g) => Stored(g)'
      BY <1>14, <1>c, <1>d, <2>2, <2>3 DEF Stored
    <2>5. Stored(f)'
      BY <2>2 DEF Stored
    <2> QED
      BY <1>b, <2>2, <2>4, <2>5 DEF Followed
  <1>15. CASE OfferExpired \/ OfferShown
    <2>1. Head(offers) \in Faxes
      BY <1>15, OfferIn DEF OfferExpired, OfferShown
    <2>2. /\ UNCHANGED <<row, answering, calls, events, faults>>
          /\ Send("reject", Head(offers)) \/ UNCHANGED commands
      BY <1>15 DEF OfferExpired, OfferShown, TakesOffer
    <2>3. Command("reject", Head(offers)) \in Commands
      BY <2>1, CommandKinds
    <2>4. CASE UNCHANGED commands
      BY <1>b, <1>c, <1>d, <2>2, <2>4, FollowedKept
    <2> QED
      BY <1>13, <2>2, <2>3, <2>4
  <1>16. CASE OfferAccepted
    <2>1. Head(offers) \in Faxes
      BY <1>16, OfferIn DEF OfferAccepted
    <2>2. answering = None /\ UNCHANGED <<calls, events>> /\ Accepts(Head(offers))
      BY <1>16 DEF OfferAccepted, TakesOffer, Free
    <2> QED
      BY <1>14, <2>1, <2>2
  <1>17. ASSUME NEW f \in Faxes, AcceptIncoming(f) PROVE Followed'
    <2>1. answering = None /\ UNCHANGED <<calls, events>> /\ Accepts(f)
      BY <1>17 DEF AcceptIncoming, Decides, Free
    <2> QED
      BY <1>14, <2>1
  <1>18. ASSUME NEW f \in Faxes, RejectIncoming(f) \/ CancelReception(f) PROVE Followed'
    <2>1. /\ UNCHANGED <<row, answering, calls, events, faults>>
          /\ Send("reject", f) \/ Send("cancel", f)
      BY <1>18 DEF RejectIncoming, CancelReception, Decides
    <2>2. Command("reject", f) \in Commands /\ Command("cancel", f) \in Commands
      BY CommandKinds
    <2> QED
      BY <1>13, <2>1, <2>2
  <1>19. ASSUME NEW a \in Accounts \cup {None}, ConfigureReceiver(a) PROVE Followed'
    <2>1. /\ UNCHANGED <<row, answering, calls, events, faults>>
          /\ Send("configure", a) /\ Command("configure", a) \in Commands
      BY <1>19, CommandKinds DEF ConfigureReceiver
    <2> QED
      BY <1>13, <2>1
  <1>20. CASE ShutdownSends
    <2>1. /\ UNCHANGED <<row, answering, calls, events, faults>>
          /\ Send("stop", None) /\ Command("stop", None) \in Commands
      BY <1>20, CommandKinds DEF ShutdownSends
    <2> QED
      BY <1>13, <2>1
  <1>21. CASE Stop
    <2>1. PICK q \in Lists(admissions) :
             commands' = IF loop = "gone" THEN commands
                         ELSE commands \o [i \in DOMAIN q |-> Command("reject", q[i])]
      BY <1>21 DEF Stop
    <2> DEFINE t == [i \in DOMAIN q |-> Command("reject", q[i])]
    <2>2. t \in Seq(Commands)
      BY <2>1, RejectIn DEF TypeOK
    <2> HIDE DEF t
    <2>3. commands' = commands \/ commands' = commands \o t
      BY <2>1 DEF t
    <2>4. \A x : In(x, commands \o t) <=> In(x, commands) \/ In(x, t)
      BY <2>2, TypeCommands, ConcatIn
    <2>5. \A f \in Faxes : Answered(f) => Answered(f)'
      BY <1>c, <2>3, <2>4 DEF Answered
    <2>6. UNCHANGED <<row, answering, calls, events, faults>>
      BY <1>21 DEF Stop
    <2> QED
      BY <1>b, <1>d, <2>5, <2>6, FollowedKept
  <1>22. CASE Respond
    <2>1. answering \in Faxes /\ UNCHANGED <<calls, events, faults>>
      BY <1>22 DEF Respond, TypeOK
    <2>2. CASE loop = "gone"
      <3>1. row' = [row EXCEPT ![answering] = "Interrupted"] /\ UNCHANGED commands
        BY <1>22, <2>2 DEF Respond
      <3>2. \A g \in Faxes : row'[g] = "Receiving" => row[g] = "Receiving" /\ g # answering
        BY <2>1, <3>1 DEF TypeOK
      <3>3. \A g \in Faxes : Stored(g) /\ g # answering => Stored(g)'
        BY <1>c, <1>d, <2>1, <3>1 DEF Stored
      <3> QED
        BY <1>b, <2>1, <3>2, <3>3 DEF Followed
    <2>3. CASE loop # "gone"
      <3>1. Send("admit", answering) /\ UNCHANGED row /\ Command("admit", answering) \in Commands
        BY <1>22, <2>1, <2>3, CommandKinds DEF Respond
      <3>2. \A x : In(x, commands') <=> In(x, commands) \/ x = Command("admit", answering)
        BY <2>3, <3>1, SendIn
      <3>3. \A g \in Faxes : Answered(g)' <=> Answered(g) \/ g = answering
        BY <3>2, CommandKinds DEF Answered
      <3>4. \A g \in Faxes : Stored(g) => Stored(g)'
        BY <1>d, <2>1, <3>3 DEF Stored
      <3> QED
        BY <1>b, <2>1, <3>1, <3>4 DEF Followed
    <2> QED
      BY <2>2, <2>3
  <1>23. CASE Received
    <2> DEFINE f == Head(events).of
    <2>1. /\ events # <<>> /\ events' = Tail(events)
          /\ UNCHANGED <<calls, answering, commands, faults>>
          /\ row' = IF row[f] = "Absent" THEN row ELSE [row EXCEPT ![f] = Outcome(Head(events).how)]
      BY <1>23 DEF Received
    <2>2. /\ Head(events) \in Events
          /\ \A g : EndsIn(g, events) <=> EndsIn(g, events') \/ g = f
      BY <2>1, EventIn
    <2>3. f \in Faxes
      BY <2>2 DEF Events
    <2>4. Outcome(Head(events).how) # "Receiving"
      BY DEF Outcome
    <2> HIDE DEF f
    <2>5. \A g \in Faxes : row'[g] = "Receiving" => row[g] = "Receiving" /\ g # f
      BY <2>1, <2>3, <2>4 DEF TypeOK
    <2>6. \A g \in Faxes : Stored(g) /\ g # f => Stored(g)'
      BY <1>c, <2>1, <2>2 DEF Stored
    <2> QED
      BY <1>b, <2>1, <2>5, <2>6 DEF Followed
  <1>24. ASSUME NEW f \in Faxes, Recovers(f) PROVE Followed'
    <2>1. /\ row' = [row EXCEPT ![f] = "Partial"]
          /\ UNCHANGED <<answering, commands, calls, events, faults>>
      BY <1>24 DEF Recovers
    <2>2. \A g \in Faxes : row'[g] = "Receiving" => row[g] = "Receiving"
      BY <2>1 DEF TypeOK
    <2>3. \A g \in Faxes : Stored(g) => Stored(g)'
      BY <1>c, <1>d, <2>1 DEF Stored
    <2> QED
      BY <1>b, <2>1, <2>2, <2>3 DEF Followed
  <1> QED
    BY <1>1, <1>3, <1>5, <1>6, <1>7, <1>9, <1>10, <1>11, <1>12, <1>15, <1>16, <1>17, <1>18,
       <1>19, <1>20, <1>21, <1>22, <1>23, <1>24, NextIsActions DEF Actions

LEMMA Invariance == Spec => []Inv
  <1>1. Init => Inv
    BY TypeInit, SlotsInit, PlacesInit, StopInit, FollowedInit DEF Inv
  <1>2. Inv /\ [Next]_vars => Inv'
    BY TypeNext, SlotsNext, PlacesNext, StopNext, FollowedNext DEF Inv
  <1> QED
    BY <1>1, <1>2, PTL DEF Spec

(* As long as nothing failed, a reception that is shown as being received  *)
(* is on its way to an end, whatever raced with the storing of its row.    *)
THEOREM NoneOrphaned == Spec => []NoOrphan
  <1>1. Inv => NoOrphan
    BY DEF Inv, Followed, Stored, Answered, In, EndsIn, NoOrphan, Sent, Ending
  <1> QED
    BY <1>1, Invariance, PTL

(* Without faults no reception is left being received once the service is  *)
(* gone and the actor has handled what it sent: the cleanup of the service *)
(* loop and the interruption by the actor overlook none.                   *)
THEOREM NoneLeftWhenGone == Spec => [](faults = 0 => SettledWhenGone)
  <1>1. Inv => (faults = 0 => SettledWhenGone)
    <2> SUFFICES ASSUME Inv, faults = 0, loop = "gone", events = <<>>, answering = None,
                        NEW f \in Faxes, row[f] = "Receiving"
                 PROVE  FALSE
      BY DEF SettledWhenGone
    <2>1. Stored(f) /\ f # None
      BY ReceptionAssumption DEF Inv, Followed, None
    <2>2. ~Answered(f) /\ f \notin calls
      BY DEF Inv, StopIsLast
    <2>3. ~EndsIn(f, events)
      BY EmptyIn
    <2> QED
      BY <2>1, <2>2, <2>3 DEF Stored
  <1> QED
    BY <1>1, Invariance, PTL

(* What the record of a reception tells of its end is never changed by a   *)
(* late event, answer, retry, loss or stop.  The exporter alone changes it, *)
(* to Partial, and never again.                                            *)
EndStays == [][\A f \in Faxes : row[f] \in Ends /\ row'[f] # row[f] => Recovers(f)]_vars

THEOREM OnlyExportChangesEnd == Spec => EndStays
  <1>1. ASSUME Inv, [Next]_vars, NEW f \in Faxes, row[f] \in Ends
        PROVE  row'[f] = row[f] \/ Recovers(f)
    <2>1. ~Open(f) /\ ~Stored(f) /\ TypeOK
      BY <1>1 DEF Inv, Places, OnePlace, Ends, CallEnd
    <2> USE DEF service, channels, actor, rest
    <2>2. ASSUME NEW g \in Faxes, Open(g), Accepts(g) PROVE row'[f] = row[f]
      BY <2>1, <2>2 DEF Accepts, Reserves, ReserveFails, TypeOK
    <2>3. CASE OfferAccepted
      <3>1. Head(offers) \in Faxes /\ In(Head(offers), offers)
        BY <2>1, <2>3, OfferIn DEF OfferAccepted
      <3> QED
        BY <2>2, <2>3, <3>1 DEF OfferAccepted, Open
    <2>4. ASSUME NEW g \in Faxes, AcceptIncoming(g) PROVE row'[f] = row[f]
      BY <2>2, <2>4 DEF AcceptIncoming, Decides, Open
    <2>5. CASE Respond
      <3>1. answering # f
        BY <2>1 DEF Stored
      <3> QED
        BY <2>1, <2>5, <3>1 DEF Respond, TypeOK
    <2>6. CASE Received
      <3>1. EndsIn(Head(events).of, events)
        BY <2>1, <2>6, EventIn DEF Received
      <3>2. Head(events).of # f
        BY <2>1, <3>1 DEF Stored
      <3> QED
        BY <2>1, <2>6, <3>2 DEF Received, TypeOK
    <2>7. CASE \/ LoopFails \/ StopCommand \/ Sleeps \/ \E a \in Accounts : ConnectionFails(a)
      BY <2>7 DEF LoopFails, StopCommand, TearDown, Sleeps, ConnectionFails, Loses
    <2>8. ASSUME NEW g \in Faxes, Recovers(g), g # f PROVE row'[f] = row[f]
      BY <2>1, <2>8 DEF Recovers, TypeOK
    <2> QED
      BY <1>1, <2>3, <2>4, <2>5, <2>6, <2>7, <2>8, NextIsActions
      DEF Actions, Invite, InviteFails, Expire, CallEnds, Reconnect, Refill, Configure, CancelIncoming,
          Refuse, Answer, AnswerFails, AnswerNobody, LoopGone, Hangup, DeadlinePasses, OfferExpired,
          OfferShown, TakesOffer, ReadOffer, RejectIncoming, DecisionTooLate, CancelReception,
          ConfigureReceiver, Decides, Stop, RespondFails, ReceivedFails, ShutdownSends, ShutdownJoins,
          Stopped, vars
  <1>2. Inv /\ [Next]_vars
           => [\A f \in Faxes : row[f] \in Ends /\ row'[f] # row[f] => Recovers(f)]_vars
    BY <1>1
  <1> QED
    BY <1>2, Invariance, PTL DEF Spec, EndStays

-----------------------------------------------------------------------------
(* Service and actor keep the promise of Inbox *)

Pages(f, s) == In(Finished(f, "pages"), s)
Waits(f) == answering = f \/ Answered(f)

(* The stage of a call, in the terms of the invariants. *)
StageShape ==
    \A f \in Faxes :
        Stage(f) = IF f \in calls THEN "talking"
                   ELSE IF row[f] # "Receiving" THEN row[f]
                   ELSE IF Pages(f, events) THEN "full"
                   ELSE IF EndsIn(f, events) THEN "empty"
                   ELSE IF Waits(f) THEN "stored"
                   ELSE "stale"

LEMMA StageIs == StageShape /\ StageShape'
  BY DEF StageShape, Stage, Reports, Ending, Sent, Pages, EndsIn, In, Waits, Answered

LEMMA PagesEnd == \A f, s : Pages(f, s) => EndsIn(f, s)
  BY DEF Pages, In, EndsIn, Finished

(* How the way of one call may go on in one step.                          *)
Goes(f) ==
    /\ row[f] # "Receiving" => \/ row'[f] = row[f]
                               \/ row[f] = "Absent" /\ answering' = f
                               \/ row[f] \in CallEnd /\ row'[f] = "Partial"
    /\ f \in calls => f \in calls' \/ EndsIn(f, events')
    /\ EndsIn(f, events) =>
          \/ EndsIn(f, events') /\ (Pages(f, events') <=> Pages(f, events))
          \/ row'[f] = "Receiving" /\ ~Stored(f)'
          \/ Pages(f, events) /\ row'[f] = "Received"
          \/ ~Pages(f, events) /\ row'[f] \in {"Failed", "Interrupted"}
    /\ Waits(f) =>
          \/ Waits(f)' \/ f \in calls' \/ (EndsIn(f, events') /\ ~Pages(f, events'))
          \/ row'[f] = "Receiving" /\ ~Stored(f)'
          \/ row'[f] = "Interrupted"
    /\ row[f] = "Receiving" /\ ~Stored(f) => row'[f] = "Receiving" /\ ~Stored(f)'

LEMMA GoesFollows ==
    ASSUME Inv, Inv', NEW f \in Faxes, Goes(f)
    PROVE  Stage(f)' \in Promise!Follows(Stage(f))
  <1>1. /\ row[f] \in Outcomes /\ row'[f] \in Outcomes
        /\ OnePlace(f) /\ OnePlace(f)'
    BY DEF Inv, TypeOK, Places
  <1>2. /\ Stage(f) = IF f \in calls THEN "talking"
                      ELSE IF row[f] # "Receiving" THEN row[f]
                      ELSE IF Pages(f, events) THEN "full"
                      ELSE IF EndsIn(f, events) THEN "empty"
                      ELSE IF Waits(f) THEN "stored"
                      ELSE "stale"
        /\ Stage(f)' = IF f \in calls' THEN "talking"
                       ELSE IF row'[f] # "Receiving" THEN row'[f]
                       ELSE IF Pages(f, events') THEN "full"
                       ELSE IF EndsIn(f, events') THEN "empty"
                       ELSE IF Waits(f)' THEN "stored"
                       ELSE "stale"
    BY StageIs DEF StageShape
  <1>3. /\ Stored(f) <=> Waits(f) \/ f \in calls \/ EndsIn(f, events)
        /\ Stored(f)' <=> Waits(f)' \/ f \in calls' \/ EndsIn(f, events')
    BY DEF Stored, Waits
  <1>4. /\ Stored(f) => row[f] = "Receiving"
        /\ Waits(f) => f \notin calls /\ ~EndsIn(f, events)
        /\ f \in calls => ~EndsIn(f, events)
        /\ Stored(f)' => row'[f] = "Receiving"
        /\ Waits(f)' => f \notin calls' /\ ~EndsIn(f, events')
        /\ f \in calls' => ~EndsIn(f, events')
    BY <1>1 DEF OnePlace, Waits
  <1>5. /\ Pages(f, events) => EndsIn(f, events)
        /\ Pages(f, events') => EndsIn(f, events')
    BY PagesEnd
  <1>6. CASE f \in calls
    <2>1. Stage(f) = "talking" /\ Stage(f)' \in {"talking", "full", "empty"}
      BY <1>2, <1>3, <1>4, <1>5, <1>6 DEF Goes
    <2> QED
      BY <2>1 DEF Promise!Follows
  <1>7. CASE row[f] # "Receiving"
    <2>1. Stage(f) = row[f] /\ row[f] \in {"Absent", "Received", "Failed", "Interrupted", "Partial"}
      BY <1>1, <1>2, <1>3, <1>4, <1>7 DEF Outcomes, Ends, CallEnd
    <2>2. CASE row'[f] = row[f]
      <3>1. Stage(f)' = Stage(f)
        BY <1>2, <1>3, <1>4, <1>7, <2>1, <2>2
      <3> QED
        BY <2>1, <3>1 DEF Promise!Follows
    <2>3. CASE row[f] = "Absent" /\ answering' = f
      <3>1. Waits(f)'
        BY <2>3 DEF Waits
      <3>2. Stage(f)' = "stored"
        BY <1>2, <1>3, <1>4, <1>5, <3>1
      <3> QED
        BY <2>1, <2>3, <3>2 DEF Promise!Follows
    <2>4. CASE row[f] \in CallEnd /\ row'[f] = "Partial"
      <3>1. f \notin calls' /\ Stage(f)' = "Partial"
        BY <1>2, <1>3, <1>4, <2>4
      <3> QED
        BY <2>1, <2>4, <3>1 DEF Promise!Follows, CallEnd
    <2> QED
      BY <1>7, <2>2, <2>3, <2>4 DEF Goes
  <1>8. CASE EndsIn(f, events)
    <2>1. /\ Stage(f) = IF Pages(f, events) THEN "full" ELSE "empty"
          /\ \/ Stage(f)' = Stage(f)
             \/ Stage(f)' = "stale"
             \/ Pages(f, events) /\ Stage(f)' = "Received"
             \/ ~Pages(f, events) /\ Stage(f)' \in {"Failed", "Interrupted"}
      BY <1>2, <1>3, <1>4, <1>5, <1>8 DEF Goes
    <2> QED
      BY <2>1 DEF Promise!Follows
  <1>9. CASE Waits(f)
    <2>1. /\ Stage(f) = "stored"
          /\ Stage(f)' \in {"stored", "talking", "empty", "Interrupted", "stale"}
      BY <1>2, <1>3, <1>4, <1>5, <1>9 DEF Goes
    <2> QED
      BY <2>1 DEF Promise!Follows
  <1>10. CASE row[f] = "Receiving" /\ ~Stored(f)
    <2>1. Stage(f) = "stale" /\ Stage(f)' = "stale"
      BY <1>2, <1>3, <1>5, <1>10 DEF Goes
    <2> QED
      BY <2>1 DEF Promise!Follows
  <1> QED
    BY <1>3, <1>6, <1>7, <1>8, <1>9, <1>10

(* A reception that waits for its answer is at no other place, and so on.  *)
LEMMA Apart ==
    ASSUME Inv, NEW f \in Faxes
    PROVE  /\ row[f] # "Receiving" => ~Stored(f)
           /\ Stored(f) <=> Waits(f) \/ f \in calls \/ EndsIn(f, events)
           /\ Waits(f) => f \notin calls /\ ~EndsIn(f, events)
           /\ f \in calls => ~EndsIn(f, events)
           /\ answering = f => ~Answered(f)
           /\ f # None
  BY ReceptionAssumption DEF Inv, Places, OnePlace, Stored, Waits, None

(* Nothing moves but what is said to be answered. *)
LEMMA GoesQuietly ==
    ASSUME Inv, NEW f \in Faxes, UNCHANGED <<row, answering, calls, events>>,
           Answered(f)' <=> Answered(f)
    PROVE  Goes(f)
  <1>1. /\ EndsIn(f, events') <=> EndsIn(f, events)
        /\ Pages(f, events') <=> Pages(f, events)
    OBVIOUS
  <1>2. (Waits(f)' <=> Waits(f)) /\ (Stored(f)' <=> Stored(f))
    BY <1>1 DEF Waits, Stored
  <1> QED
    BY <1>1, <1>2 DEF Goes

(* Calls of a set end. *)
LEMMA GoesFinished ==
    ASSUME Inv, NEW set \in SUBSET calls, NEW how \in Results, Finish(set, how),
           UNCHANGED <<row, answering>>,
           NEW f \in Faxes, (Answered(f)' <=> Answered(f)) \/ (~Answered(f)' /\ answering # f)
    PROVE  Goes(f)
  <1>1. TypeOK /\ set \in SUBSET Faxes /\ events \in Seq(Events)
    BY TypeCommands DEF Inv, TypeOK
  <1>2. /\ calls' = calls \ set
        /\ \A g : EndsIn(g, events') <=> EndsIn(g, events) \/ g \in set
    BY <1>1, FinishesIn
  <1>3. PICK q \in Lists(set) : events' = events \o [i \in DOMAIN q |-> Finished(q[i], how)]
    BY DEF Finish
  <1>4. Pages(f, events') <=> Pages(f, events) \/ Pages(f, [i \in DOMAIN q |-> Finished(q[i], how)])
    <2> DEFINE t == [i \in DOMAIN q |-> Finished(q[i], how)]
    <2>1. t \in Seq(Events)
      BY <1>1, <1>3, FinishedList
    <2> HIDE DEF t
    <2>2. events' = events \o t
      BY <1>3 DEF t
    <2>3. Pages(f, events') <=> Pages(f, events) \/ Pages(f, t)
      BY <1>1, <2>1, <2>2, ConcatIn DEF Pages
    <2> QED
      BY <2>3 DEF t
  <1>5. Pages(f, [i \in DOMAIN q |-> Finished(q[i], how)]) => f \in set
    BY <1>1, <1>3, FinishedList, PagesEnd
  <1>6. f \notin set => (Pages(f, events') <=> Pages(f, events))
    BY <1>4, <1>5
  <1>7. /\ Stored(f)' <=> Waits(f)' \/ f \in calls' \/ EndsIn(f, events')
        /\ Waits(f)' <=> answering' = f \/ Answered(f)'
        /\ Waits(f) <=> answering = f \/ Answered(f)
    BY DEF Stored, Waits
  <1>8. row[f] = "Receiving" \/ ~Waits(f)
    BY Apart
  <1> QED
    BY <1>2, <1>6, <1>7, <1>8, Apart DEF Goes

(* The end of one call is reported. *)
LEMMA PagesReported ==
    ASSUME TypeOK, NEW g \in Faxes, NEW how \in Results, events' = Append(events, Finished(g, how))
    PROVE  \A f : Pages(f, events') <=> Pages(f, events) \/ (f = g /\ how = "pages")
  <1> DEFINE e == Finished(g, how)
  <1>1. events \in Seq(Events) /\ e \in Events
    BY TypeCommands DEF Events, Finished
  <1>2. \A f : Finished(f, "pages") = e <=> f = g /\ how = "pages"
    <2>1. \A f : /\ Finished(f, "pages").of = f /\ Finished(f, "pages").how = "pages"
                 /\ e.of = g /\ e.how = how
      BY DEF Finished
    <2> QED
      BY <2>1
  <1> HIDE DEF e
  <1>3. events' = Append(events, e)
    BY DEF e
  <1>4. \A x : In(x, events') <=> In(x, events) \/ x = e
    BY <1>1, <1>3, AppendIn
  <1> QED
    BY <1>2, <1>4 DEF Pages

(* The actor takes the end of one call: that of no other is changed.       *)
LEMMA PagesTaken ==
    ASSUME Inv, events # <<>>, events' = Tail(events)
    PROVE  LET g == Head(events).of
           IN  /\ g \in Faxes /\ EndsIn(g, events) /\ ~EndsIn(g, events')
               /\ Pages(g, events) <=> Head(events).how = "pages"
               /\ \A f \in Faxes \ {g} : /\ EndsIn(f, events') <=> EndsIn(f, events)
                                         /\ Pages(f, events') <=> Pages(f, events)
  <1> DEFINE g == Head(events).of
  <1>1. events \in Seq(Events) /\ EndsApart(events) /\ TypeOK
    BY TypeCommands DEF Inv, Places
  <1>2. /\ Head(events) \in Events /\ EndsIn(g, events) /\ ~EndsIn(g, events')
        /\ \A f : EndsIn(f, events) <=> EndsIn(f, events') \/ f = g
    BY <1>1, EventIn
  <1>3. \A x : In(x, events) <=> In(x, events') \/ x = Head(events)
    BY <1>1, TailIn
  <1>4. /\ \A f : Finished(f, "pages") = Head(events) => f = g /\ Head(events).how = "pages"
        /\ Head(events).how = "pages" => Head(events) = Finished(g, "pages")
        /\ g \in Faxes
    BY <1>2 DEF Events, Finished
  <1>5. ~Pages(g, events')
    BY <1>2, PagesEnd
  <1> HIDE DEF g
  <1>6. Pages(g, events) <=> Head(events).how = "pages"
    BY <1>3, <1>4, <1>5 DEF Pages
  <1>7. \A f : f # g => (Pages(f, events') <=> Pages(f, events))
    BY <1>3, <1>4 DEF Pages
  <1> QED
    BY <1>2, <1>4, <1>6, <1>7 DEF g

(* The actor stores a reception, or refuses it. *)
LEMMA GoesStored ==
    ASSUME Inv, NEW g \in Faxes, Open(g), Accepts(g), answering = None, UNCHANGED <<calls, events>>,
           NEW f \in Faxes
    PROVE  Goes(f)
  <1>1. TypeOK /\ row[g] = "Absent"
    BY DEF Inv, Places, OnePlace
  <1>2. CASE ReserveFails(g)
    <2>1. Command("refuse", g) \in Commands /\ Send("refuse", g) /\ UNCHANGED <<row, answering>>
      BY <1>2, CommandKinds DEF ReserveFails
    <2>2. Answered(f)' <=> Answered(f)
      BY <1>1, <2>1, OtherSend
    <2> QED
      BY <2>1, <2>2, GoesQuietly
  <1>3. CASE Reserves(g)
    <2>1. /\ UNCHANGED commands /\ answering' = g
          /\ row' = [row EXCEPT ![g] = "Receiving"]
      BY <1>3 DEF Reserves
    <2>2. Answered(f)' <=> Answered(f)
      BY <2>1 DEF Answered
    <2>3. /\ EndsIn(f, events') <=> EndsIn(f, events)
          /\ Pages(f, events') <=> Pages(f, events)
      OBVIOUS
    <2>4. /\ Stored(f)' <=> Waits(f)' \/ f \in calls' \/ EndsIn(f, events')
          /\ Waits(f)' <=> answering' = f \/ Answered(f)'
          /\ Waits(f) <=> answering = f \/ Answered(f)
      BY DEF Stored, Waits
    <2>5. CASE f = g
      BY <1>1, <2>1, <2>5, Apart DEF Goes
    <2>6. CASE f # g
      <3>1. row'[f] = row[f]
        BY <1>1, <2>1, <2>6 DEF TypeOK
      <3> QED
        BY <2>1, <2>2, <2>3, <2>4, <2>6, <3>1, Apart DEF Goes
    <2> QED
      BY <2>5, <2>6
  <1> QED
    BY <1>2, <1>3 DEF Accepts

(* The service answers a call that was stored, or reports its end.         *)
LEMMA GoesAnswered ==
    ASSUME Inv, Answer \/ AnswerFails \/ AnswerNobody, NEW f \in Faxes
    PROVE  Goes(f)
  <1> USE DEF service, channels, actor, rest
  <1> DEFINE g == Head(commands).of
  <1>1. Takes("admit") /\ TypeOK
    BY DEF Answer, AnswerFails, AnswerNobody, Inv
  <1>2. g \in Faxes /\ Answered(g) /\ (Answered(f) <=> Answered(f)' \/ f = g)
    BY <1>1, AdmitTake
  <1>3. /\ UNCHANGED <<row, answering>>
        /\ \/ UNCHANGED events /\ calls' = calls \cup {g}
           \/ UNCHANGED calls /\ \E how \in {"cancelled", "error"} : events' = Append(events, Finished(g, how))
    BY DEF Answer, AnswerFails, AnswerNobody
  <1> HIDE DEF g
  <1>4. \/ UNCHANGED events /\ calls' = calls \cup {g}
        \/ /\ UNCHANGED calls
           /\ EndsIn(f, events') <=> EndsIn(f, events) \/ f = g
           /\ Pages(f, events') <=> Pages(f, events)
    <2> SUFFICES ASSUME NEW how \in {"cancelled", "error"}, events' = Append(events, Finished(g, how))
                 PROVE  /\ EndsIn(f, events') <=> EndsIn(f, events) \/ f = g
                        /\ Pages(f, events') <=> Pages(f, events)
      BY <1>3
    <2>1. how \in Results /\ how # "pages"
      BY DEF Results
    <2> QED
      BY <1>1, <1>2, <2>1, ReportIn, PagesReported
  <1>5. UNCHANGED events => /\ EndsIn(f, events') <=> EndsIn(f, events)
                            /\ Pages(f, events') <=> Pages(f, events)
    OBVIOUS
  <1>6. /\ Stored(f)' <=> Waits(f)' \/ f \in calls' \/ EndsIn(f, events')
        /\ Waits(f)' <=> answering' = f \/ Answered(f)'
        /\ Waits(f) <=> answering = f \/ Answered(f)
    BY DEF Stored, Waits
  <1>7. f = g => ~EndsIn(f, events) /\ ~Pages(f, events) /\ row[f] = "Receiving"
    BY <1>2, <1>6, Apart, PagesEnd
  <1>8. CASE f = g
    BY <1>2, <1>3, <1>4, <1>5, <1>6, <1>7, <1>8, Apart DEF Goes
  <1>9. CASE f # g
    BY <1>2, <1>3, <1>4, <1>5, <1>6, <1>9, Apart DEF Goes
  <1> QED
    BY <1>8, <1>9

(* The answer reaches the service, or finds it gone. *)
LEMMA GoesResponded ==
    ASSUME Inv, Respond \/ RespondFails, NEW f \in Faxes
    PROVE  Goes(f)
  <1> USE DEF service, channels, actor, rest
  <1> DEFINE g == answering
  <1>1. TypeOK /\ g \in Faxes /\ answering' = None /\ UNCHANGED <<calls, events>>
    BY DEF Respond, RespondFails, Inv, TypeOK
  <1>2. /\ EndsIn(f, events') <=> EndsIn(f, events)
        /\ Pages(f, events') <=> Pages(f, events)
    BY <1>1
  <1>3. /\ Stored(f)' <=> Waits(f)' \/ f \in calls' \/ EndsIn(f, events')
        /\ Waits(f)' <=> answering' = f \/ Answered(f)'
        /\ Waits(f) <=> answering = f \/ Answered(f)
    BY DEF Stored, Waits
  <1>4. CASE Send("admit", g) /\ loop # "gone" /\ UNCHANGED row
    <2>1. Command("admit", g) \in Commands
      BY <1>1, CommandKinds
    <2>2. \A x : In(x, commands') <=> In(x, commands) \/ x = Command("admit", g)
      BY <1>1, <1>4, <2>1, SendIn
    <2>3. Answered(f)' <=> Answered(f) \/ f = g
      BY <2>2, CommandKinds DEF Answered
    <2> QED
      BY <1>1, <1>2, <1>3, <1>4, <2>3, Apart DEF Goes
  <1>5. CASE UNCHANGED commands /\ (UNCHANGED row \/ row' = [row EXCEPT ![g] = "Interrupted"])
    <2>1. Answered(f)' <=> Answered(f)
      BY <1>5 DEF Answered
    <2>2. /\ f # g => row'[f] = row[f]
          /\ f = g => row'[f] = row[f] \/ row'[f] = "Interrupted"
      BY <1>1, <1>5 DEF TypeOK
    <2>3. CASE f = g
      <3>1. row[f] = "Receiving" /\ Waits(f)
        BY <1>3, <2>3, Apart
      <3>2. ~Stored(f)'
        BY <1>1, <1>2, <1>3, <2>1, <2>3, Apart
      <3> QED
        BY <2>2, <2>3, <3>1, <3>2, Apart DEF Goes
    <2>4. CASE f # g
      BY <1>1, <1>2, <1>3, <2>1, <2>2, <2>4, Apart DEF Goes
    <2> QED
      BY <2>3, <2>4
  <1> QED
    BY <1>4, <1>5 DEF Respond, RespondFails

(* The actor records an end, or fails to. *)
LEMMA GoesReceived ==
    ASSUME Inv, Received \/ ReceivedFails, NEW f \in Faxes
    PROVE  Goes(f)
  <1> USE DEF service, channels, actor, rest
  <1> DEFINE g == Head(events).of
             how == Head(events).how
  <1>1. TypeOK /\ events # <<>> /\ events' = Tail(events) /\ UNCHANGED <<calls, answering, commands>>
    BY DEF Received, ReceivedFails, Inv
  <1>2. /\ g \in Faxes /\ EndsIn(g, events) /\ ~EndsIn(g, events')
        /\ Pages(g, events) <=> how = "pages"
        /\ f # g => /\ EndsIn(f, events') <=> EndsIn(f, events)
                    /\ Pages(f, events') <=> Pages(f, events)
    BY <1>1, PagesTaken
  <1>3. \/ UNCHANGED row
        \/ row' = IF row[g] = "Absent" THEN row ELSE [row EXCEPT ![g] = Outcome(how)]
    BY DEF Received, ReceivedFails
  <1>4. IF how = "pages" THEN Outcome(how) = "Received" ELSE Outcome(how) \in {"Failed", "Interrupted"}
    BY DEF Outcome
  <1> HIDE DEF g, how
  <1>5. Answered(f)' <=> Answered(f)
    BY <1>1 DEF Answered
  <1>6. /\ Stored(f)' <=> Waits(f)' \/ f \in calls' \/ EndsIn(f, events')
        /\ Waits(f)' <=> answering' = f \/ Answered(f)'
        /\ Waits(f) <=> answering = f \/ Answered(f)
    BY DEF Stored, Waits
  <1>7. CASE f # g
    <2>1. row'[f] = row[f]
      BY <1>1, <1>2, <1>3, <1>7 DEF TypeOK
    <2> QED
      BY <1>1, <1>2, <1>5, <1>6, <1>7, <2>1, Apart DEF Goes
  <1>8. CASE f = g
    <2>1. row[f] = "Receiving" /\ ~Stored(f)' /\ ~Waits(f) /\ f \notin calls /\ Stored(f)
      BY <1>1, <1>2, <1>5, <1>6, <1>8, Apart
    <2>2. row'[f] = "Receiving" \/ row'[f] = Outcome(how)
      BY <1>1, <1>2, <1>3, <1>8, <2>1 DEF TypeOK
    <2> QED
      BY <1>2, <1>4, <1>8, <2>1, <2>2 DEF Goes
  <1> QED
    BY <1>7, <1>8

(* The exporter has found a call that ended to be incomplete. *)
LEMMA GoesRecovered ==
    ASSUME Inv, NEW g \in Faxes, Recovers(g), NEW f \in Faxes
    PROVE  Goes(f)
  <1> USE DEF service, channels, actor, rest
  <1>1. /\ TypeOK /\ row[g] \in CallEnd /\ row' = [row EXCEPT ![g] = "Partial"]
        /\ UNCHANGED <<answering, commands, calls, events>>
    BY DEF Recovers, Inv
  <1>2. /\ EndsIn(f, events') <=> EndsIn(f, events)
        /\ Pages(f, events') <=> Pages(f, events)
        /\ Answered(f)' <=> Answered(f)
    BY <1>1 DEF Answered
  <1>3. (Waits(f)' <=> Waits(f)) /\ (Stored(f)' <=> Stored(f))
    BY <1>1, <1>2 DEF Waits, Stored
  <1>4. CASE f = g
    <2>1. row[f] # "Receiving" /\ row'[f] = "Partial"
      BY <1>1, <1>4 DEF CallEnd, TypeOK
    <2>2. ~Waits(f) /\ f \notin calls /\ ~EndsIn(f, events)
      BY <2>1, Apart
    <2> QED
      BY <1>1, <1>4, <2>1, <2>2 DEF Goes
  <1>5. CASE f # g
    <2>1. row'[f] = row[f]
      BY <1>1, <1>5 DEF TypeOK
    <2> QED
      BY <1>1, <1>2, <1>3, <2>1 DEF Goes
  <1> QED
    BY <1>4, <1>5

(* Every step takes every call along its way. *)
LEMMA GoesNext ==
    ASSUME Inv, [Next]_vars, NEW f \in Faxes
    PROVE  Goes(f)
  <1> USE DEF service, channels, actor, rest
  <1>a. TypeOK /\ calls \subseteq Faxes
    BY DEF Inv, TypeOK
  <1>b. commands' = commands => (Answered(f)' <=> Answered(f))
    BY DEF Answered
  <1>1. CASE \/ \E g \in Faxes, c \in Callers : Invite(g, c)
             \/ InviteFails \/ Expire \/ Reconnect \/ Refill
             \/ \E g \in Faxes : Hangup(g)
             \/ \E g \in Faxes : DeadlinePasses(g)
             \/ \E g \in Faxes : DecisionTooLate(g)
             \/ ReadOffer \/ ShutdownJoins \/ Stopped \/ UNCHANGED vars
    <2>1. UNCHANGED <<row, answering, commands, calls, events>>
      BY <1>1 DEF Invite, InviteFails, Expire, Reconnect, Refill, Hangup, DeadlinePasses,
                  DecisionTooLate, Decides, ReadOffer, ShutdownJoins, Stopped, vars
    <2> QED
      BY <1>b, <2>1, GoesQuietly
  <1>2. ASSUME NEW set \in SUBSET Faxes, Loses(set) PROVE Goes(f)
    <2> DEFINE lost == calls \cap set
    <2>1. /\ lost \in SUBSET calls /\ "error" \in Results /\ Finish(lost, "error")
          /\ UNCHANGED <<row, answering, commands>>
      BY <1>2 DEF Loses, Results
    <2> HIDE DEF lost
    <2> QED
      BY <1>b, <2>1, GoesFinished
  <1>3. ASSUME NEW g \in Faxes, CallEnds(g) PROVE Goes(f)
    <2> DEFINE set == {g}
    <2>1. PICK how \in Results : Finish(set, how)
      BY <1>3 DEF CallEnds
    <2>2. set \in SUBSET calls /\ UNCHANGED <<row, answering, commands>>
      BY <1>3 DEF CallEnds
    <2> HIDE DEF set
    <2> QED
      BY <1>b, <2>1, <2>2, GoesFinished
  <1>4. CASE Sleeps
    <2> DEFINE set == admission \cup calls
    <2>1. set \in SUBSET Faxes /\ Loses(set)
      BY <1>4, <1>a DEF Sleeps, TypeOK
    <2> HIDE DEF set
    <2> QED
      BY <1>2, <2>1
  <1>5. ASSUME NEW a \in Accounts, ConnectionFails(a) PROVE Goes(f)
    <2> DEFINE set == {g \in admission \cup calls : account[g] = a}
    <2>1. set \in SUBSET Faxes /\ Loses(set)
      BY <1>5, <1>a DEF ConnectionFails, TypeOK
    <2> HIDE DEF set
    <2> QED
      BY <1>2, <2>1
  <1>6. ASSUME NEW how \in Results, TearDown(how) PROVE Goes(f)
    <2>1. Finish(calls, how) /\ commands' = <<>> /\ UNCHANGED <<row, answering>>
      BY <1>6 DEF TearDown
    <2>2. ~Answered(f)'
      BY <2>1, EmptyIn DEF Answered
    <2>3. answering = f => ~Answered(f)
      BY Apart
    <2> QED
      BY <2>1, <2>2, <2>3, GoesFinished
  <1>7. CASE LoopFails \/ StopCommand
    BY <1>6, <1>7 DEF LoopFails, StopCommand, Results
  <1>8. CASE LoopGone
    <2>1. commands' = <<>> /\ UNCHANGED <<row, answering, calls, events>>
      BY <1>8 DEF LoopGone
    <2>2. ~Answered(f)'
      BY <2>1, EmptyIn DEF Answered
    <2>3. /\ EndsIn(f, events') <=> EndsIn(f, events)
          /\ Pages(f, events') <=> Pages(f, events)
      BY <2>1
    <2>4. /\ Stored(f)' <=> Waits(f)' \/ f \in calls' \/ EndsIn(f, events')
          /\ Waits(f)' <=> answering' = f \/ Answered(f)'
          /\ Waits(f) <=> answering = f \/ Answered(f)
      BY DEF Stored, Waits
    <2> QED
      BY <2>1, <2>2, <2>3, <2>4, Apart DEF Goes
  <1>9. CASE Configure \/ CancelIncoming \/ Refuse
    <2>1. /\ UNCHANGED <<row, answering, calls, events>>
          /\ \E what \in {"configure", "cancel", "reject", "refuse"} : Takes(what)
      BY <1>9 DEF Configure, CancelIncoming, Refuse
    <2>2. Answered(f)' <=> Answered(f)
      BY <1>a, <2>1, OtherTake
    <2> QED
      BY <2>1, <2>2, GoesQuietly
  <1>10. CASE Answer \/ AnswerFails \/ AnswerNobody
    BY <1>10, GoesAnswered
  <1>11. ASSUME NEW what \in {"reject", "cancel", "configure", "stop"}, NEW of, Send(what, of),
                Command(what, of) \in Commands, UNCHANGED <<row, answering, calls, events>>
         PROVE  Goes(f)
    <2>1. Answered(f)' <=> Answered(f)
      BY <1>11, <1>a, OtherSend
    <2> QED
      BY <1>11, <2>1, GoesQuietly
  <1>12. CASE OfferExpired \/ OfferShown
    <2>1. Head(offers) \in Faxes
      BY <1>12, <1>a, OfferIn DEF OfferExpired, OfferShown
    <2>2. /\ UNCHANGED <<row, answering, calls, events>>
          /\ Send("reject", Head(offers)) \/ UNCHANGED commands
      BY <1>12 DEF OfferExpired, OfferShown, TakesOffer
    <2>3. Command("reject", Head(offers)) \in Commands
      BY <2>1, CommandKinds
    <2>4. CASE UNCHANGED commands
      BY <1>b, <2>2, <2>4, GoesQuietly
    <2> QED
      BY <1>11, <2>2, <2>3, <2>4
  <1>13. CASE OfferAccepted
    <2>1. Head(offers) \in Faxes /\ Open(Head(offers))
      BY <1>13, <1>a, OfferIn DEF OfferAccepted, Open
    <2>2. answering = None /\ UNCHANGED <<calls, events>> /\ Accepts(Head(offers))
      BY <1>13 DEF OfferAccepted, TakesOffer, Free
    <2> QED
      BY <2>1, <2>2, GoesStored
  <1>14. ASSUME NEW g \in Faxes, AcceptIncoming(g) PROVE Goes(f)
    <2>1. answering = None /\ UNCHANGED <<calls, events>> /\ Accepts(g) /\ Open(g)
      BY <1>14 DEF AcceptIncoming, Decides, Free, Open
    <2> QED
      BY <2>1, GoesStored
  <1>15. ASSUME NEW g \in Faxes, RejectIncoming(g) \/ CancelReception(g) PROVE Goes(f)
    <2>1. /\ UNCHANGED <<row, answering, calls, events>>
          /\ Send("reject", g) \/ Send("cancel", g)
      BY <1>15 DEF RejectIncoming, CancelReception, Decides
    <2>2. Command("reject", g) \in Commands /\ Command("cancel", g) \in Commands
      BY CommandKinds
    <2> QED
      BY <1>11, <2>1, <2>2
  <1>16. ASSUME NEW a \in Accounts \cup {None}, ConfigureReceiver(a) PROVE Goes(f)
    <2>1. /\ UNCHANGED <<row, answering, calls, events>>
          /\ Send("configure", a) /\ Command("configure", a) \in Commands
      BY <1>16, CommandKinds DEF ConfigureReceiver
    <2> QED
      BY <1>11, <2>1
  <1>17. CASE ShutdownSends
    <2>1. /\ UNCHANGED <<row, answering, calls, events>>
          /\ Send("stop", None) /\ Command("stop", None) \in Commands
      BY <1>17, CommandKinds DEF ShutdownSends
    <2> QED
      BY <1>11, <2>1
  <1>18. CASE Stop
    <2>1. PICK q \in Lists(admissions) :
             commands' = IF loop = "gone" THEN commands
                         ELSE commands \o [i \in DOMAIN q |-> Command("reject", q[i])]
      BY <1>18 DEF Stop
    <2> DEFINE t == [i \in DOMAIN q |-> Command("reject", q[i])]
    <2>2. t \in Seq(Commands) /\ \A x : In(x, t) => x.what = "reject"
      BY <1>a, <2>1, RejectIn DEF TypeOK
    <2> HIDE DEF t
    <2>3. commands' = commands \/ commands' = commands \o t
      BY <2>1 DEF t
    <2>4. \A x : In(x, commands \o t) <=> In(x, commands) \/ In(x, t)
      BY <1>a, <2>2, TypeCommands, ConcatIn
    <2>5. ~In(Command("admit", f), t)
      BY <2>2, CommandKinds
    <2>6. Answered(f)' <=> Answered(f)
      BY <1>b, <2>3, <2>4, <2>5 DEF Answered
    <2>7. UNCHANGED <<row, answering, calls, events>>
      BY <1>18 DEF Stop
    <2> QED
      BY <2>6, <2>7, GoesQuietly
  <1>19. CASE Respond \/ RespondFails
    BY <1>19, GoesResponded
  <1>20. CASE Received \/ ReceivedFails
    BY <1>20, GoesReceived
  <1>21. ASSUME NEW g \in Faxes, Recovers(g) PROVE Goes(f)
    BY <1>21, GoesRecovered
  <1> QED
    BY <1>1, <1>3, <1>4, <1>5, <1>7, <1>8, <1>9, <1>10, <1>12, <1>13, <1>14, <1>15, <1>16, <1>17,
       <1>18, <1>19, <1>20, <1>21, NextIsActions DEF Actions

(* A fault is never taken back. *)
LEMMA FaultsKept == TypeOK /\ [Next]_vars => faults' \in Nat /\ (faults > 0 => faults' > 0)
  <1> SUFFICES ASSUME TypeOK, [Next]_vars PROVE faults' \in Nat /\ (faults > 0 => faults' > 0)
    OBVIOUS
  <1>1. faults' = faults \/ faults' = faults + 1
    BY NextIsActions
    DEF Actions, Invite, InviteFails, Expire, CallEnds, Sleeps, ConnectionFails, Loses, Reconnect, Refill,
        LoopFails, StopCommand, Configure, CancelIncoming, Refuse, Answer, AnswerFails, AnswerNobody,
        LoopGone, Hangup, DeadlinePasses, OfferExpired, OfferAccepted, OfferShown, Accepts, Reserves,
        ReserveFails, Fault, ReadOffer, AcceptIncoming, RejectIncoming, DecisionTooLate, CancelReception,
        ConfigureReceiver, Decides, TakesOffer, Stop, Respond, RespondFails, Received, ReceivedFails,
        Recovers, ShutdownSends, ShutdownJoins, Stopped, vars, rest
  <1> QED
    BY <1>1 DEF TypeOK

(* What a state has of the promise: few calls, and nobody left behind.     *)
Promised ==
    /\ Cardinality({f \in Faxes : Stage(f) = "talking"}) <= Limit
    /\ \A f \in Faxes : Stage(f) = "stale" => faults > 0

LEMMA KeepsPromise == Inv => Promised
  <1> SUFFICES ASSUME Inv PROVE Promised
    OBVIOUS
  <1> DEFINE talking == {f \in Faxes : Stage(f) = "talking"}
  <1>1. TypeOK /\ Slots /\ \A f \in Faxes : row[f] \in Outcomes /\ row[f] # "talking" /\ row[f] # "stale"
    BY DEF Inv, TypeOK, Outcomes, Ends, CallEnd
  <1>2. talking = calls
    BY <1>1, StageIs DEF StageShape, TypeOK
  <1>3. Cardinality(calls) <= Limit
    <2>1. CASE loop = "running"
      <3>1. /\ calls \subseteq Occupied /\ Cardinality(Occupied) + Len(available) <= Limit
            /\ Len(available) \in Nat /\ IsFiniteSet(Occupied) /\ Cardinality(Occupied) \in Nat
        BY <1>1, <2>1, FewCalls, FewSlots DEF Slots
      <3>2. Cardinality(calls) <= Cardinality(Occupied) /\ Cardinality(calls) \in Nat
        BY <3>1, FS_Subset, FS_CardinalityType
      <3> QED
        BY <3>1, <3>2, ReceptionAssumption
    <2>2. CASE loop # "running"
      <3>1. calls = {} /\ Cardinality({}) = 0
        BY <1>1, <2>2, FS_EmptySet DEF Slots
      <3> QED
        BY <3>1, ReceptionAssumption
    <2> QED
      BY <2>1, <2>2
  <1>4. ASSUME NEW f \in Faxes, Stage(f) = "stale" PROVE faults > 0
    <2>1. row[f] = "Receiving" /\ ~Stored(f)
      BY <1>1, <1>4, StageIs, PagesEnd DEF StageShape, Stored, Waits
    <2>2. faults # 0
      BY <2>1 DEF Inv, Followed
    <2> QED
      BY <1>1, <2>2 DEF TypeOK
  <1> QED
    BY <1>2, <1>3, <1>4 DEF Promised

(* Whatever races with the answer of a call, service and actor together    *)
(* keep what Inbox promises of it: answered once, after it was stored, and *)
(* its record tells how it ended, or is left behind by a fault; only the   *)
(* exporter changes what it tells, once.                                   *)
THEOREM ReceptionImplementsInbox == Spec => ImplementsInbox
  <1>1. Init => Promise!Init
    <2> SUFFICES ASSUME Init PROVE Promise!Init
      OBVIOUS
    <2>1. \A f \in Faxes : Stage(f) = "Absent"
      BY DEF Init, Stage
    <2>2. ~(faults > 0)
      BY DEF Init
    <2> QED
      BY <2>1, <2>2 DEF Promise!Init
  <1>2. Inv => Promised
    BY KeepsPromise
  <1>3. Inv /\ Inv' /\ Promised' /\ [Next]_vars => Promise!Next
    <2> SUFFICES ASSUME Inv, Inv', Promised', [Next]_vars PROVE Promise!Next
      OBVIOUS
    <2>1. \A f \in Faxes : Stage(f)' \in Promise!Follows(Stage(f))
      BY GoesNext, GoesFollows
    <2>2. (faults > 0) => (faults' > 0)
      BY FaultsKept DEF Inv
    <2>3. faults > 0 => (faults > 0)'
      BY <2>2
    <2> DEFINE stages == [f \in Faxes |-> Stage(f)]
    <2>4. DOMAIN stages' = Faxes /\ \A f \in Faxes : stages'[f] = Stage(f)' /\ stages[f] = Stage(f)
      OBVIOUS
    <2>5. \A f \in Faxes : /\ stages'[f] \in Promise!Follows(stages[f])
                           /\ stages'[f] = "stale" => (faults > 0)'
      BY <2>1, <2>4 DEF Promised
    <2>6. Promise!Talking' = {f \in Faxes : Stage(f)' = "talking"}
      BY <2>4 DEF Promise!Talking
    <2>7. Promise!Cardinality(Promise!Talking') <= Limit
      BY <2>6 DEF Promised, Promise!Cardinality, Cardinality
    <2> QED
      BY <2>3, <2>4, <2>5, <2>7 DEF Promise!Next
  <1> QED
    BY <1>1, <1>2, <1>3, Invariance, PTL DEF Spec, ImplementsInbox, Promise!Spec
=============================================================================
