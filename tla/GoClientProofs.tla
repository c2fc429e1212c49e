---------------------------- MODULE GoClientProofs ----------------------------
(***************************************************************************)
(* Theorems of the Go client, for every number of senders and offers.      *)
(***************************************************************************)
EXTENDS GoClient, SequenceTheorems, TLAPS

Has(o, s) == \E i \in 1..Len(s) : s[i] = o

(* The engine runs from Open until the client is closed, and only Close    *)
(* closes the handle; the pump has offers in hand only while it handles.   *)
Running ==
    /\ closer # "unopened" /\ ~Done => engine = "running"
    /\ closed => Done
    /\ pump # "handle" => batch = <<>>
    /\ closer = "unopened" => pump = "idle"

(* The fax of a sender, on both sides of the C interface. *)
Unborn == {"idle", "called", "preparing", "prepared", "enqueueing", "failed"}
Unfinished == {"queued", "sending"}

Job(s) ==
    /\ status[s] \notin {"offered", "gone", "receiving"}
    /\ native[s] \in Unborn => status[s] = "none"
    /\ native[s] = "cancelled" => Done \/ status[s] \notin Unfinished
    /\ native[s] \in {"recorded", "withdrawing", "job"} => s \in recorded
    /\ submission[s] = "idle" => native[s] = "idle"
    /\ submission[s] # "idle" => closer # "unopened"
    /\ submission[s] \in {"cancel", "join"} => Done \/ operation[s] = "cancelled"
    /\ submission[s] = "join" /\ native[s] = "job" => Done \/ status[s] \notin Unfinished
    /\ submission[s] = "abandoned" =>
          /\ native[s] \in Answers
          /\ Done \/ status[s] \notin Unfinished
    /\ submission[s] = "sent" => native[s] = "job"
    /\ wait[s] # "idle" => submission[s] = "sent"
    /\ wait[s] = "leaving" => s \in ctx \/ Done \/ status[s] \in Finished
    /\ wait[s] = "returned" => Done \/ status[s] \notin Unfinished

(* Who has an offer that the engine waits for. *)
Offer(o) ==
    /\ Has(o, mailbox) \/ Has(o, batch) \/ Has(o, incoming) \/ handler[o] # "idle"
          => status[o] # "none"
    /\ o \in decided => handler[o] # "idle"
    /\ deciding[o] # "none" => o \in decided
    /\ o \in decided => Done \/ deciding[o] # "none" \/ status[o] # "offered"
    /\ handler[o] = "ended" => o \in decided
    /\ status[o] = "offered" =>
          \/ Done
          \/ Has(o, mailbox) \/ Has(o, batch) \/ Has(o, incoming)
          \/ handler[o] # "idle"

Final(s) ==
    watch[s] = "complete" =>
        /\ status[s] \in Finished
        /\ out[s] = status[s] \/ (out[s] = "none" /\ got[s] = status[s])

Inv ==
    /\ TypeOK /\ Running
    /\ \A s \in Senders : Job(s) /\ Final(s)
    /\ \A o \in Offers : Offer(o)

(* The actions of Next, without their grouping. *)
Actions ==
    \/ Open \/ OpenFails
    \/ CloseSignals \/ CloseDone \/ CloseNative \/ CloseEngine \/ CloseReturns
    \/ Poll \/ PumpEnds \/ Deliver \/ Signal
    \/ Serve
    \/ \E t \in Things : Advance(t)
    \/ \E t \in Things : WaitTake(t)
    \/ \E t \in Things : WaitRead(t)
    \/ \E t \in Things : WaitSelect(t)
    \/ \E t \in Things : WaitReturns(t)
    \/ \E s \in Senders : Submit(s)
    \/ \E s \in Senders : Expire(s)
    \/ \E s \in Senders : CallSubmit(s)
    \/ \E s \in Senders : Prepare(s)
    \/ \E s \in Senders : CheckPrepared(s)
    \/ \E s \in Senders : Enqueue(s)
    \/ \E s \in Senders : Record(s)
    \/ \E s \in Senders : CheckRecorded(s)
    \/ \E s \in Senders : Withdraw(s)
    \/ \E s \in Senders : SubmitReturns(s)
    \/ \E s \in Senders : SubmitCancels(s)
    \/ \E s \in Senders : SubmitCancelsJob(s)
    \/ \E s \in Senders : SubmitAbandons(s)
    \/ \E s \in Senders : WatchStart(s)
    \/ \E s \in Senders : WatchTake(s)
    \/ \E s \in Senders : WatchRead(s)
    \/ \E s \in Senders : WatchSelect(s)
    \/ \E s \in Senders : Receive(s)
    \/ \E o \in Offers : Arrive(o)
    \/ \E o \in Offers : HandlerReturns(o)
    \/ \E o \in Offers : DecisionArrives(o)
    \/ \E o \in Offers, what \in {"accept", "reject"} : Decide(o, what)

(* Every step of the client is one of the listed actions. *)
LEMMA NextIsActions == Next => Actions
  BY DEF Next, Actions, Closing, Pump, Waiting, Native, Submission, Watching

(* Senders are no offers. *)
LEMMA Apart == \A s \in Senders : s \in Things /\ s \notin Offers
  BY GoClientAssumption DEF Things, Offers

LEMMA OffersAreThings == \A o \in Offers : o \in Things /\ o \notin Senders
  BY Apart DEF Things

-----------------------------------------------------------------------------
(* What a queue of offers holds *)

LEMMA AppendHas ==
    ASSUME NEW q \in Seq(Offers), NEW o \in Offers
    PROVE  /\ Append(q, o) \in Seq(Offers) /\ Len(Append(q, o)) = Len(q) + 1
           /\ \A p : Has(p, Append(q, o)) <=> Has(p, q) \/ p = o
  <1> DEFINE t == Append(q, o)
             n == Len(q)
  <1>1. n \in Nat
    BY LenProperties
  <1>2. /\ t \in Seq(Offers) /\ Len(t) = n + 1
        /\ \A i \in 1..n : t[i] = q[i]
        /\ t[n + 1] = o
    BY AppendProperties
  <1> HIDE DEF t, n
  <1>3. /\ \A i \in 1..(n + 1) : i \in 1..n \/ i = n + 1
        /\ \A i \in 1..n : i \in 1..(n + 1)
        /\ n + 1 \in 1..(n + 1)
    BY <1>1
  <1>4. \A p : (\E i \in 1..(n + 1) : t[i] = p) <=> (\E i \in 1..n : q[i] = p) \/ p = o
    BY <1>2, <1>3
  <1> QED
    BY <1>2, <1>4 DEF Has, t, n

LEMMA TailHas ==
    ASSUME NEW q \in Seq(Offers), q # <<>>
    PROVE  /\ Head(q) \in Offers /\ Tail(q) \in Seq(Offers)
           /\ Len(q) \in Nat /\ Len(Tail(q)) \in Nat /\ Len(Tail(q)) <= Len(q)
           /\ \A p : Has(p, q) <=> Has(p, Tail(q)) \/ p = Head(q)
  <1> DEFINE t == Tail(q)
             n == Len(t)
  <1>1. /\ Head(q) \in Offers /\ t \in Seq(Offers) /\ n = Len(q) - 1
        /\ \A i \in 1..n : t[i] = q[i + 1]
    BY HeadTailProperties
  <1>2. n \in Nat /\ Len(q) = n + 1
    BY <1>1, LenProperties
  <1>3. Head(q) = q[1]
    OBVIOUS
  <1> HIDE DEF t, n
  <1>4. /\ \A i \in 1..(n + 1) : i = 1 \/ \E k \in 1..n : k + 1 = i
        /\ \A i \in 1..n : i + 1 \in 1..(n + 1)
        /\ 1 \in 1..(n + 1)
    <2>1. \A i \in 1..(n + 1) : i = 1 \/ (i - 1 \in 1..n /\ i - 1 + 1 = i)
      BY <1>2
    <2> QED
      BY <1>2, <2>1
  <1>5. ASSUME NEW p PROVE (\E i \in 1..(n + 1) : q[i] = p) <=> (\E i \in 1..n : t[i] = p) \/ p = Head(q)
    <2>1. ASSUME NEW i \in 1..(n + 1), q[i] = p PROVE (\E k \in 1..n : t[k] = p) \/ p = Head(q)
      <3>1. i = 1 \/ \E k \in 1..n : k + 1 = i
        BY <1>4
      <3> QED
        BY <1>1, <1>3, <2>1, <3>1
    <2>2. ASSUME NEW i \in 1..n, t[i] = p PROVE \E k \in 1..(n + 1) : q[k] = p
      BY <1>1, <1>4, <2>2
    <2>3. p = Head(q) => \E k \in 1..(n + 1) : q[k] = p
      BY <1>3, <1>4
    <2> QED
      BY <2>1, <2>2, <2>3
  <1> QED
    BY <1>1, <1>2, <1>5 DEF Has, t, n

LEMMA EmptyHas == \A p : ~Has(p, <<>>)
  BY DEF Has

-----------------------------------------------------------------------------
(* Type correctness *)

LEMMA TypeInit == Init => TypeOK
  <1> SUFFICES ASSUME Init PROVE TypeOK
    OBVIOUS
  <1>1. <<>> \in Seq(Offers) /\ Len(<<>>) = 0
    OBVIOUS
  <1>2. /\ incoming \in Seq(Offers) /\ mailbox \in Seq(Offers) /\ batch \in Seq(Offers)
        /\ Len(incoming) <= Capacity
    BY <1>1, GoClientAssumption DEF Init
  <1>3. /\ status \in [Things -> {"none"}] /\ seen \in [Things -> {"none"}]
        /\ wait \in [Things -> {"idle"}] /\ deciding \in [Offers -> {"none"}]
        /\ handler \in [Offers -> {"idle"}] /\ operation \in [Senders -> {"none"}]
        /\ native \in [Senders -> {"idle"}] /\ submission \in [Senders -> {"idle"}]
        /\ watch \in [Senders -> {"idle"}] /\ out \in [Senders -> {"none"}]
        /\ got \in [Senders -> {"none"}]
    BY DEF Init
  <1> QED
    BY <1>2, <1>3 DEF Init, TypeOK, Finished, Answers

LEMMA TypeNext == TypeOK /\ Running /\ (\A s \in Senders : Job(s)) /\ [Next]_vars => TypeOK'
  <1> SUFFICES ASSUME TypeOK, \A s \in Senders : Job(s), [Next]_vars PROVE TypeOK'
    OBVIOUS
  <1> USE DEF world, reader, abi, loop, changed, callers, progress, serving
  <1> DEFINE States == {"none", "queued", "sending", "stopping", "offered", "gone", "receiving"} \cup Finished
  <1> HIDE DEF States
  <1>a. \A s : Shown(s) \in {s, "sending", "none"}
    BY DEF Shown
  <1>b. \A s : Withdrawn(s) \in {s, "cancelled", "stopping"}
    BY DEF Withdrawn
  <1>c. \A s : Follows(s) \subseteq {"sending", "ended", "cancelled", "gone"}
    BY DEF Follows
  <1>d. /\ status \in [Things -> States] /\ "cancelled" \in States /\ "stopping" \in States
        /\ "sending" \in States
    BY DEF TypeOK, States, Finished
  <1>1. CASE Open \/ OpenFails \/ CloseSignals \/ CloseDone \/ CloseNative \/ CloseEngine \/ CloseReturns
    <2>1. /\ engine' \in {"unopened", "running", "stopped"} /\ closed' \in BOOLEAN
          /\ closer' \in {"unopened", "open", "signalled", "done", "closing", "joining", "closed"}
          /\ pump' \in {"idle", "poll", "handle", "gone"}
          /\ held' \subseteq Things /\ heldToo' \subseteq Senders
      BY <1>1 DEF Open, OpenFails, CloseSignals, CloseDone, CloseNative, CloseEngine, CloseReturns, TypeOK
    <2>2. operation' \in [Senders -> {"none", "open", "cancelled", "released"}]
      <3>1. CASE CloseNative
        BY <3>1 DEF CloseNative, TypeOK
      <3>2. UNCHANGED operation \/ CloseNative
        BY <1>1 DEF Open, OpenFails, CloseSignals, CloseDone, CloseEngine, CloseReturns
      <3> QED
        BY <3>1, <3>2 DEF TypeOK
    <2>3. UNCHANGED <<active, status, reader, recorded, native, batch, callers, progress, serving>>
      BY <1>1 DEF Open, OpenFails, CloseSignals, CloseDone, CloseNative, CloseEngine, CloseReturns
    <2> QED
      BY <2>1, <2>2, <2>3 DEF TypeOK
  <1>2. CASE Poll
    <2>1. seen' \in [Things -> {"none", "queued", "sending", "receiving"} \cup Finished]
      BY <1>2 DEF Poll, Shown, TypeOK, Finished
    <2> QED
      BY <1>2, <2>1 DEF Poll, TypeOK
  <1>3. CASE PumpEnds \/ Signal
    BY <1>3 DEF PumpEnds, Signal, TypeOK
  <1>4. CASE Deliver
    <2>1. Head(batch) \in Offers /\ batch' \in Seq(Offers)
      BY <1>4, TailHas DEF Deliver, TypeOK
    <2>2. incoming' \in Seq(Offers) /\ Len(incoming') <= Capacity
      <3>1. CASE Len(incoming) < Capacity
        <4>1. Len(incoming) \in Nat
          BY LenProperties DEF TypeOK
        <4>2. incoming' = Append(incoming, Head(batch)) /\ Len(incoming') = Len(incoming) + 1
          BY <1>4, <2>1, <3>1, AppendHas DEF Deliver, TypeOK
        <4>3. Len(incoming) + 1 <= Capacity
          BY <3>1, <4>1, GoClientAssumption
        <4> QED
          BY <2>1, <4>2, <4>3, AppendHas DEF TypeOK
      <3>2. CASE ~(Len(incoming) < Capacity)
        BY <1>4, <3>2 DEF Deliver, TypeOK
      <3> QED
        BY <3>1, <3>2
    <2>3. status' = status \/ status' = [status EXCEPT ![Head(batch)] = "gone"]
      BY <1>4 DEF Deliver
    <2>4. UNCHANGED <<active, engine, reader, abi, closer, pump, changed, callers, progress, handler, decided, deciding>>
      BY <1>4 DEF Deliver
    <2> QED
      BY <2>1, <2>2, <2>3, <2>4 DEF TypeOK
  <1>5. CASE Serve
    <2>1. /\ Head(incoming) \in Offers /\ incoming' \in Seq(Offers)
          /\ Len(incoming) \in Nat /\ Len(incoming') \in Nat /\ Len(incoming') <= Len(incoming)
      BY <1>5, TailHas DEF Serve, TypeOK
    <2>2. Len(incoming') <= Capacity
      BY <2>1, GoClientAssumption DEF TypeOK
    <2> QED
      BY <1>5, <2>1, <2>2 DEF Serve, TypeOK
  <1>6. ASSUME NEW t \in Things, Advance(t) PROVE TypeOK'
    BY <1>6, <1>c DEF Advance, TypeOK, Finished
  <1>7. ASSUME NEW t \in Things, WaitTake(t) \/ WaitRead(t) \/ WaitSelect(t) PROVE TypeOK'
    BY <1>7 DEF WaitTake, WaitRead, WaitSelect, Waits, TypeOK
  <1>8. ASSUME NEW t \in Things, WaitReturns(t) PROVE TypeOK'
    BY <1>8, <1>b DEF WaitReturns, Waits, TypeOK, Finished
  <1>9. ASSUME NEW s \in Senders, Submit(s) \/ Expire(s) PROVE TypeOK'
    <2>1. /\ submission' \in [Senders -> {"idle", "select", "cancel", "join", "sent", "refused", "abandoned"}]
          /\ operation' \in [Senders -> {"none", "open", "cancelled", "released"}]
          /\ ctx' \subseteq Senders
      <3>1. CASE Submit(s)
        BY <3>1 DEF Submit, TypeOK
      <3>2. CASE Expire(s)
        BY <3>2 DEF Expire, TypeOK
      <3> QED
        BY <1>9, <3>1, <3>2
    <2>2. native' = native \/ native' = [native EXCEPT ![s] = "called"]
      BY <1>9 DEF Submit, Expire
    <2>3. UNCHANGED <<world, reader, closed, recorded, loop, changed, wait, progress, serving>>
      BY <1>9 DEF Submit, Expire
    <2> QED
      BY <2>1, <2>2, <2>3 DEF TypeOK
  <1>10. ASSUME NEW s \in Senders, CallSubmit(s) \/ Prepare(s) \/ CheckPrepared(s) \/ Record(s) \/ CheckRecorded(s)
         PROVE  TypeOK'
    BY <1>10 DEF CallSubmit, Prepare, CheckPrepared, Record, CheckRecorded, Goes, TypeOK, Answers
  <1>11. ASSUME NEW s \in Senders, Enqueue(s) PROVE TypeOK'
    BY <1>11 DEF Enqueue, Goes, TypeOK, Answers
  <1>12. ASSUME NEW s \in Senders, Withdraw(s) PROVE TypeOK'
    <2>1. status' \in [Things -> States]
      BY <1>12, <1>b, <1>d DEF Withdraw
    <2>2. native' = [native EXCEPT ![s] = "cancelled"]
      BY <1>12 DEF Withdraw, Goes
    <2>3. UNCHANGED <<active, engine, reader, closed, operation, recorded, loop, changed, callers, progress, serving>>
      BY <1>12 DEF Withdraw
    <2> QED
      BY <2>1, <2>2, <2>3 DEF TypeOK, Answers, States
  <1>13. ASSUME NEW s \in Senders, SubmitReturns(s) \/ SubmitCancels(s) \/ SubmitAbandons(s) PROVE TypeOK'
    <2>1. \E x \in {"sent", "refused", "join", "cancel", "abandoned"} :
             submission' = [submission EXCEPT ![s] = x]
      BY <1>13 DEF SubmitReturns, SubmitCancels, SubmitAbandons
    <2>2. \/ operation' = operation
          \/ \E x \in {"released", "cancelled"} : operation' = [operation EXCEPT ![s] = x]
      BY <1>13 DEF SubmitReturns, SubmitCancels, SubmitAbandons
    <2>3. wait' = wait \/ wait' = [wait EXCEPT ![s] = "take"]
      BY <1>13 DEF SubmitReturns, SubmitCancels, SubmitAbandons
    <2>4. UNCHANGED <<world, reader, closed, recorded, native, loop, changed, ctx, progress, serving>>
      BY <1>13 DEF SubmitReturns, SubmitCancels, SubmitAbandons
    <2>5. submission' \in [Senders -> {"idle", "select", "cancel", "join", "sent", "refused", "abandoned"}]
      BY <2>1 DEF TypeOK
    <2>6. operation' \in [Senders -> {"none", "open", "cancelled", "released"}]
      BY <2>2 DEF TypeOK
    <2>7. wait' \in [Things -> {"idle", "take", "read", "select", "leaving", "returned"}]
      BY <2>3 DEF TypeOK
    <2> QED
      BY <2>4, <2>5, <2>6, <2>7 DEF TypeOK
  <1>14. ASSUME NEW s \in Senders, SubmitCancelsJob(s) PROVE TypeOK'
    <2>1. status' \in [Things -> States]
      BY <1>14, <1>b, <1>d DEF SubmitCancelsJob
    <2>2. submission' = [submission EXCEPT ![s] = "join"]
      BY <1>14 DEF SubmitCancelsJob
    <2>3. UNCHANGED <<active, engine, reader, abi, loop, changed, ctx, wait, progress, serving>>
      BY <1>14 DEF SubmitCancelsJob
    <2> QED
      BY <2>1, <2>2, <2>3 DEF TypeOK, States
  <1>15. ASSUME NEW s \in Senders, WatchStart(s) \/ WatchTake(s) \/ WatchSelect(s) PROVE TypeOK'
    <2>1. /\ watch' \in [Senders -> {"idle", "take", "read", "select", "gone", "complete"}]
          /\ heldToo' \subseteq Senders
      BY <1>15 DEF WatchStart, WatchTake, WatchSelect, Watches, TypeOK
    <2>2. UNCHANGED <<world, reader, abi, loop, held, callers, out, got, serving>>
      BY <1>15 DEF WatchStart, WatchTake, WatchSelect
    <2> QED
      BY <2>1, <2>2 DEF TypeOK
  <1>16. ASSUME NEW s \in Senders, WatchRead(s) PROVE TypeOK'
    <2>1. Shown(status[s]) \in {"none", "queued", "sending"} \cup Finished
      <3>1. status[s] \in {"none", "queued", "sending", "stopping"} \cup Finished
        BY Apart DEF Job, TypeOK
      <3> QED
        BY <3>1 DEF Shown, Finished
    <2>2. out' = out \/ out' = [out EXCEPT ![s] = Shown(status[s])]
      BY <1>16 DEF WatchRead
    <2>3. out' \in [Senders -> {"none", "queued", "sending"} \cup Finished]
      BY <2>1, <2>2 DEF TypeOK
    <2>4. \E x \in {"gone", "complete", "select"} : watch' = [watch EXCEPT ![s] = x]
      BY <1>16 DEF WatchRead, Watches
    <2>5. watch' \in [Senders -> {"idle", "take", "read", "select", "gone", "complete"}]
      BY <2>4 DEF TypeOK
    <2>6. UNCHANGED <<world, reader, abi, loop, held, callers, got, serving>> /\ heldToo' \subseteq Senders
      BY <1>16 DEF WatchRead, Watches, TypeOK
    <2> QED
      BY <2>3, <2>5, <2>6 DEF TypeOK
  <1>17. ASSUME NEW s \in Senders, Receive(s) PROVE TypeOK'
    BY <1>17 DEF Receive, TypeOK
  <1>18. ASSUME NEW o \in Offers, Arrive(o) PROVE TypeOK'
    <2>1. mailbox' \in Seq(Offers)
      BY <1>18, AppendHas DEF Arrive, TypeOK
    <2> QED
      BY <1>18, <2>1 DEF Arrive, TypeOK
  <1>19. ASSUME NEW o \in Offers, NEW what \in {"accept", "reject"}, Decide(o, what) PROVE TypeOK'
    BY <1>19 DEF Decide, TypeOK
  <1>20. ASSUME NEW o \in Offers, HandlerReturns(o) \/ DecisionArrives(o) PROVE TypeOK'
    <2>1. /\ handler' = handler \/ handler' = [handler EXCEPT ![o] = "ended"]
          /\ decided' = decided \/ decided' = decided \cup {o}
          /\ \/ deciding' = deciding
             \/ \E x \in {"none", "reject"} : deciding' = [deciding EXCEPT ![o] = x]
      BY <1>20 DEF HandlerReturns, DecisionArrives
    <2>2. \/ status' = status
          \/ status' = [status EXCEPT ![o] = "receiving"]
          \/ status' = [status EXCEPT ![o] = "gone"]
      BY <1>20 DEF HandlerReturns, DecisionArrives
    <2>3. wait' = wait \/ wait' = [wait EXCEPT ![o] = "take"]
      BY <1>20 DEF HandlerReturns, DecisionArrives
    <2>4. UNCHANGED <<active, engine, reader, abi, loop, changed, submission, ctx, progress, incoming>>
      BY <1>20 DEF HandlerReturns, DecisionArrives
    <2>5. /\ handler' \in [Offers -> {"idle", "running", "ended"}]
          /\ decided' \subseteq Offers
      BY <2>1 DEF TypeOK
    <2>6. deciding' \in [Offers -> {"none", "accept", "reject"}]
      BY <2>1 DEF TypeOK
    <2>7. wait' \in [Things -> {"idle", "take", "read", "select", "leaving", "returned"}]
      BY <2>3 DEF TypeOK
    <2> QED
      BY <2>2, <2>4, <2>5, <2>6, <2>7 DEF TypeOK
  <1>21. CASE UNCHANGED vars
    BY <1>21 DEF vars, TypeOK
  <1> QED
    BY <1>1, <1>2, <1>3, <1>4, <1>5, <1>6, <1>7, <1>8, <1>9, <1>10, <1>11, <1>12, <1>13, <1>14,
       <1>15, <1>16, <1>17, <1>18, <1>19, <1>20, <1>21, NextIsActions DEF Actions

-----------------------------------------------------------------------------
(* Closing *)

(* A client that was closed stays closed. *)
LEMMA DoneStays ==
    [Next]_vars => /\ Done => Done'
                   /\ closer # "unopened" => closer' # "unopened"
                   /\ ctx \subseteq ctx' /\ recorded \subseteq recorded'
  <1> SUFFICES ASSUME [Next]_vars
               PROVE  /\ Done => Done'
                      /\ closer # "unopened" => closer' # "unopened"
                      /\ ctx \subseteq ctx' /\ recorded \subseteq recorded'
    OBVIOUS
  <1> USE DEF world, reader, abi, loop, changed, callers, progress, serving
  <1>1. CASE Open \/ OpenFails \/ CloseSignals \/ CloseDone \/ CloseNative \/ CloseEngine \/ CloseReturns
    BY <1>1 DEF Open, OpenFails, CloseSignals, CloseDone, CloseNative, CloseEngine, CloseReturns, Done
  <1>2. \/ UNCHANGED closer
        \/ Open \/ OpenFails \/ CloseSignals \/ CloseDone \/ CloseNative \/ CloseEngine \/ CloseReturns
    BY NextIsActions
    DEF Actions, Poll, PumpEnds, Deliver, Signal, Serve, Advance, WaitTake, WaitRead, WaitSelect,
        WaitReturns, Submit, Expire, CallSubmit, Prepare, CheckPrepared, Enqueue, Record,
        CheckRecorded, Withdraw, SubmitReturns, SubmitCancels, SubmitCancelsJob, SubmitAbandons,
        WatchStart, WatchTake, WatchRead, WatchSelect, Receive, Arrive, HandlerReturns,
        DecisionArrives, Decide, vars
  <1>3. ctx \subseteq ctx' /\ recorded \subseteq recorded'
    BY NextIsActions
    DEF Actions, Open, OpenFails, CloseSignals, CloseDone, CloseNative, CloseEngine, CloseReturns,
        Poll, PumpEnds, Deliver, Signal, Serve, Advance, WaitTake, WaitRead, WaitSelect,
        WaitReturns, Submit, Expire, CallSubmit, Prepare, CheckPrepared, Enqueue, Record,
        CheckRecorded, Withdraw, SubmitReturns, SubmitCancels, SubmitCancelsJob, SubmitAbandons,
        WatchStart, WatchTake, WatchRead, WatchSelect, Receive, Arrive, HandlerReturns,
        DecisionArrives, Decide, vars
  <1> QED
    BY <1>1, <1>2, <1>3 DEF Done

LEMMA RunningNext == Running /\ [Next]_vars => Running'
  <1> SUFFICES ASSUME Running, [Next]_vars PROVE Running'
    OBVIOUS
  <1> USE DEF world, reader, abi, loop, changed, callers, progress, serving
  <1>1. CASE Open \/ OpenFails \/ CloseSignals \/ CloseDone
    BY <1>1 DEF Open, OpenFails, CloseSignals, CloseDone, Running, Done
  <1>2. CASE CloseNative \/ CloseEngine \/ CloseReturns
    BY <1>2 DEF CloseNative, CloseEngine, CloseReturns, Running, Done
  <1>3. CASE Poll \/ PumpEnds \/ Deliver \/ Signal
    <2>1. /\ UNCHANGED <<closer, engine, closed>> /\ (pump' # "handle" => batch' = <<>>)
          /\ pump # "idle"
      BY <1>3 DEF Poll, PumpEnds, Deliver, Signal, Running
    <2> QED
      BY <2>1 DEF Running, Done
  <1>4. \/ UNCHANGED <<closer, engine, closed, pump, batch>>
        \/ Open \/ OpenFails \/ CloseSignals \/ CloseDone
        \/ CloseNative \/ CloseEngine \/ CloseReturns
        \/ Poll \/ PumpEnds \/ Deliver \/ Signal
    BY NextIsActions
    DEF Actions, Serve, Advance, WaitTake, WaitRead, WaitSelect,
        WaitReturns, Submit, Expire, CallSubmit, Prepare, CheckPrepared, Enqueue, Record,
        CheckRecorded, Withdraw, SubmitReturns, SubmitCancels, SubmitCancelsJob, SubmitAbandons,
        WatchStart, WatchTake, WatchRead, WatchSelect, Receive, Arrive, HandlerReturns,
        DecisionArrives, Decide, vars
  <1> QED
    BY <1>1, <1>2, <1>3, <1>4 DEF Running, Done

-----------------------------------------------------------------------------
(* The faxes of the senders *)

LEMMA JobInit == Init => Running /\ \A s \in Senders : Job(s) /\ Final(s)
  <1> SUFFICES ASSUME Init PROVE Running /\ \A s \in Senders : Job(s) /\ Final(s)
    OBVIOUS
  <1>1. Running
    BY DEF Init, Running
  <1>2. \A s \in Senders : /\ status[s] = "none" /\ native[s] = "idle" /\ submission[s] = "idle"
                           /\ wait[s] = "idle" /\ watch[s] = "idle"
    BY Apart DEF Init
  <1> QED
    BY <1>1, <1>2 DEF Job, Final, Unborn, Unfinished, Finished, Answers

(* A step that does not concern the fax of this sender. *)
LEMMA JobKept ==
    ASSUME NEW s \in Senders, Job(s), [Next]_vars,
           status'[s] = status[s], native'[s] = native[s], submission'[s] = submission[s],
           wait'[s] = wait[s], operation[s] = "cancelled" => operation'[s] = "cancelled"
    PROVE  Job(s)'
  <1>1. /\ Done => Done'
        /\ closer # "unopened" => closer' # "unopened"
        /\ s \in ctx => s \in ctx'
        /\ s \in recorded => s \in recorded'
    BY DoneStays
  <1> HIDE DEF Done
  <1> QED
    BY <1>1 DEF Job

LEMMA JobNext ==
    ASSUME TypeOK, Running, NEW s \in Senders, Job(s), [Next]_vars PROVE Job(s)'
  <1> USE DEF world, reader, abi, loop, changed, callers, progress, serving
  <1>a. s \in Things /\ \A o \in Offers : o \in Things /\ o # s
    BY Apart, OffersAreThings
  <1>b. /\ Done => Done'
        /\ closer # "unopened" => closer' # "unopened"
        /\ s \in ctx => s \in ctx'
        /\ s \in recorded => s \in recorded'
    BY DoneStays
  <1>c. native[s] # "idle" /\ ~Done => engine = "running"
    BY DEF Job, Running
  <1>d. /\ Withdrawn(status[s]) \notin Unfinished
        /\ Withdrawn(status[s]) \notin {"offered", "gone", "receiving"}
        /\ status[s] \in Finished \cup {"none"} => Withdrawn(status[s]) = status[s]
    BY DEF Job, Withdrawn, Unfinished, Finished
  <1>1. CASE \/ Open \/ OpenFails \/ CloseSignals \/ CloseDone \/ CloseEngine \/ CloseReturns
             \/ Poll \/ PumpEnds \/ Signal \/ Serve
             \/ \E r \in Senders : Expire(r)
             \/ \E r \in Senders : WatchStart(r)
             \/ \E r \in Senders : WatchTake(r)
             \/ \E r \in Senders : WatchRead(r)
             \/ \E r \in Senders : WatchSelect(r)
             \/ \E r \in Senders : Receive(r)
             \/ \E o \in Offers : HandlerReturns(o)
             \/ \E o \in Offers, what \in {"accept", "reject"} : Decide(o, what)
             \/ UNCHANGED vars
    <2>1. UNCHANGED <<status, native, submission, wait, operation>>
      BY <1>1 DEF Open, OpenFails, CloseSignals, CloseDone, CloseEngine, CloseReturns, Poll, PumpEnds,
                  Signal, Serve, Expire, WatchStart, WatchTake, WatchRead, WatchSelect, Receive,
                  HandlerReturns, Decide, vars
    <2> QED
      BY <2>1, JobKept
  <1>2. CASE CloseNative
    BY <1>2, JobKept DEF CloseNative
  <1>3. CASE Deliver
    <2>1. Head(batch) \in Offers
      BY <1>3, TailHas DEF Deliver, TypeOK
    <2>2. status' = status \/ status' = [status EXCEPT ![Head(batch)] = "gone"]
      BY <1>3 DEF Deliver
    <2>3. UNCHANGED <<native, submission, wait, operation>>
      BY <1>3 DEF Deliver
    <2>4. status'[s] = status[s]
      BY <1>a, <2>1, <2>2 DEF TypeOK
    <2> QED
      BY <2>3, <2>4, JobKept
  <1>4. ASSUME NEW o \in Offers, Arrive(o) \/ DecisionArrives(o) PROVE Job(s)'
    <2>1. \/ status' = status
          \/ \E x : status' = [status EXCEPT ![o] = x]
      BY <1>4 DEF Arrive, DecisionArrives
    <2>2. wait' = wait \/ wait' = [wait EXCEPT ![o] = "take"]
      BY <1>4 DEF Arrive, DecisionArrives
    <2>3. UNCHANGED <<native, submission, operation>>
      BY <1>4 DEF Arrive, DecisionArrives
    <2>4. status'[s] = status[s] /\ wait'[s] = wait[s]
      BY <1>a, <2>1, <2>2 DEF TypeOK
    <2> QED
      BY <2>3, <2>4, JobKept
  <1>5. ASSUME NEW t \in Things, Advance(t) PROVE Job(s)'
    <2>1. /\ UNCHANGED <<native, submission, wait, operation, closer, ctx, recorded>>
          /\ \E x \in Follows(status[t]) : status' = [status EXCEPT ![t] = x]
      BY <1>5 DEF Advance
    <2>2. CASE t # s
      <3>1. status'[s] = status[s]
        BY <1>a, <2>1, <2>2 DEF TypeOK
      <3> QED
        BY <2>1, <3>1, JobKept
    <2>3. CASE t = s
      <3>1. status'[s] \in Follows(status[s])
        BY <2>1, <2>3 DEF TypeOK
      <3>2. /\ status'[s] \in {"sending", "ended", "cancelled"}
            /\ status'[s] = "sending" => status[s] = "queued"
            /\ status[s] \notin Finished \cup {"none"}
        BY <3>1 DEF Follows, Job, Finished
      <3> HIDE DEF Done
      <3>3. UNCHANGED Done
        BY <2>1 DEF Done
      <3> QED
        BY <2>1, <3>2, <3>3 DEF Job, Unfinished, Finished
    <2> QED
      BY <2>2, <2>3
  <1>6. ASSUME NEW t \in Things, WaitTake(t) \/ WaitRead(t) \/ WaitSelect(t) PROVE Job(s)'
    <2>1. UNCHANGED <<status, native, submission, operation, closer, ctx, recorded>>
      BY <1>6 DEF WaitTake, WaitRead, WaitSelect
    <2>2. /\ wait[t] # "idle"
          /\ \E x \in {"leaving", "read", "select", "take"} : wait' = [wait EXCEPT ![t] = x]
          /\ t \in ctx \/ Done \/ status[t] \in Finished \/ wait' # [wait EXCEPT ![t] = "leaving"]
      BY <1>6 DEF WaitTake, WaitRead, WaitSelect, Waits, TypeOK
    <2>3. CASE t # s
      <3>1. wait'[s] = wait[s]
        BY <1>a, <2>2, <2>3 DEF TypeOK
      <3> QED
        BY <2>1, <3>1, JobKept
    <2>4. CASE t = s
      <3>1. /\ wait[s] # "idle" /\ wait'[s] # "returned"
            /\ wait'[s] = "leaving" => s \in ctx \/ Done \/ status[s] \in Finished
        BY <2>2, <2>4 DEF TypeOK
      <3>2. UNCHANGED Done
        BY <2>1 DEF Done
      <3> HIDE DEF Done
      <3> QED
        BY <2>1, <3>1, <3>2 DEF Job
    <2> QED
      BY <2>3, <2>4
  <1>7. ASSUME NEW t \in Things, WaitReturns(t) PROVE Job(s)'
    <2>1. /\ UNCHANGED <<native, submission, operation, closer, ctx, recorded>>
          /\ wait[t] = "leaving" /\ wait' = [wait EXCEPT ![t] = "returned"]
          /\ status' = IF t \in ctx /\ ~Done THEN [status EXCEPT ![t] = Withdrawn(status[t])] ELSE status
      BY <1>7 DEF WaitReturns, Waits
    <2>2. CASE t # s
      <3>1. wait'[s] = wait[s] /\ status'[s] = status[s]
        BY <1>a, <2>1, <2>2 DEF TypeOK
      <3> QED
        BY <2>1, <3>1, JobKept
    <2>3. CASE t = s
      <3>1. /\ wait[s] = "leaving" /\ wait'[s] = "returned"
            /\ status'[s] = IF s \in ctx /\ ~Done THEN Withdrawn(status[s]) ELSE status[s]
        BY <2>1, <2>3 DEF TypeOK
      <3>2. UNCHANGED Done
        BY <2>1 DEF Done
      <3>3. Done \/ status'[s] \notin Unfinished
        BY <1>d, <3>1 DEF Job, Unfinished, Finished
      <3>4. /\ status'[s] \notin {"offered", "gone", "receiving"}
            /\ native[s] \in Unborn => status'[s] = "none"
        BY <1>d, <3>1 DEF Job
      <3> HIDE DEF Done
      <3> QED
        BY <2>1, <3>1, <3>2, <3>3, <3>4 DEF Job
    <2> QED
      BY <2>2, <2>3
  <1>8. ASSUME NEW r \in Senders, r # s,
               \/ Submit(r) \/ CallSubmit(r) \/ Prepare(r) \/ CheckPrepared(r) \/ Enqueue(r)
               \/ Record(r) \/ CheckRecorded(r) \/ Withdraw(r)
               \/ SubmitReturns(r) \/ SubmitCancels(r) \/ SubmitCancelsJob(r) \/ SubmitAbandons(r)
        PROVE  Job(s)'
    <2>1. native' = native \/ \E x : native' = [native EXCEPT ![r] = x]
      BY <1>8 DEF Submit, CallSubmit, Prepare, CheckPrepared, Enqueue, Record, CheckRecorded, Withdraw,
                  SubmitReturns, SubmitCancels, SubmitCancelsJob, SubmitAbandons, Goes
    <2>2. submission' = submission \/ \E x : submission' = [submission EXCEPT ![r] = x]
      BY <1>8 DEF Submit, CallSubmit, Prepare, CheckPrepared, Enqueue, Record, CheckRecorded, Withdraw,
                  SubmitReturns, SubmitCancels, SubmitCancelsJob, SubmitAbandons
    <2>3. operation' = operation \/ \E x : operation' = [operation EXCEPT ![r] = x]
      BY <1>8 DEF Submit, CallSubmit, Prepare, CheckPrepared, Enqueue, Record, CheckRecorded, Withdraw,
                  SubmitReturns, SubmitCancels, SubmitCancelsJob, SubmitAbandons
    <2>4. status' = status \/ \E x : status' = [status EXCEPT ![r] = x]
      BY <1>8 DEF Submit, CallSubmit, Prepare, CheckPrepared, Enqueue, Record, CheckRecorded, Withdraw,
                  SubmitReturns, SubmitCancels, SubmitCancelsJob, SubmitAbandons
    <2>5. wait' = wait \/ \E x : wait' = [wait EXCEPT ![r] = x]
      BY <1>8 DEF Submit, CallSubmit, Prepare, CheckPrepared, Enqueue, Record, CheckRecorded, Withdraw,
                  SubmitReturns, SubmitCancels, SubmitCancelsJob, SubmitAbandons
    <2>6. /\ native'[s] = native[s] /\ submission'[s] = submission[s] /\ operation'[s] = operation[s]
          /\ status'[s] = status[s] /\ wait'[s] = wait[s]
      BY <1>a, <1>8, <2>1, <2>2, <2>3, <2>4, <2>5 DEF TypeOK
    <2> QED
      BY <2>6, JobKept
  <1>9. CASE Submit(s)
    <2>1. CASE s \in ctx \/ Done
      <3>1. /\ submission[s] = "idle" /\ submission'[s] = "refused" /\ closer # "unopened"
            /\ UNCHANGED <<status, native, operation, wait, closer, ctx, recorded>>
        BY <1>9, <2>1 DEF Submit, TypeOK
      <3>2. UNCHANGED Done
        BY <3>1 DEF Done
      <3> HIDE DEF Done
      <3> QED
        BY <3>1, <3>2 DEF Job
    <2>2. CASE ~(s \in ctx \/ Done)
      <3>1. /\ submission[s] = "idle" /\ submission'[s] = "select" /\ closer # "unopened"
            /\ native'[s] = "called"
            /\ UNCHANGED <<status, wait, closer, ctx, recorded>>
        BY <1>9, <2>2 DEF Submit, TypeOK
      <3>2. UNCHANGED Done
        BY <3>1 DEF Done
      <3>3. status[s] = "none"
        BY <3>1 DEF Job, Unborn
      <3> HIDE DEF Done
      <3> QED
        BY <3>1, <3>2, <3>3 DEF Job, Unborn, Unfinished
    <2> QED
      BY <2>1, <2>2
  <1>10. CASE CallSubmit(s) \/ Prepare(s) \/ CheckPrepared(s)
    <2>1. /\ native[s] \in Unborn \ {"idle", "failed"}
          /\ \E x \in {"failed", "preparing", "prepared", "cancelled", "enqueueing"} :
                native' = [native EXCEPT ![s] = x]
          /\ UNCHANGED <<status, submission, operation, wait, closer, ctx, recorded>>
      BY <1>10 DEF CallSubmit, Prepare, CheckPrepared, Goes, Unborn
    <2>2. native'[s] \in {"failed", "preparing", "prepared", "cancelled", "enqueueing"}
      BY <2>1 DEF TypeOK
    <2>3. status[s] = "none" /\ submission[s] \notin {"abandoned", "idle", "sent"}
      BY <2>1 DEF Job, Unborn, Answers
    <2>4. UNCHANGED Done
      BY <2>1 DEF Done
    <2> HIDE DEF Done
    <2> QED
      BY <2>1, <2>2, <2>3, <2>4 DEF Job, Unfinished, Unborn
  <1>11. CASE Enqueue(s)
    <2>1. /\ native[s] = "enqueueing"
          /\ UNCHANGED <<submission, operation, wait, closer, ctx, recorded>>
      BY <1>11 DEF Enqueue, Goes
    <2>2. \/ native'[s] = "enqueued" /\ status'[s] = "queued"
          \/ native'[s] = "failed" /\ status'[s] = status[s]
      BY <1>a, <1>11 DEF Enqueue, Goes, TypeOK
    <2>3. status[s] = "none" /\ submission[s] \notin {"abandoned", "idle", "sent"}
      BY <2>1 DEF Job, Unborn, Answers
    <2>4. wait[s] = "idle"
      BY <2>3 DEF Job
    <2>5. UNCHANGED Done
      BY <2>1 DEF Done
    <2> HIDE DEF Done
    <2> QED
      BY <2>1, <2>2, <2>3, <2>4, <2>5 DEF Job, Unborn
  <1>12. CASE Record(s)
    <2>1. /\ native[s] = "enqueued" /\ native'[s] = "recorded" /\ s \in recorded'
          /\ UNCHANGED <<status, submission, operation, wait, closer, ctx>>
      BY <1>12 DEF Record, Goes, TypeOK
    <2>2. submission[s] \notin {"abandoned", "idle", "sent"}
      BY <2>1 DEF Job, Answers
    <2>3. UNCHANGED Done
      BY <2>1 DEF Done
    <2> HIDE DEF Done
    <2> QED
      BY <2>1, <2>2, <2>3 DEF Job, Unborn
  <1>13. CASE CheckRecorded(s)
    <2>1. /\ native[s] = "recorded"
          /\ native'[s] = IF operation[s] = "cancelled" THEN "withdrawing" ELSE "job"
          /\ UNCHANGED <<status, submission, operation, wait, closer, ctx, recorded>>
      BY <1>13 DEF CheckRecorded, Goes, TypeOK, Cancelled
    <2>2. submission[s] \notin {"abandoned", "idle", "sent"}
      BY <2>1 DEF Job, Answers
    <2>3. UNCHANGED Done
      BY <2>1 DEF Done
    <2> HIDE DEF Done
    <2> QED
      BY <2>1, <2>2, <2>3 DEF Job, Unborn
  <1>14. CASE Withdraw(s)
    <2>1. /\ native[s] = "withdrawing" /\ native'[s] = "cancelled"
          /\ status'[s] = IF engine = "running" THEN Withdrawn(status[s]) ELSE status[s]
          /\ UNCHANGED <<submission, operation, wait, closer, ctx, recorded>>
      BY <1>a, <1>14 DEF Withdraw, Goes, TypeOK
    <2>2. submission[s] \notin {"abandoned", "idle", "sent"}
      BY <2>1 DEF Job, Answers
    <2>3. Done \/ status'[s] \notin Unfinished
      BY <1>c, <1>d, <2>1
    <2>4. status'[s] \notin {"offered", "gone", "receiving"} /\ wait[s] = "idle"
      BY <1>d, <2>1, <2>2 DEF Job
    <2>5. UNCHANGED Done
      BY <2>1 DEF Done
    <2> HIDE DEF Done
    <2> QED
      BY <2>1, <2>2, <2>3, <2>4, <2>5 DEF Job, Unborn
  <1>15. CASE SubmitReturns(s)
    <2>1. /\ submission[s] = "select" /\ native[s] \in Answers
          /\ \/ native[s] = "job" /\ submission'[s] = "sent" /\ wait'[s] = "take"
             \/ submission'[s] = "refused" /\ UNCHANGED wait
          /\ UNCHANGED <<status, native, closer, ctx, recorded>>
      BY <1>a, <1>15 DEF SubmitReturns, TypeOK
    <2>2. wait[s] = "idle"
      BY <2>1 DEF Job
    <2>3. UNCHANGED Done
      BY <2>1 DEF Done
    <2> HIDE DEF Done
    <2> QED
      BY <2>1, <2>2, <2>3 DEF Job
  <1>16. CASE SubmitCancels(s)
    <2>1. /\ submission[s] = "select"
          /\ \/ closed /\ submission'[s] = "join" /\ UNCHANGED operation
             \/ submission'[s] = "cancel" /\ operation'[s] = "cancelled"
          /\ UNCHANGED <<status, native, wait, closer, ctx, recorded>>
      BY <1>16 DEF SubmitCancels, TypeOK
    <2>2. closed => Done
      BY DEF Running
    <2>3. wait[s] = "idle"
      BY <2>1 DEF Job
    <2>4. UNCHANGED Done
      BY <2>1 DEF Done
    <2> HIDE DEF Done
    <2> QED
      BY <2>1, <2>2, <2>3, <2>4 DEF Job
  <1>17. CASE SubmitCancelsJob(s)
    <2>1. /\ submission[s] = "cancel" /\ submission'[s] = "join"
          /\ status'[s] = IF s \in recorded /\ engine = "running" THEN Withdrawn(status[s]) ELSE status[s]
          /\ UNCHANGED <<native, operation, wait, closer, ctx, recorded>>
      BY <1>a, <1>17 DEF SubmitCancelsJob, TypeOK
    <2>2. native[s] = "job" => Done \/ status'[s] \notin Unfinished
      BY <1>c, <1>d, <2>1 DEF Job
    <2>3. /\ status'[s] \notin {"offered", "gone", "receiving"} /\ wait[s] = "idle"
          /\ native[s] \in Unborn => status'[s] = "none"
          /\ status[s] \notin Unfinished => status'[s] \notin Unfinished
      BY <1>d, <2>1 DEF Job
    <2>4. UNCHANGED Done
      BY <2>1 DEF Done
    <2> HIDE DEF Done
    <2> QED
      BY <2>1, <2>2, <2>3, <2>4 DEF Job
  <1>18. CASE SubmitAbandons(s)
    <2>1. /\ submission[s] = "join" /\ native[s] \in Answers /\ submission'[s] = "abandoned"
          /\ UNCHANGED <<status, native, wait, closer, ctx, recorded>>
      BY <1>18 DEF SubmitAbandons, TypeOK
    <2>2. Done \/ status[s] \notin Unfinished
      BY <2>1 DEF Job, Answers, Unborn, Unfinished
    <2>3. wait[s] = "idle"
      BY <2>1 DEF Job
    <2>4. UNCHANGED Done
      BY <2>1 DEF Done
    <2> HIDE DEF Done
    <2> QED
      BY <2>1, <2>2, <2>3, <2>4 DEF Job
  <1> HIDE DEF Running, Done
  <1> QED
    BY <1>1, <1>2, <1>3, <1>4, <1>5, <1>6, <1>7, <1>8, <1>9, <1>10, <1>11, <1>12, <1>13, <1>14,
       <1>15, <1>16, <1>17, <1>18, NextIsActions DEF Actions

-----------------------------------------------------------------------------
(* The offers *)

LEMMA OfferInit == Init => \A o \in Offers : Offer(o)
  <1> SUFFICES ASSUME Init, NEW o \in Offers PROVE Offer(o)
    OBVIOUS
  <1>1. /\ mailbox = <<>> /\ batch = <<>> /\ incoming = <<>>
        /\ handler[o] = "idle" /\ deciding[o] = "none" /\ decided = {} /\ status[o] = "none"
    BY OffersAreThings DEF Init
  <1> QED
    BY <1>1, EmptyHas DEF Offer

(* A step that does not concern this offer. *)
LEMMA OfferKept ==
    ASSUME NEW o \in Offers, Offer(o), [Next]_vars,
           status'[o] = status[o], handler'[o] = handler[o], deciding'[o] = deciding[o],
           o \in decided' <=> o \in decided,
           (Has(o, mailbox') \/ Has(o, batch') \/ Has(o, incoming'))
              <=> (Has(o, mailbox) \/ Has(o, batch) \/ Has(o, incoming))
    PROVE  Offer(o)'
  <1>1. Done => Done'
    BY DoneStays
  <1> HIDE DEF Done
  <1> QED
    BY <1>1 DEF Offer

LEMMA OfferNext ==
    ASSUME TypeOK, Running, NEW o \in Offers, Offer(o), [Next]_vars PROVE Offer(o)'
  <1> USE DEF world, reader, abi, loop, changed, callers, progress, serving
  <1>a. o \in Things /\ \A s \in Senders : s \in Things /\ s # o
    BY Apart, OffersAreThings
  <1>b. Done => Done'
    BY DoneStays
  <1>1. CASE \/ Open \/ OpenFails \/ CloseSignals \/ CloseDone \/ CloseNative \/ CloseEngine \/ CloseReturns
             \/ PumpEnds \/ Signal
             \/ \E t \in Things : WaitTake(t)
             \/ \E t \in Things : WaitRead(t)
             \/ \E t \in Things : WaitSelect(t)
             \/ \E s \in Senders : Submit(s)
             \/ \E s \in Senders : Expire(s)
             \/ \E s \in Senders : CallSubmit(s)
             \/ \E s \in Senders : Prepare(s)
             \/ \E s \in Senders : CheckPrepared(s)
             \/ \E s \in Senders : Record(s)
             \/ \E s \in Senders : CheckRecorded(s)
             \/ \E s \in Senders : SubmitReturns(s)
             \/ \E s \in Senders : SubmitCancels(s)
             \/ \E s \in Senders : SubmitAbandons(s)
             \/ \E s \in Senders : WatchStart(s)
             \/ \E s \in Senders : WatchTake(s)
             \/ \E s \in Senders : WatchRead(s)
             \/ \E s \in Senders : WatchSelect(s)
             \/ \E s \in Senders : Receive(s)
             \/ UNCHANGED vars
    <2>1. UNCHANGED <<status, handler, deciding, decided, mailbox, batch, incoming>>
      BY <1>1 DEF Open, OpenFails, CloseSignals, CloseDone, CloseNative, CloseEngine, CloseReturns,
                  PumpEnds, Signal, WaitTake, WaitRead, WaitSelect, Submit, Expire, CallSubmit, Prepare,
                  CheckPrepared, Record, CheckRecorded, SubmitReturns, SubmitCancels, SubmitAbandons,
                  WatchStart, WatchTake, WatchRead, WatchSelect, Receive, vars
    <2> QED
      BY <2>1, OfferKept
  <1>2. ASSUME NEW s \in Senders, Enqueue(s) \/ Withdraw(s) \/ SubmitCancelsJob(s) PROVE Offer(o)'
    <2>1. /\ status' = status \/ \E x : status' = [status EXCEPT ![s] = x]
          /\ UNCHANGED <<handler, deciding, decided, mailbox, batch, incoming>>
      BY <1>2 DEF Enqueue, Withdraw, SubmitCancelsJob
    <2>2. status'[o] = status[o]
      BY <1>a, <2>1 DEF TypeOK
    <2> QED
      BY <2>1, <2>2, OfferKept
  <1>3. ASSUME NEW t \in Things, WaitReturns(t) PROVE Offer(o)'
    <2>1. /\ status' = status \/ (t \in ctx /\ \E x : status' = [status EXCEPT ![t] = x])
          /\ UNCHANGED <<handler, deciding, decided, mailbox, batch, incoming>>
      BY <1>3 DEF WaitReturns
    <2>2. status'[o] = status[o]
      BY <1>a, <2>1 DEF TypeOK
    <2> QED
      BY <2>1, <2>2, OfferKept
  <1>4. CASE Poll
    <2>1. /\ batch = <<>> /\ batch' = mailbox /\ mailbox' = <<>>
          /\ UNCHANGED <<status, handler, deciding, decided, incoming>>
      BY <1>4 DEF Poll, Running
    <2> QED
      BY <2>1, EmptyHas, OfferKept
  <1>5. CASE Deliver
    <2> DEFINE p == Head(batch)
    <2>1. /\ p \in Offers /\ \A x : Has(x, batch) <=> Has(x, batch') \/ x = p
      BY <1>5, TailHas DEF Deliver, TypeOK
    <2>2. UNCHANGED <<mailbox, handler, deciding, decided, closer>>
      BY <1>5 DEF Deliver
    <2>3. CASE Len(incoming) < Capacity
      <3>1. incoming' = Append(incoming, p) /\ UNCHANGED status
        BY <1>5, <2>3 DEF Deliver
      <3>2. \A x : Has(x, Append(incoming, p)) <=> Has(x, incoming) \/ x = p
        BY <2>1, AppendHas DEF TypeOK
      <3> HIDE DEF p
      <3>3. \A x : Has(x, incoming') <=> Has(x, incoming) \/ x = p
        BY <3>1, <3>2
      <3> QED
        BY <2>1, <2>2, <3>1, <3>3, OfferKept
    <2>4. CASE ~(Len(incoming) < Capacity)
      <3>1. /\ status' = IF status[p] = "offered" /\ ~closed THEN [status EXCEPT ![p] = "gone"] ELSE status
            /\ UNCHANGED incoming
        BY <1>5, <2>4 DEF Deliver
      <3> HIDE DEF p
      <3>2. CASE p # o
        <4>1. status'[o] = status[o]
          BY <1>a, <3>1, <3>2 DEF TypeOK
        <4>2. Has(o, batch') <=> Has(o, batch)
          BY <2>1, <3>2
        <4> QED
          BY <2>2, <3>1, <4>1, <4>2, OfferKept
      <3>3. CASE p = o
        <4>1. status[o] # "none" /\ (o \in decided => handler[o] # "idle")
          BY <2>1, <3>3 DEF Offer
        <4>2. \/ status'[o] = "gone"
              \/ status'[o] = status[o] /\ (status[o] = "offered" => closed)
          BY <1>a, <3>1, <3>3 DEF TypeOK
        <4>3. closed => Done'
          BY <2>2 DEF Running, Done
        <4>4. status'[o] # "none" /\ (status'[o] = "offered" => Done')
          BY <4>1, <4>2, <4>3
        <4> HIDE DEF Done
        <4> QED
          BY <2>2, <4>1, <4>4 DEF Offer
      <3> QED
        BY <3>2, <3>3
    <2> QED
      BY <2>3, <2>4
  <1>6. CASE Serve
    <2> DEFINE p == Head(incoming)
    <2>1. /\ p \in Offers /\ \A x : Has(x, incoming) <=> Has(x, incoming') \/ x = p
      BY <1>6, TailHas DEF Serve, TypeOK
    <2>2. /\ UNCHANGED <<status, mailbox, batch, deciding, decided, closer>>
          /\ handler' = [handler EXCEPT ![p] = "running"]
      BY <1>6 DEF Serve
    <2> HIDE DEF p
    <2>3. CASE p # o
      <3>1. handler'[o] = handler[o] /\ (Has(o, incoming') <=> Has(o, incoming))
        BY <2>1, <2>2, <2>3 DEF TypeOK
      <3> QED
        BY <2>2, <3>1, OfferKept
    <2>4. CASE p = o
      <3>1. handler'[o] = "running" /\ status[o] # "none"
        BY <2>1, <2>2, <2>4 DEF TypeOK, Offer
      <3>2. UNCHANGED Done
        BY <2>2 DEF Done
      <3> HIDE DEF Done
      <3> QED
        BY <2>2, <3>1, <3>2 DEF Offer
    <2> QED
      BY <2>3, <2>4
  <1>7. ASSUME NEW t \in Things, Advance(t) PROVE Offer(o)'
    <2>1. /\ UNCHANGED <<handler, deciding, decided, mailbox, batch, incoming, closer>>
          /\ \E x \in Follows(status[t]) : status' = [status EXCEPT ![t] = x]
      BY <1>7 DEF Advance
    <2>2. CASE t # o
      <3>1. status'[o] = status[o]
        BY <1>a, <2>1, <2>2 DEF TypeOK
      <3> QED
        BY <2>1, <3>1, OfferKept
    <2>3. CASE t = o
      <3>1. status'[o] \in Follows(status[o])
        BY <1>a, <2>1, <2>3 DEF TypeOK
      <3>2. status'[o] \notin {"none", "offered"}
        BY <3>1 DEF Follows
      <3>3. UNCHANGED Done
        BY <2>1 DEF Done
      <3> HIDE DEF Done
      <3> QED
        BY <2>1, <3>2, <3>3 DEF Offer
    <2> QED
      BY <2>2, <2>3
  <1>8. ASSUME NEW p \in Offers, Arrive(p) PROVE Offer(o)'
    <2>1. /\ status[p] = "none" /\ status' = [status EXCEPT ![p] = "offered"]
          /\ mailbox' = Append(mailbox, p)
          /\ UNCHANGED <<handler, deciding, decided, batch, incoming, closer>>
      BY <1>8 DEF Arrive
    <2>2. \A x : Has(x, mailbox') <=> Has(x, mailbox) \/ x = p
      BY <2>1, AppendHas DEF TypeOK
    <2>3. CASE p # o
      <3>1. status'[o] = status[o] /\ (Has(o, mailbox') <=> Has(o, mailbox))
        BY <1>a, <2>1, <2>2, <2>3 DEF TypeOK
      <3> QED
        BY <2>1, <3>1, OfferKept
    <2>4. CASE p = o
      <3>1. status[o] = "none" /\ status'[o] = "offered" /\ Has(o, mailbox')
        BY <1>a, <2>1, <2>2, <2>4 DEF TypeOK
      <3>2. handler[o] = "idle" /\ o \notin decided
        BY <3>1 DEF Offer, TypeOK
      <3> HIDE DEF Done
      <3> QED
        BY <2>1, <3>1, <3>2 DEF Offer
    <2> QED
      BY <2>3, <2>4
  <1>9. ASSUME NEW p \in Offers, NEW what \in {"accept", "reject"}, Decide(p, what) PROVE Offer(o)'
    <2>1. /\ handler[p] # "idle" /\ p \notin decided
          /\ decided' = decided \cup {p} /\ deciding' = [deciding EXCEPT ![p] = what]
          /\ UNCHANGED <<status, handler, mailbox, batch, incoming, closer>>
      BY <1>9 DEF Decide
    <2>2. CASE p # o
      <3>1. deciding'[o] = deciding[o] /\ (o \in decided' <=> o \in decided)
        BY <2>1, <2>2 DEF TypeOK
      <3> QED
        BY <2>1, <3>1, OfferKept
    <2>3. CASE p = o
      <3>1. deciding'[o] # "none" /\ o \in decided' /\ handler[o] # "idle"
        BY <2>1, <2>3 DEF TypeOK
      <3> HIDE DEF Done
      <3> QED
        BY <2>1, <3>1 DEF Offer
    <2> QED
      BY <2>2, <2>3
  <1>10. ASSUME NEW p \in Offers, HandlerReturns(p) PROVE Offer(o)'
    <2>1. /\ handler[p] = "running" /\ handler' = [handler EXCEPT ![p] = "ended"]
          /\ \/ p \in decided /\ UNCHANGED <<decided, deciding>>
             \/ decided' = decided \cup {p} /\ deciding' = [deciding EXCEPT ![p] = "reject"]
          /\ UNCHANGED <<status, mailbox, batch, incoming, closer>>
      BY <1>10 DEF HandlerReturns
    <2>2. CASE p # o
      <3>1. /\ deciding'[o] = deciding[o] /\ (o \in decided' <=> o \in decided)
            /\ handler'[o] = handler[o]
        BY <2>1, <2>2 DEF TypeOK
      <3> QED
        BY <2>1, <3>1, OfferKept
    <2>3. CASE p = o
      <3>1. /\ handler'[o] = "ended" /\ handler[o] = "running" /\ o \in decided'
            /\ \/ o \in decided /\ deciding'[o] = deciding[o]
               \/ deciding'[o] = "reject"
        BY <2>1, <2>3 DEF TypeOK
      <3>2. UNCHANGED Done
        BY <2>1 DEF Done
      <3> HIDE DEF Done
      <3> QED
        BY <2>1, <3>1, <3>2 DEF Offer
    <2> QED
      BY <2>2, <2>3
  <1>11. ASSUME NEW p \in Offers, DecisionArrives(p) PROVE Offer(o)'
    <2>1. /\ deciding[p] # "none" /\ deciding' = [deciding EXCEPT ![p] = "none"]
          /\ \/ UNCHANGED status /\ (Done \/ status[p] # "offered")
             \/ \E x \in {"receiving", "gone"} : status' = [status EXCEPT ![p] = x]
          /\ UNCHANGED <<handler, decided, mailbox, batch, incoming, closer>>
      BY <1>11 DEF DecisionArrives
    <2>2. CASE p # o
      <3>1. deciding'[o] = deciding[o] /\ status'[o] = status[o]
        BY <1>a, <2>1, <2>2 DEF TypeOK
      <3> QED
        BY <2>1, <3>1, OfferKept
    <2>3. CASE p = o
      <3>1. /\ deciding'[o] = "none" /\ deciding[o] # "none"
            /\ \/ status'[o] = status[o] /\ (Done \/ status[o] # "offered")
               \/ status'[o] \in {"receiving", "gone"}
        BY <1>a, <2>1, <2>3 DEF TypeOK
      <3>2. UNCHANGED Done
        BY <2>1 DEF Done
      <3>3. o \in decided /\ handler[o] # "idle"
        BY <3>1 DEF Offer
      <3> HIDE DEF Done
      <3> QED
        BY <2>1, <3>1, <3>2, <3>3 DEF Offer
    <2> QED
      BY <2>2, <2>3
  <1> HIDE DEF Done, Running
  <1> QED
    BY <1>1, <1>2, <1>3, <1>4, <1>5, <1>6, <1>7, <1>8, <1>9, <1>10, <1>11, NextIsActions DEF Actions

-----------------------------------------------------------------------------
(* The last update *)

LEMMA FinalNext ==
    ASSUME TypeOK, NEW s \in Senders, Job(s), Final(s), [Next]_vars PROVE Final(s)'
  <1> USE DEF world, reader, abi, loop, changed, callers, progress, serving
  <1>a. s \in Things /\ \A o \in Offers : o \in Things /\ o # s
    BY Apart, OffersAreThings
  <1>b. \A x \in Finished : Withdrawn(x) = x /\ Follows(x) = {} /\ Shown(x) = x /\ x # "none"
    BY DEF Finished, Withdrawn, Follows, Shown
  <1>1. status[s] \in Finished => status'[s] = status[s]
    <2> SUFFICES ASSUME status[s] \in Finished PROVE status'[s] = status[s]
      OBVIOUS
    <2>1. ASSUME NEW t \in Things, Advance(t) PROVE status'[s] = status[s]
      BY <1>a, <1>b, <2>1 DEF Advance, TypeOK
    <2>2. ASSUME NEW t \in Things, WaitReturns(t) PROVE status'[s] = status[s]
      BY <1>a, <1>b, <2>2 DEF WaitReturns, TypeOK
    <2>3. ASSUME NEW r \in Senders, Enqueue(r) PROVE status'[s] = status[s]
      <3>1. r # s \/ UNCHANGED status
        <4>1. native[s] \notin Unborn
          BY <1>b DEF Job
        <4> QED
          BY <2>3, <4>1 DEF Enqueue, Goes, Unborn
      <3> QED
        BY <1>a, <2>3, <3>1 DEF Enqueue, TypeOK
    <2>4. ASSUME NEW r \in Senders, Withdraw(r) \/ SubmitCancelsJob(r) PROVE status'[s] = status[s]
      BY <1>a, <1>b, <2>4 DEF Withdraw, SubmitCancelsJob, TypeOK
    <2>5. ASSUME NEW o \in Offers, Arrive(o) \/ DecisionArrives(o) PROVE status'[s] = status[s]
      BY <1>a, <2>5 DEF Arrive, DecisionArrives, TypeOK
    <2>6. CASE Deliver
      <3>1. Head(batch) \in Offers
        BY <2>6, TailHas DEF Deliver, TypeOK
      <3> QED
        BY <1>a, <2>6, <3>1 DEF Deliver, TypeOK
    <2>7. \/ UNCHANGED status
          \/ \E t \in Things : Advance(t)
          \/ \E t \in Things : WaitReturns(t)
          \/ \E r \in Senders : Enqueue(r)
          \/ \E r \in Senders : Withdraw(r)
          \/ \E r \in Senders : SubmitCancelsJob(r)
          \/ \E o \in Offers : Arrive(o)
          \/ \E o \in Offers : DecisionArrives(o)
          \/ Deliver
      BY NextIsActions
      DEF Actions, Open, OpenFails, CloseSignals, CloseDone, CloseNative, CloseEngine, CloseReturns,
          Poll, PumpEnds, Signal, Serve, WaitTake, WaitRead, WaitSelect,
          Submit, Expire, CallSubmit, Prepare, CheckPrepared, Record, CheckRecorded,
          SubmitReturns, SubmitCancels, SubmitAbandons,
          WatchStart, WatchTake, WatchRead, WatchSelect, Receive, HandlerReturns, Decide, vars
    <2> QED
      BY <2>1, <2>2, <2>3, <2>4, <2>5, <2>6, <2>7
  <1>2. ASSUME UNCHANGED <<watch, out, got>> PROVE Final(s)'
    BY <1>1, <1>2 DEF Final
  <1>3. ASSUME NEW r \in Senders, WatchStart(r) \/ WatchTake(r) \/ WatchSelect(r) PROVE Final(s)'
    <2>1. /\ \E x \in {"take", "read", "gone"} : watch' = [watch EXCEPT ![r] = x]
          /\ UNCHANGED <<status, out, got>>
      BY <1>3 DEF WatchStart, WatchTake, WatchSelect, Watches
    <2>2. watch'[s] = "complete" => watch[s] = "complete"
      BY <2>1 DEF TypeOK
    <2> QED
      BY <2>1, <2>2 DEF Final
  <1>4. ASSUME NEW r \in Senders, WatchRead(r) PROVE Final(s)'
    <2>1. /\ UNCHANGED <<status, got>> /\ watch[r] = "read"
          /\ \E x \in {"gone", "complete", "select"} :
                /\ watch' = [watch EXCEPT ![r] = x]
                /\ x = "complete" => status[r] \in Finished /\ out' = [out EXCEPT ![r] = Shown(status[r])]
          /\ out' = out \/ out' = [out EXCEPT ![r] = Shown(status[r])]
      BY <1>4 DEF WatchRead, Watches
    <2>2. CASE r # s
      <3>1. watch'[s] = watch[s] /\ out'[s] = out[s]
        BY <2>1, <2>2 DEF TypeOK
      <3> QED
        BY <2>1, <3>1 DEF Final
    <2>3. CASE r = s
      <3>1. watch'[s] = "complete" => status[s] \in Finished /\ out'[s] = Shown(status[s])
        BY <2>1, <2>3 DEF TypeOK
      <3> QED
        BY <1>b, <2>1, <3>1 DEF Final
    <2> QED
      BY <2>2, <2>3
  <1>5. ASSUME NEW r \in Senders, Receive(r) PROVE Final(s)'
    <2>1. /\ out[r] # "none" /\ got' = [got EXCEPT ![r] = out[r]] /\ out' = [out EXCEPT ![r] = "none"]
          /\ UNCHANGED <<status, watch>>
      BY <1>5 DEF Receive
    <2>2. \/ out'[s] = out[s] /\ got'[s] = got[s]
          \/ out[s] # "none" /\ out'[s] = "none" /\ got'[s] = out[s]
      BY <2>1 DEF TypeOK
    <2> QED
      BY <2>1, <2>2 DEF Final
  <1>6. \/ UNCHANGED <<watch, out, got>>
        \/ \E r \in Senders : WatchStart(r)
        \/ \E r \in Senders : WatchTake(r)
        \/ \E r \in Senders : WatchRead(r)
        \/ \E r \in Senders : WatchSelect(r)
        \/ \E r \in Senders : Receive(r)
    BY NextIsActions
    DEF Actions, Open, OpenFails, CloseSignals, CloseDone, CloseNative, CloseEngine, CloseReturns,
        Poll, PumpEnds, Deliver, Signal, Serve, Advance, WaitTake, WaitRead, WaitSelect, WaitReturns,
        Submit, Expire, CallSubmit, Prepare, CheckPrepared, Enqueue, Record, CheckRecorded, Withdraw,
        SubmitReturns, SubmitCancels, SubmitCancelsJob, SubmitAbandons, Arrive, HandlerReturns,
        DecisionArrives, Decide, vars
  <1> QED
    BY <1>2, <1>3, <1>4, <1>5, <1>6

-----------------------------------------------------------------------------
(* Theorems *)

LEMMA Invariance == Spec => []Inv
  <1>1. Init => Inv
    BY TypeInit, JobInit, OfferInit DEF Inv
  <1>2. Inv /\ [Next]_vars => Inv'
    <2> SUFFICES ASSUME Inv, [Next]_vars PROVE Inv'
      OBVIOUS
    <2>1. TypeOK' /\ Running'
      BY TypeNext, RunningNext DEF Inv
    <2>2. \A s \in Senders : Job(s)' /\ Final(s)'
      BY JobNext, FinalNext DEF Inv
    <2>3. \A o \in Offers : Offer(o)'
      BY OfferNext DEF Inv
    <2> QED
      BY <2>1, <2>2, <2>3 DEF Inv
  <1> QED
    BY <1>1, <1>2, PTL DEF Spec

(* Nobody who gave up leaves a fax behind that would still be sent, and no *)
(* offer the engine waits for is forgotten, until the client is closed.    *)
THEOREM NothingStrays == Spec => []NoStray
  <1>1. Inv => NoStray
    <2> SUFFICES ASSUME Inv PROVE NoStray
      OBVIOUS
    <2> HIDE DEF Done
    <2>1. NoStrayJob
      BY DEF Inv, Job, Unfinished, NoStrayJob
    <2>2. NoStrayOffer
      <3> SUFFICES ASSUME NEW o \in Offers, status[o] = "offered"
                   PROVE  \/ Done
                          \/ Has(o, mailbox) \/ Has(o, batch) \/ Has(o, incoming)
                          \/ handler[o] = "running" \/ deciding[o] # "none"
        BY DEF NoStrayOffer, Has
      <3>1. Offer(o) /\ handler[o] \in {"idle", "running", "ended"}
        BY DEF Inv, TypeOK
      <3> QED
        BY <3>1 DEF Offer
    <2> QED
      BY <2>1, <2>2 DEF Inv, NoStray
  <1> QED
    BY <1>1, Invariance, PTL

(* A reader of Progress whose channel was closed because the job is done   *)
(* has its final state, or finds it in the channel.                        *)
THEOREM LastUpdateIsKept == Spec => []FinalUpdateKept
  <1>1. Inv => FinalUpdateKept
    BY DEF Inv, Final, FinalUpdateKept
  <1> QED
    BY <1>1, Invariance, PTL
=============================================================================
