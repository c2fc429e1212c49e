----------------------------- MODULE QueueProofs -----------------------------
(***************************************************************************)
(* Theorems of the outgoing queue, for every number of jobs, slots, pages, *)
(* waiters, restarts and faults.                                           *)
(***************************************************************************)
EXTENDS Queue, TLAPS

USE QueueAssumption DEF Kinds, ActiveKinds, FinishedKinds, Reports, Endings

(* The actions of Next, without their grouping. *)
Actions ==
    \/ \E j \in Jobs : Enqueue(j)
    \/ \E j, previous \in Jobs : Retry(j, previous)
    \/ \E j \in Jobs : CancelActive(j)
    \/ \E j \in Jobs : CancelQueued(j)
    \/ ClearQueue
    \/ ClearQueueFails
    \/ Stop
    \/ \E j \in Jobs : StartSend(j)
    \/ \E j \in Jobs : SpawnFails(j)
    \/ ClaimFails
    \/ Filled
    \/ \E j \in Jobs : WorkerGivesUp(j)
    \/ \E j \in Jobs : WorkerDials(j)
    \/ \E j \in Jobs : WorkerReports(j)
    \/ \E j \in Jobs : WorkerEnds(j)
    \/ \E j \in Jobs : WorkerPanics(j)
    \/ \E j \in Jobs, changed \in BOOLEAN : Progress(j, changed)
    \/ \E j \in Jobs : ProgressFails(j)
    \/ \E j \in Jobs : Sent(j)
    \/ \E j \in Jobs : SentFails(j)
    \/ \E j \in Jobs : PanicStops(j)
    \/ \E w \in Waiters, j \in Jobs : WaitJob(w, j)
    \/ \E w \in Waiters : AnswerWaiter(w)
    \/ \E w \in Waiters : WaiterRefused(w)
    \/ Crash
    \/ Reopen
    \/ \E j \in Jobs : Recover(j)
    \/ Opened

(* Every step of the queue is one of the listed actions. *)
LEMMA NextIsActions == Next <=> Actions
  BY DEF Next, Actions, Request, Fill, Transmit, Completion, Wait, Process

(* A report of any count keeps a job in transmission active. *)
LEMMA AdvancedType ==
    ASSUME NEW state \in Claim,
           NEW letter \in Mail
    PROVE  Advanced(state, letter) \in Claim
  BY DEF Advanced, JobState, Larger, Claim, Mail

(* The end of a call, with any receipt, leaves a finished job. *)
LEMMA EndedType ==
    ASSUME NEW state \in Claim,
           NEW letter \in Mail,
           NEW stopping \in BOOLEAN
    PROVE  Ended(state, letter, stopping) \in [kind : FinishedKinds, acked : 0 .. MaxCount]
  BY DEF Ended, JobState, Claim, Mail

(* The initial state has the declared types, and every action keeps them. *)
LEMMA TypeStep == TypeOK /\ [Next]_vars => TypeOK'
<1> SUFFICES ASSUME TypeOK, [Next]_vars PROVE TypeOK'
  OBVIOUS
<1>0. /\ Absent \in Row /\ Absent \in Claim /\ NoMail \in Mail
      /\ \A kind \in Kinds : JobState(kind, 0) \in Row
      /\ JobState("Connecting", 0) \in Claim
      /\ \A what \in Reports \cup Endings, n \in 0 .. MaxCount : Letter(what, n) \in Mail
      /\ Claim \subseteq Row
      /\ \A state \in [kind : FinishedKinds, acked : 0 .. MaxCount] : state \in Row
  BY DEF Absent, JobState, NoMail, Letter, Row, Claim, Mail
<1> USE <1>0 DEF TypeOK, Handles, Fault, Record, Publish, NoJob, Active, Idle, durable,
     actor, workers, waiting, history
<1>1. ASSUME NEW j \in Jobs, Enqueue(j) PROVE TypeOK'
  BY <1>1 DEF Enqueue, Insert
<1>2. ASSUME NEW j \in Jobs, NEW previous \in Jobs, Retry(j, previous) PROVE TypeOK'
  BY <1>2 DEF Retry, Insert
<1>3. ASSUME NEW j \in Jobs, CancelActive(j) PROVE TypeOK'
  BY <1>3 DEF CancelActive
<1>4. ASSUME NEW j \in Jobs, CancelQueued(j) PROVE TypeOK'
  BY <1>4 DEF CancelQueued
<1>5. CASE ClearQueue
  BY <1>5 DEF ClearQueue, ActiveRows
<1>6. CASE ClearQueueFails
  BY <1>6 DEF ClearQueueFails
<1>7. CASE Stop
  BY <1>7 DEF Stop
<1>8. ASSUME NEW j \in Jobs, StartSend(j) PROVE TypeOK'
  BY <1>8 DEF StartSend
<1>9. ASSUME NEW j \in Jobs, SpawnFails(j) PROVE TypeOK'
  BY <1>9 DEF SpawnFails
<1>10. CASE ClaimFails
  BY <1>10 DEF ClaimFails
<1>11. CASE Filled
  BY <1>11 DEF Filled
<1>12. ASSUME NEW j \in Jobs, WorkerGivesUp(j) PROVE TypeOK'
  BY <1>12 DEF WorkerGivesUp, Ends
<1>13. ASSUME NEW j \in Jobs, WorkerDials(j) PROVE TypeOK'
  BY <1>13 DEF WorkerDials
<1>14. ASSUME NEW j \in Jobs, WorkerReports(j) PROVE TypeOK'
  BY <1>14 DEF WorkerReports
<1>15. ASSUME NEW j \in Jobs, WorkerEnds(j) PROVE TypeOK'
  BY <1>15 DEF WorkerEnds, Ends
<1>16. ASSUME NEW j \in Jobs, WorkerPanics(j) PROVE TypeOK'
  BY <1>16 DEF WorkerPanics, Ends
<1>17. ASSUME NEW j \in Jobs, NEW changed \in BOOLEAN, Progress(j, changed) PROVE TypeOK'
  <2> DEFINE next == Advanced(mem[j], mail[j])
  <2>1. next \in Claim /\ next \in Row
    BY AdvancedType
  <2>2. row' \in [Jobs -> Row] /\ view' \in [Jobs -> Row] /\ unseen' \subseteq Waiters
    <3>1. UNCHANGED <<row, view, unseen>> \/ Notes(j, next)
      BY <1>17 DEF Progress
    <3> HIDE DEF next
    <3>2. CASE UNCHANGED <<row, view, unseen>>
      BY <3>2
    <3>3. CASE Notes(j, next)
      BY <2>1, <3>3 DEF Notes
    <3>4. QED
      BY <3>1, <3>2, <3>3
  <2>3. mem' \in [Jobs -> Claim]
    <3>1. mem' = [mem EXCEPT ![j] = next]
      BY <1>17 DEF Progress
    <3>2. QED
      BY <2>1, <3>1
  <2>4. QED
    BY <1>17, <2>2, <2>3 DEF Progress, Acks
<1>18. ASSUME NEW j \in Jobs, ProgressFails(j) PROVE TypeOK'
  <2>1. Advanced(mem[j], mail[j]) \in Claim
    BY AdvancedType
  <2>2. QED
    BY <2>1, <1>18 DEF ProgressFails, Acks
<1>19. ASSUME NEW j \in Jobs, Sent(j) PROVE TypeOK'
  <2> DEFINE final == Ended(mem[j], mail[j], phase = "Stopping")
  <2>1. final \in Row
    BY EndedType
  <2>2. row' \in [Jobs -> Row] /\ view' \in [Jobs -> Row] /\ unseen' \subseteq Waiters
    <3> HIDE DEF final
    <3>1. CASE j \in clearing
      BY <1>19, <3>1 DEF Sent, Forget
    <3>2. CASE j \notin clearing
      BY <1>19, <2>1, <3>2 DEF Sent, final
    <3>3. QED
      BY <3>1, <3>2
  <2>3. QED
    BY <1>19, <2>2 DEF Sent, Reaps
<1>20. ASSUME NEW j \in Jobs, SentFails(j) PROVE TypeOK'
  BY <1>20 DEF SentFails, Reaps
<1>21. ASSUME NEW j \in Jobs, PanicStops(j) PROVE TypeOK'
  BY <1>21 DEF PanicStops
<1>22. ASSUME NEW w \in Waiters, NEW j \in Jobs, WaitJob(w, j) PROVE TypeOK'
  BY <1>22 DEF WaitJob
<1>23. ASSUME NEW w \in Waiters, AnswerWaiter(w) PROVE TypeOK'
  BY <1>23 DEF AnswerWaiter
<1>24. ASSUME NEW w \in Waiters, WaiterRefused(w) PROVE TypeOK'
  BY <1>24 DEF WaiterRefused
<1>25. CASE Crash
  BY <1>25 DEF Crash
<1>26. CASE Reopen
  BY <1>26 DEF Reopen
<1>27. ASSUME NEW j \in Jobs, Recover(j) PROVE TypeOK'
  BY <1>27 DEF Recover
<1>28. CASE Opened
  BY <1>28 DEF Opened
<1>29. CASE UNCHANGED vars
  BY <1>29 DEF vars
<1>30. QED
  BY <1>1, <1>2, <1>3, <1>4, <1>5, <1>6, <1>7, <1>8, <1>9, <1>10, <1>11, <1>12, <1>13,
       <1>14, <1>15, <1>16, <1>17, <1>18, <1>19, <1>20, <1>21, <1>22, <1>23, <1>24, <1>25,
       <1>26, <1>27, <1>28, <1>29, NextIsActions DEF Actions

(* Every variable keeps its declared shape, whatever pages are reported:   *)
(* in particular a job in transmission stays in an active state.           *)
THEOREM TypeCorrect == Spec => []TypeOK
<1>1. Init => TypeOK
  BY DEF Init, TypeOK, NoJob, Absent, JobState, NoMail, Letter, Idle, Row, Claim, Mail
<1>2. QED
  BY <1>1, TypeStep, PTL DEF Spec
-----------------------------------------------------------------------------
(* The parts of the inductive invariant. *)

(* A row that is not in the table has the one form Absent, and a job whose *)
(* row was never inserted has no row.                                      *)
Rows ==
    \A j \in Jobs :
        /\ row[j].kind = "Absent" => row[j] = Absent
        /\ born[j] = 0 => row[j] = Absent

(* Rows are numbered in the order of their insertion, each with its own number. *)
Births ==
    /\ \A j \in Jobs : born[j] <= inserts
    /\ \A j, k \in Jobs : born[j] = born[k] /\ born[j] # 0 => j = k

(* A live worker works for a job that is active in its row and in the      *)
(* actor's map, in a process that is up; a job in the map has an active    *)
(* row, and the map is empty until the process has opened.                 *)
Works ==
    \A j \in Jobs :
        /\ worker[j] # "none" =>
            /\ phase \in {"Running", "Stopping"}
            /\ IsActive(row[j])
            /\ IsActive(mem[j])
        /\ mem[j] # Absent => IsActive(row[j]) /\ phase \notin {"Opening", "Down"}

(* A job that was called is past the queue, and past the start of its worker. *)
Calls ==
    \A j \in Jobs :
        /\ dials[j] <= 1
        /\ worker[j] = "starting" \/ row[j].kind = "Queued" \/ born[j] = 0 => dials[j] = 0

(* A job is queued after every job that has left the queue to be called.   *)
Order ==
    \A j, k \in Jobs :
        row[j].kind = "Queued" /\ (dials[k] # 0 \/ worker[k] = "starting") => born[k] < born[j]

Inv == Rows /\ Births /\ Works /\ Calls /\ Order

(* A report keeps an active job active and never lowers its acknowledged pages. *)
LEMMA AdvancedActive ==
    ASSUME NEW state \in Claim, IsActive(state),
           NEW letter \in Mail
    PROVE  IsActive(Advanced(state, letter)) /\ state.acked <= Advanced(state, letter).acked
  BY DEF Advanced, JobState, Larger, Claim, Mail, IsActive

(* Every action keeps the invariant. *)
LEMMA InvStep == TypeOK /\ TypeOK' /\ Inv /\ [Next]_vars => Inv'
<1> SUFFICES ASSUME TypeOK, TypeOK', Inv, [Next]_vars PROVE Inv'
  OBVIOUS
<1> USE DEF TypeOK, Inv, Rows, Births, Works, Calls, Order, Absent, IsActive, JobState,
     Handles, Fault, Record, Publish, NoJob, Active, Idle, durable, actor, workers, waiting,
     history, Queued
<1>1. ASSUME NEW j \in Jobs, Enqueue(j) PROVE Inv'
  BY <1>1 DEF Enqueue, Insert
<1>2. ASSUME NEW j \in Jobs, NEW previous \in Jobs, Retry(j, previous) PROVE Inv'
  BY <1>2 DEF Retry, Insert
<1>3. ASSUME NEW j \in Jobs, CancelActive(j) PROVE Inv'
  BY <1>3 DEF CancelActive
<1>4. ASSUME NEW j \in Jobs, CancelQueued(j) PROVE Inv'
  BY <1>4 DEF CancelQueued
<1>5. CASE ClearQueue
  BY <1>5 DEF ClearQueue, ActiveRows
<1>6. CASE ClearQueueFails
  BY <1>6 DEF ClearQueueFails
<1>7. CASE Stop
  BY <1>7 DEF Stop
<1>8. ASSUME NEW j \in Jobs, StartSend(j) PROVE Inv'
  <2>1. row[j].kind = "Queued" /\ \A k \in Queued : born[j] <= born[k]
    BY <1>8 DEF StartSend, IsNext
  <2>2. born[j] # 0 /\ dials[j] = 0
    BY <2>1
  <2>3. \A k \in Jobs : k # j /\ row[k].kind = "Queued" => born[j] < born[k]
    <3> SUFFICES ASSUME NEW k \in Jobs, k # j, row[k].kind = "Queued" PROVE born[j] < born[k]
      OBVIOUS
    <3>1. born[j] <= born[k]
      BY <2>1
    <3>2. born[j] # born[k]
      BY <2>2
    <3>3. born[j] \in Nat /\ born[k] \in Nat
      OBVIOUS
    <3>4. QED
      BY ONLY <3>1, <3>2, <3>3
  <2>4. /\ row'[j] = [kind |-> "Connecting", acked |-> 0] /\ mem'[j] = row'[j]
        /\ worker'[j] = "starting"
        /\ \A k \in Jobs : k # j => row'[k] = row[k] /\ mem'[k] = mem[k] /\ worker'[k] = worker[k]
        /\ UNCHANGED <<born, inserts, phase, dials>> /\ phase = "Running"
    BY <1>8 DEF StartSend, CanStart
  <2>5. Rows' /\ Births' /\ Works' /\ Calls'
    <3>1. Rows' /\ Births'
      BY <2>2, <2>4
    <3>2. Works'
      BY <2>4
    <3>3. Calls'
      BY <2>1, <2>2, <2>4
    <3>4. QED
      BY <3>1, <3>2, <3>3
  <2>6. Order'
    BY <2>1, <2>2, <2>3, <2>4
  <2>7. QED
    BY <2>5, <2>6
<1>9. ASSUME NEW j \in Jobs, SpawnFails(j) PROVE Inv'
  BY <1>9 DEF SpawnFails, IsNext
<1>10. CASE ClaimFails
  BY <1>10 DEF ClaimFails
<1>11. CASE Filled
  BY <1>11 DEF Filled, NoneWorking
<1>12. ASSUME NEW j \in Jobs, WorkerGivesUp(j) PROVE Inv'
  BY <1>12 DEF WorkerGivesUp, Ends
<1>13. ASSUME NEW j \in Jobs, WorkerDials(j) PROVE Inv'
  BY <1>13 DEF WorkerDials
<1>14. ASSUME NEW j \in Jobs, WorkerReports(j) PROVE Inv'
  BY <1>14 DEF WorkerReports
<1>15. ASSUME NEW j \in Jobs, WorkerEnds(j) PROVE Inv'
  BY <1>15 DEF WorkerEnds, Ends
<1>16. ASSUME NEW j \in Jobs, WorkerPanics(j) PROVE Inv'
  BY <1>16 DEF WorkerPanics, Ends
<1>17. ASSUME NEW j \in Jobs, NEW changed \in BOOLEAN, Progress(j, changed) PROVE Inv'
  <2>1. Advanced(mem[j], mail[j]) \in Claim /\ IsActive(Advanced(mem[j], mail[j]))
    BY <1>17, AdvancedType, AdvancedActive DEF Progress
  <2> DEFINE next == Advanced(mem[j], mail[j])
  <2>2. /\ worker[j] = "waiting" /\ worker' = [worker EXCEPT ![j] = "calling"]
        /\ mem' = [mem EXCEPT ![j] = next]
        /\ UNCHANGED <<born, inserts, phase, dials>>
    BY <1>17 DEF Progress, Acks
  <2>3. row' = row \/ row' = [row EXCEPT ![j] = next]
    BY <1>17 DEF Progress, Notes
  <2>4. QED
    <3> HIDE DEF next
    <3>1. next \in Claim /\ IsActive(next)
      BY <2>1 DEF next
    <3>2. CASE row' = row
      BY <2>2, <3>1, <3>2
    <3>3. CASE row' = [row EXCEPT ![j] = next]
      BY <2>2, <3>1, <3>3
    <3>4. QED
      BY <2>3, <3>2, <3>3
<1>18. ASSUME NEW j \in Jobs, ProgressFails(j) PROVE Inv'
  <2>1. Advanced(mem[j], mail[j]) \in Claim /\ IsActive(Advanced(mem[j], mail[j]))
    BY <1>18, AdvancedType, AdvancedActive DEF ProgressFails
  <2>2. QED
    BY <1>18, <2>1 DEF ProgressFails, Acks
<1>19. ASSUME NEW j \in Jobs, Sent(j) PROVE Inv'
  <2> DEFINE final == Ended(mem[j], mail[j], phase = "Stopping")
  <2>1. final \in [kind : FinishedKinds, acked : 0 .. MaxCount]
    BY EndedType
  <2>2. row'[j] \in {final, Absent} /\ \A k \in Jobs : k # j => row'[k] = row[k]
    <3> HIDE DEF final
    <3>1. row' = [row EXCEPT ![j] = Absent] \/ row' = [row EXCEPT ![j] = final]
      BY <1>19 DEF Sent, Forget, final
    <3>2. QED
      BY <3>1
  <2>3. worker'[j] = "none" /\ mem'[j] = Absent /\ \A k \in Jobs : k # j => worker'[k] = worker[k] /\ mem'[k] = mem[k]
    BY <1>19 DEF Sent, Reaps
  <2>4. UNCHANGED <<born, inserts, phase, dials>>
    BY <1>19 DEF Sent
  <2> HIDE DEF final
  <2>5. worker[j] # "none"
    BY <1>19 DEF Sent
  <2>6. Rows' /\ Births'
    BY <2>1, <2>2, <2>3, <2>4, <2>5
  <2>7. Works'
    BY <2>1, <2>2, <2>3, <2>4, <2>5
  <2>8. \A k \in Jobs : row'[k].kind = "Queued" => row[k].kind = "Queued"
    <3>1. final.kind # "Queued"
      BY ONLY <2>1 DEF FinishedKinds
    <3>2. Absent.kind # "Queued"
      OBVIOUS
    <3>3. row'[j].kind # "Queued"
      BY ONLY <2>2, <3>1, <3>2
    <3>4. QED
      BY ONLY <2>2, <3>3
  <2>9. Calls'
    BY <2>3, <2>4, <2>8
  <2>10. Order'
    BY <2>3, <2>4, <2>8
  <2>11. QED
    BY <2>6, <2>7, <2>9, <2>10
<1>20. ASSUME NEW j \in Jobs, SentFails(j) PROVE Inv'
  BY <1>20 DEF SentFails, Reaps
<1>21. ASSUME NEW j \in Jobs, PanicStops(j) PROVE Inv'
  BY <1>21 DEF PanicStops
<1>22. ASSUME NEW w \in Waiters, NEW j \in Jobs, WaitJob(w, j) PROVE Inv'
  BY <1>22 DEF WaitJob
<1>23. ASSUME NEW w \in Waiters, AnswerWaiter(w) PROVE Inv'
  BY <1>23 DEF AnswerWaiter
<1>24. ASSUME NEW w \in Waiters, WaiterRefused(w) PROVE Inv'
  BY <1>24 DEF WaiterRefused
<1>25. CASE Crash
  BY <1>25 DEF Crash
<1>26. CASE Reopen
  BY <1>26 DEF Reopen
<1>27. ASSUME NEW j \in Jobs, Recover(j) PROVE Inv'
  BY <1>27 DEF Recover
<1>28. CASE Opened
  BY <1>28 DEF Opened
<1>29. CASE UNCHANGED vars
  BY <1>29 DEF vars
<1>30. QED
  BY <1>1, <1>2, <1>3, <1>4, <1>5, <1>6, <1>7, <1>8, <1>9, <1>10, <1>11, <1>12, <1>13,
       <1>14, <1>15, <1>16, <1>17, <1>18, <1>19, <1>20, <1>21, <1>22, <1>23, <1>24, <1>25,
       <1>26, <1>27, <1>28, <1>29, NextIsActions DEF Actions
(* The invariant holds in every reachable state. *)
LEMMA Invariant == Spec => []Inv
<1>1. Init => Inv
  BY DEF Init, Inv, Rows, Births, Works, Calls, Order, NoJob, Absent, JobState
<1>2. QED
  BY <1>1, InvStep, TypeStep, TypeCorrect, PTL DEF Spec

(* No fax is ever transmitted twice, whatever crashes, restarts, store     *)
(* errors and lost workers occur.                                          *)
THEOREM CalledAtMostOnce == Spec => []AtMostOneCall
<1>1. Inv => AtMostOneCall
  BY DEF Inv, Calls, AtMostOneCall
<1>2. QED
  BY <1>1, Invariant, PTL

(* The queue is served in the order in which its jobs were accepted.       *)
THEOREM ServedInOrder == Spec => []OldestFirst
<1>1. Inv => OldestFirst
  BY DEF Inv, Order, OldestFirst
<1>2. QED
  BY <1>1, Invariant, PTL

-----------------------------------------------------------------------------
(* A finished row stays as it is or is removed. *)
Final == \A j \in Jobs : IsFinished(row[j]) => row'[j] \in {row[j], Absent}

(* No job moves back in its life, and only a worker that dials makes a call. *)
Dials == UNCHANGED dials \/ \E j \in Jobs : WorkerDials(j)
Forward == \A j \in Jobs : Life(j)' \in Lifecycle!Follows(Life(j))

(* No action rewrites a finished row. *)
LEMMA FinalStep == TypeOK /\ Inv /\ [Next]_vars => [Final]_vars
<1> SUFFICES ASSUME TypeOK, Inv, [Next]_vars PROVE Final
  OBVIOUS
<1> USE DEF TypeOK, Inv, Rows, Works, Final, Absent, IsActive, IsFinished, JobState,
     Handles, Record, NoJob, Active, durable, Queued
<1>1. ASSUME NEW j \in Jobs, Enqueue(j) PROVE Final
  BY <1>1 DEF Enqueue, Insert
<1>2. ASSUME NEW j \in Jobs, NEW previous \in Jobs, Retry(j, previous) PROVE Final
  BY <1>2 DEF Retry, Insert
<1>3. ASSUME NEW j \in Jobs, CancelActive(j) PROVE Final
  BY <1>3 DEF CancelActive
<1>4. ASSUME NEW j \in Jobs, CancelQueued(j) PROVE Final
  BY <1>4 DEF CancelQueued
<1>5. CASE ClearQueue
  BY <1>5 DEF ClearQueue, ActiveRows
<1>6. CASE ClearQueueFails
  BY <1>6 DEF ClearQueueFails
<1>7. CASE Stop
  BY <1>7 DEF Stop
<1>8. ASSUME NEW j \in Jobs, StartSend(j) PROVE Final
  BY <1>8 DEF StartSend, IsNext
<1>9. ASSUME NEW j \in Jobs, SpawnFails(j) PROVE Final
  BY <1>9 DEF SpawnFails, IsNext
<1>10. CASE ClaimFails
  BY <1>10 DEF ClaimFails
<1>11. CASE Filled
  BY <1>11 DEF Filled, NoneWorking
<1>12. ASSUME NEW j \in Jobs, WorkerGivesUp(j) PROVE Final
  BY <1>12 DEF WorkerGivesUp, Ends
<1>13. ASSUME NEW j \in Jobs, WorkerDials(j) PROVE Final
  BY <1>13 DEF WorkerDials
<1>14. ASSUME NEW j \in Jobs, WorkerReports(j) PROVE Final
  BY <1>14 DEF WorkerReports
<1>15. ASSUME NEW j \in Jobs, WorkerEnds(j) PROVE Final
  BY <1>15 DEF WorkerEnds, Ends
<1>16. ASSUME NEW j \in Jobs, WorkerPanics(j) PROVE Final
  BY <1>16 DEF WorkerPanics, Ends
<1>17. ASSUME NEW j \in Jobs, NEW changed \in BOOLEAN, Progress(j, changed) PROVE Final
  BY <1>17 DEF Progress, Notes, Acks
<1>18. ASSUME NEW j \in Jobs, ProgressFails(j) PROVE Final
  BY <1>18 DEF ProgressFails, Acks
<1>19. ASSUME NEW j \in Jobs, Sent(j) PROVE Final
  BY <1>19 DEF Sent, Reaps, Forget
<1>20. ASSUME NEW j \in Jobs, SentFails(j) PROVE Final
  BY <1>20 DEF SentFails, Reaps
<1>21. ASSUME NEW j \in Jobs, PanicStops(j) PROVE Final
  BY <1>21 DEF PanicStops
<1>22. ASSUME NEW w \in Waiters, NEW j \in Jobs, WaitJob(w, j) PROVE Final
  BY <1>22 DEF WaitJob
<1>23. ASSUME NEW w \in Waiters, AnswerWaiter(w) PROVE Final
  BY <1>23 DEF AnswerWaiter
<1>24. ASSUME NEW w \in Waiters, WaiterRefused(w) PROVE Final
  BY <1>24 DEF WaiterRefused
<1>25. CASE Crash
  BY <1>25 DEF Crash
<1>26. CASE Reopen
  BY <1>26 DEF Reopen
<1>27. ASSUME NEW j \in Jobs, Recover(j) PROVE Final
  BY <1>27 DEF Recover
<1>28. CASE Opened
  BY <1>28 DEF Opened
<1>29. CASE UNCHANGED vars
  BY <1>29 DEF vars
<1>30. QED
  BY <1>1, <1>2, <1>3, <1>4, <1>5, <1>6, <1>7, <1>8, <1>9, <1>10, <1>11, <1>12, <1>13,
       <1>14, <1>15, <1>16, <1>17, <1>18, <1>19, <1>20, <1>21, <1>22, <1>23, <1>24, <1>25,
       <1>26, <1>27, <1>28, <1>29, NextIsActions DEF Actions

(* How a fax ended is never rewritten by a late report, request or recovery. *)
THEOREM FinishedStays == Spec => FinishedIsFinal
<1>1. TypeOK /\ Inv /\ [Next]_vars => [\A j \in Jobs : IsFinished(row[j]) => row'[j] \in {row[j], Absent}]_vars
  BY FinalStep DEF Final
<1>2. QED
  BY <1>1, Invariant, TypeCorrect, PTL DEF Spec, FinishedIsFinal

(* Every action moves every job forward in its life, or leaves it.         *)
LEMMA ForwardStep == TypeOK /\ TypeOK' /\ Inv /\ Inv' /\ [Next]_vars => Forward /\ Dials
<1> SUFFICES ASSUME TypeOK, TypeOK', Inv, Inv', [Next]_vars PROVE Forward /\ Dials
  OBVIOUS
<1> USE DEF TypeOK, Inv, Rows, Works, Forward, Dials, Life, Lifecycle!Follows, Absent,
     IsActive, IsFinished, JobState, Handles, Record, NoJob, Active, durable, history,
     Queued
<1>1. ASSUME NEW j \in Jobs, Enqueue(j) PROVE Forward /\ Dials
  BY <1>1 DEF Enqueue, Insert
<1>2. ASSUME NEW j \in Jobs, NEW previous \in Jobs, Retry(j, previous) PROVE Forward /\ Dials
  BY <1>2 DEF Retry, Insert
<1>3. ASSUME NEW j \in Jobs, CancelActive(j) PROVE Forward /\ Dials
  BY <1>3 DEF CancelActive
<1>4. ASSUME NEW j \in Jobs, CancelQueued(j) PROVE Forward /\ Dials
  BY <1>4 DEF CancelQueued
<1>5. CASE ClearQueue
  BY <1>5 DEF ClearQueue, ActiveRows
<1>6. CASE ClearQueueFails
  BY <1>6 DEF ClearQueueFails
<1>7. CASE Stop
  BY <1>7 DEF Stop
<1>8. ASSUME NEW j \in Jobs, StartSend(j) PROVE Forward /\ Dials
  BY <1>8 DEF StartSend, IsNext
<1>9. ASSUME NEW j \in Jobs, SpawnFails(j) PROVE Forward /\ Dials
  BY <1>9 DEF SpawnFails, IsNext
<1>10. CASE ClaimFails
  BY <1>10 DEF ClaimFails
<1>11. CASE Filled
  BY <1>11 DEF Filled, NoneWorking
<1>12. ASSUME NEW j \in Jobs, WorkerGivesUp(j) PROVE Forward /\ Dials
  BY <1>12 DEF WorkerGivesUp, Ends
<1>13. ASSUME NEW j \in Jobs, WorkerDials(j) PROVE Forward /\ Dials
  BY <1>13 DEF WorkerDials
<1>14. ASSUME NEW j \in Jobs, WorkerReports(j) PROVE Forward /\ Dials
  BY <1>14 DEF WorkerReports
<1>15. ASSUME NEW j \in Jobs, WorkerEnds(j) PROVE Forward /\ Dials
  BY <1>15 DEF WorkerEnds, Ends
<1>16. ASSUME NEW j \in Jobs, WorkerPanics(j) PROVE Forward /\ Dials
  BY <1>16 DEF WorkerPanics, Ends
<1>17. ASSUME NEW j \in Jobs, NEW changed \in BOOLEAN, Progress(j, changed) PROVE Forward /\ Dials
  BY <1>17 DEF Progress, Notes, Acks
<1>18. ASSUME NEW j \in Jobs, ProgressFails(j) PROVE Forward /\ Dials
  BY <1>18 DEF ProgressFails, Acks
<1>19. ASSUME NEW j \in Jobs, Sent(j) PROVE Forward /\ Dials
  <2>1. Ended(mem[j], mail[j], phase = "Stopping") \in [kind : FinishedKinds, acked : 0 .. MaxCount]
    BY EndedType
  <2>2. /\ row' = [row EXCEPT ![j] = Absent] \/ row' = [row EXCEPT ![j] = Ended(mem[j], mail[j], phase = "Stopping")]
        /\ UNCHANGED <<born, dials>>
        /\ worker[j] # "none"
    BY <1>19 DEF Sent, Forget
  <2>3. PICK state \in {Absent} \cup [kind : FinishedKinds, acked : 0 .. MaxCount] : row' = [row EXCEPT ![j] = state]
    BY <2>1, <2>2
  <2>4. QED
    BY <2>2, <2>3
<1>20. ASSUME NEW j \in Jobs, SentFails(j) PROVE Forward /\ Dials
  BY <1>20 DEF SentFails, Reaps
<1>21. ASSUME NEW j \in Jobs, PanicStops(j) PROVE Forward /\ Dials
  BY <1>21 DEF PanicStops
<1>22. ASSUME NEW w \in Waiters, NEW j \in Jobs, WaitJob(w, j) PROVE Forward /\ Dials
  BY <1>22 DEF WaitJob
<1>23. ASSUME NEW w \in Waiters, AnswerWaiter(w) PROVE Forward /\ Dials
  BY <1>23 DEF AnswerWaiter
<1>24. ASSUME NEW w \in Waiters, WaiterRefused(w) PROVE Forward /\ Dials
  BY <1>24 DEF WaiterRefused
<1>25. CASE Crash
  BY <1>25 DEF Crash
<1>26. CASE Reopen
  BY <1>26 DEF Reopen
<1>27. ASSUME NEW j \in Jobs, Recover(j) PROVE Forward /\ Dials
  BY <1>27 DEF Recover
<1>28. CASE Opened
  BY <1>28 DEF Opened
<1>29. CASE UNCHANGED vars
  BY <1>29 DEF vars
<1> HIDE DEF Forward, Dials
<1>30. QED
  BY <1>1, <1>2, <1>3, <1>4, <1>5, <1>6, <1>7, <1>8, <1>9, <1>10, <1>11, <1>12, <1>13,
       <1>14, <1>15, <1>16, <1>17, <1>18, <1>19, <1>20, <1>21, <1>22, <1>23, <1>24, <1>25,
       <1>26, <1>27, <1>28, <1>29, NextIsActions DEF Actions

(* The queue, its crashes and its recoveries implement the life of a job:  *)
(* queued once, never back, called at most once and only while active.     *)
THEOREM QueueImplementsLifecycle == Spec => ImplementsLifecycle
<1>1. Init => Lifecycle!Init
  BY DEF Init, Lifecycle!Init, NoJob, Life
<1>2. TypeOK /\ TypeOK' /\ Inv /\ Inv' /\ [Next]_vars => [Lifecycle!Next]_<<[j \in Jobs |-> Life(j)], dials>>
  <2> SUFFICES ASSUME TypeOK, TypeOK', Inv, Inv', [Next]_vars
               PROVE  Lifecycle!Next \/ UNCHANGED <<[j \in Jobs |-> Life(j)], dials>>
    OBVIOUS
  <2>1. Forward /\ Dials
    BY ForwardStep
  <2>2. [j \in Jobs |-> Life(j)]' \in [Jobs -> Lifecycle!Lives]
    BY DEF Life, Lifecycle!Lives
  <2>3. CASE UNCHANGED dials
    BY <2>1, <2>2, <2>3 DEF Forward, Lifecycle!Next, Lifecycle!Move
  <2>4. ASSUME NEW j \in Jobs, WorkerDials(j) PROVE Lifecycle!Next
    <3>1. Life(j) = "active" /\ dials[j] = 0
      BY <2>4 DEF WorkerDials, Life, Inv, Works, Calls, Rows, IsActive, Absent, JobState
    <3>2. dials' = [dials EXCEPT ![j] = 1]
      BY <2>4, <3>1 DEF WorkerDials, TypeOK
    <3>3. \A i \in Jobs : Life(i)' = Life(i)
      BY <2>4 DEF WorkerDials, Life, durable, IsActive
    <3>4. Lifecycle!Call(j)
      BY <3>1, <3>2, <3>3 DEF Lifecycle!Call
    <3>5. QED
      BY <3>4 DEF Lifecycle!Next
  <2>5. QED
    BY <2>1, <2>3, <2>4 DEF Dials
<1>3. QED
  BY <1>1, <1>2, Invariant, TypeCorrect, PTL DEF Spec, ImplementsLifecycle, Lifecycle!Spec
-----------------------------------------------------------------------------
(* The phases in which the actor's view exists.                            *)
Alive == {"Running", "Stopping", "Stopped"}
(* While no fault has happened, the three records of what is in            *)
(* transmission are one, and the view is the table without the jobs that   *)
(* are being cleared.                                                      *)
Mirror ==
    /\ \A j \in Jobs : mail[j].what = "panic" => faults # 0
    /\ \A j \in Jobs : mem[j].kind = "Absent" => mem[j] = Absent
    /\ phase \in {"Opening", "Down"} => mem = NoJob /\ clearing = {}
    /\ faults = 0 => clearing \subseteq Active
    /\ faults = 0 => \A j \in Jobs :
          /\ j \in Active => worker[j] # "none"
          /\ phase \in Alive /\ IsActive(row[j]) => j \in Active
          /\ phase \in Alive => view[j] = IF j \in clearing THEN Absent ELSE row[j]
          /\ j \in Active \ clearing => mem[j] = row[j]

(* Every action keeps the records in agreement. *)
LEMMA MirrorStep == TypeOK /\ TypeOK' /\ Inv /\ Inv' /\ Mirror /\ [Next]_vars => Mirror'
<1> SUFFICES ASSUME TypeOK, TypeOK', Inv, Inv', Mirror, [Next]_vars PROVE Mirror'
  OBVIOUS
<1> USE DEF TypeOK, Inv, Rows, Works, Mirror, Alive, Absent, IsActive, JobState, Handles,
     Fault, Record, Publish, NoJob, Active, Idle, durable, actor, workers, waiting, history,
     Queued
<1>1. ASSUME NEW j \in Jobs, Enqueue(j) PROVE Mirror'
  BY <1>1 DEF Enqueue, Insert
<1>2. ASSUME NEW j \in Jobs, NEW previous \in Jobs, Retry(j, previous) PROVE Mirror'
  BY <1>2 DEF Retry, Insert
<1>3. ASSUME NEW j \in Jobs, CancelActive(j) PROVE Mirror'
  BY <1>3 DEF CancelActive
<1>4. ASSUME NEW j \in Jobs, CancelQueued(j) PROVE Mirror'
  BY <1>4 DEF CancelQueued
<1>5. CASE ClearQueue
  BY <1>5 DEF ClearQueue, ActiveRows
<1>6. CASE ClearQueueFails
  BY <1>6 DEF ClearQueueFails
<1>7. CASE Stop
  BY <1>7 DEF Stop
<1>8. ASSUME NEW j \in Jobs, StartSend(j) PROVE Mirror'
  BY <1>8 DEF StartSend, IsNext
<1>9. ASSUME NEW j \in Jobs, SpawnFails(j) PROVE Mirror'
  BY <1>9 DEF SpawnFails, IsNext
<1>10. CASE ClaimFails
  BY <1>10 DEF ClaimFails
<1>11. CASE Filled
  BY <1>11 DEF Filled, NoneWorking
<1>12. ASSUME NEW j \in Jobs, WorkerGivesUp(j) PROVE Mirror'
  <2>1. /\ \E letter \in Mail : letter.what # "panic" /\ mail' = [mail EXCEPT ![j] = letter]
        /\ worker' = [worker EXCEPT ![j] = "ended"]
        /\ UNCHANGED <<row, view, mem, clearing, phase, faults>>
    <3>1. Letter("error", 0) \in Mail /\ Letter("cancelled", 0) \in Mail
      BY DEF Letter, Mail
    <3>2. QED
      BY <1>12, <3>1 DEF WorkerGivesUp, Ends, Letter
  <2>2. QED
    BY <2>1
<1>13. ASSUME NEW j \in Jobs, WorkerDials(j) PROVE Mirror'
  BY <1>13 DEF WorkerDials
<1>14. ASSUME NEW j \in Jobs, WorkerReports(j) PROVE Mirror'
  BY <1>14 DEF WorkerReports, Letter
<1>15. ASSUME NEW j \in Jobs, WorkerEnds(j) PROVE Mirror'
  BY <1>15 DEF WorkerEnds, Ends, Letter
<1>16. ASSUME NEW j \in Jobs, WorkerPanics(j) PROVE Mirror'
  BY <1>16 DEF WorkerPanics, Ends
<1>17. ASSUME NEW j \in Jobs, NEW changed \in BOOLEAN, Progress(j, changed) PROVE Mirror'
  <2> DEFINE next == Advanced(mem[j], mail[j])
  <2>1. next \in Claim /\ IsActive(next) /\ worker[j] # "none"
    BY <1>17, AdvancedType, AdvancedActive DEF Progress
  <2>2. mail[j].what = "activity" => next = mem[j]
    BY DEF Advanced
  <2>3. /\ mem' = [mem EXCEPT ![j] = next]
        /\ mail' = [mail EXCEPT ![j] = NoMail]
        /\ worker' = [worker EXCEPT ![j] = "calling"]
        /\ UNCHANGED <<phase, clearing, faults>>
        /\ phase \in Alive
    BY <1>17 DEF Progress, Acks
  <2>4. \/ UNCHANGED <<row, view>> /\ (j \in clearing \/ next = mem[j])
        \/ row' = row /\ view' = [view EXCEPT ![j] = next] /\ j \notin clearing /\ next = mem[j]
        \/ row' = [row EXCEPT ![j] = next] /\ view' = [view EXCEPT ![j] = next] /\ j \notin clearing
    BY <1>17, <2>2 DEF Progress, Notes
  <2> HIDE DEF next
  <2>5. QED
    BY <2>1, <2>3, <2>4 DEF NoMail, Letter
<1>18. ASSUME NEW j \in Jobs, ProgressFails(j) PROVE Mirror'
  BY <1>18 DEF ProgressFails, Acks
<1>19. ASSUME NEW j \in Jobs, Sent(j) PROVE Mirror'
  <2> DEFINE final == Ended(mem[j], mail[j], phase = "Stopping")
  <2>1. final \in [kind : FinishedKinds, acked : 0 .. MaxCount]
    BY EndedType
  <2>2. /\ mem' = [mem EXCEPT ![j] = Absent]
        /\ mail' = [mail EXCEPT ![j] = NoMail]
        /\ worker' = [worker EXCEPT ![j] = "none"]
        /\ clearing' = clearing \ {j}
        /\ UNCHANGED <<phase, faults>>
        /\ phase \in Alive
    BY <1>19 DEF Sent, Reaps
  <2>3. \/ row' = [row EXCEPT ![j] = Absent] /\ view' = view /\ j \in clearing
        \/ row' = [row EXCEPT ![j] = final] /\ view' = [view EXCEPT ![j] = final] /\ j \notin clearing
    BY <1>19 DEF Sent, Forget
  <2> HIDE DEF final
  <2>4. QED
    BY <2>1, <2>2, <2>3 DEF NoMail, Letter
<1>20. ASSUME NEW j \in Jobs, SentFails(j) PROVE Mirror'
  BY <1>20 DEF SentFails, Reaps
<1>21. ASSUME NEW j \in Jobs, PanicStops(j) PROVE Mirror'
  BY <1>21 DEF PanicStops
<1>22. ASSUME NEW w \in Waiters, NEW j \in Jobs, WaitJob(w, j) PROVE Mirror'
  BY <1>22 DEF WaitJob
<1>23. ASSUME NEW w \in Waiters, AnswerWaiter(w) PROVE Mirror'
  BY <1>23 DEF AnswerWaiter
<1>24. ASSUME NEW w \in Waiters, WaiterRefused(w) PROVE Mirror'
  BY <1>24 DEF WaiterRefused
<1>25. CASE Crash
  BY <1>25 DEF Crash, NoMail, Letter
<1>26. CASE Reopen
  BY <1>26 DEF Reopen
<1>27. ASSUME NEW j \in Jobs, Recover(j) PROVE Mirror'
  BY <1>27 DEF Recover
<1>28. CASE Opened
  BY <1>28 DEF Opened
<1>29. CASE UNCHANGED vars
  BY <1>29 DEF vars
<1> HIDE DEF Mirror
<1>30. QED
  BY <1>1, <1>2, <1>3, <1>4, <1>5, <1>6, <1>7, <1>8, <1>9, <1>10, <1>11, <1>12, <1>13,
       <1>14, <1>15, <1>16, <1>17, <1>18, <1>19, <1>20, <1>21, <1>22, <1>23, <1>24, <1>25,
       <1>26, <1>27, <1>28, <1>29, NextIsActions DEF Actions

(* The records agree in every reachable state. *)
LEMMA MirrorInvariant == Spec => []Mirror
<1>1. Init => Mirror
  BY DEF Init, Mirror, NoJob, NoMail, Letter, Alive, Active, Absent, JobState
<1>2. QED
  BY <1>1, MirrorStep, InvStep, TypeStep, Invariant, TypeCorrect, PTL DEF Spec

(* Without a fault, the active rows, the actor's map and the live workers  *)
(* always name the same jobs.                                              *)
THEOREM ClaimsAlwaysAgree == Spec => []ClaimsAgree
<1>1. TypeOK /\ Inv /\ Mirror => ClaimsAgree
  BY DEF TypeOK, Inv, Works, Mirror, Alive, ClaimsAgree, Active, IsActive, Absent, JobState
<1>2. QED
  BY <1>1, Invariant, MirrorInvariant, TypeCorrect, PTL

(* Without a fault, observers see what a restart would find.               *)
THEOREM ViewMirrorsStore == Spec => []ViewIsStore
<1>1. Mirror => ViewIsStore
  BY DEF Mirror, Alive, ViewIsStore
<1>2. QED
  BY <1>1, MirrorInvariant, PTL

(* Without a fault, a stopped engine leaves no active row and no worker.   *)
THEOREM CleanStop == Spec => []StopIsClean
<1>1. TypeOK /\ Inv /\ Mirror => StopIsClean
  BY DEF TypeOK, Inv, Works, Mirror, Alive, StopIsClean, Active
<1>2. QED
  BY <1>1, Invariant, MirrorInvariant, TypeCorrect, PTL

-----------------------------------------------------------------------------
(* Before a restart, a job removed by a clear is not shown, will not be    *)
(* started, and its worker, if it has one, works for a job being cleared.  *)
Cleared ==
    restarts = 0 =>
    /\ phase = "Opening" => gone = {}
    /\ \A j \in gone :
          /\ born[j] # 0
          /\ row[j].kind # "Queued"
          /\ view[j] = Absent
          /\ worker[j] # "none" => j \in clearing

(* Every action of one run of the process keeps cleared jobs cleared. *)
LEMMA ClearedStep == TypeOK /\ TypeOK' /\ Inv /\ Inv' /\ Cleared /\ [Next]_vars => Cleared'
<1> SUFFICES ASSUME TypeOK, TypeOK', Inv, Inv', Cleared, [Next]_vars PROVE Cleared'
  OBVIOUS
<1> USE DEF TypeOK, Inv, Rows, Works, Cleared, Absent, IsActive, JobState, Handles, Fault,
     Record, Publish, NoJob, Active, Idle, durable, actor, workers, waiting, history, Queued
<1>1. ASSUME NEW j \in Jobs, Enqueue(j) PROVE Cleared'
  BY <1>1 DEF Enqueue, Insert
<1>2. ASSUME NEW j \in Jobs, NEW previous \in Jobs, Retry(j, previous) PROVE Cleared'
  BY <1>2 DEF Retry, Insert
<1>3. ASSUME NEW j \in Jobs, CancelActive(j) PROVE Cleared'
  BY <1>3 DEF CancelActive
<1>4. ASSUME NEW j \in Jobs, CancelQueued(j) PROVE Cleared'
  BY <1>4 DEF CancelQueued
<1>5. CASE ClearQueue
  BY <1>5 DEF ClearQueue, ActiveRows
<1>6. CASE ClearQueueFails
  BY <1>6 DEF ClearQueueFails
<1>7. CASE Stop
  BY <1>7 DEF Stop
<1>8. ASSUME NEW j \in Jobs, StartSend(j) PROVE Cleared'
  BY <1>8 DEF StartSend, IsNext
<1>9. ASSUME NEW j \in Jobs, SpawnFails(j) PROVE Cleared'
  BY <1>9 DEF SpawnFails, IsNext
<1>10. CASE ClaimFails
  BY <1>10 DEF ClaimFails
<1>11. CASE Filled
  BY <1>11 DEF Filled, NoneWorking
<1>12. ASSUME NEW j \in Jobs, WorkerGivesUp(j) PROVE Cleared'
  BY <1>12 DEF WorkerGivesUp, Ends
<1>13. ASSUME NEW j \in Jobs, WorkerDials(j) PROVE Cleared'
  BY <1>13 DEF WorkerDials
<1>14. ASSUME NEW j \in Jobs, WorkerReports(j) PROVE Cleared'
  BY <1>14 DEF WorkerReports
<1>15. ASSUME NEW j \in Jobs, WorkerEnds(j) PROVE Cleared'
  BY <1>15 DEF WorkerEnds, Ends
<1>16. ASSUME NEW j \in Jobs, WorkerPanics(j) PROVE Cleared'
  BY <1>16 DEF WorkerPanics, Ends
<1>17. ASSUME NEW j \in Jobs, NEW changed \in BOOLEAN, Progress(j, changed) PROVE Cleared'
  BY <1>17 DEF Progress, Notes, Acks
<1>18. ASSUME NEW j \in Jobs, ProgressFails(j) PROVE Cleared'
  BY <1>18 DEF ProgressFails, Acks
<1>19. ASSUME NEW j \in Jobs, Sent(j) PROVE Cleared'
  BY <1>19 DEF Sent, Reaps, Forget
<1>20. ASSUME NEW j \in Jobs, SentFails(j) PROVE Cleared'
  BY <1>20 DEF SentFails, Reaps
<1>21. ASSUME NEW j \in Jobs, PanicStops(j) PROVE Cleared'
  BY <1>21 DEF PanicStops
<1>22. ASSUME NEW w \in Waiters, NEW j \in Jobs, WaitJob(w, j) PROVE Cleared'
  BY <1>22 DEF WaitJob
<1>23. ASSUME NEW w \in Waiters, AnswerWaiter(w) PROVE Cleared'
  BY <1>23 DEF AnswerWaiter
<1>24. ASSUME NEW w \in Waiters, WaiterRefused(w) PROVE Cleared'
  BY <1>24 DEF WaiterRefused
<1>25. CASE Crash
  BY <1>25 DEF Crash
<1>26. CASE Reopen
  BY <1>26 DEF Reopen
<1>27. ASSUME NEW j \in Jobs, Recover(j) PROVE Cleared'
  BY <1>27 DEF Recover
<1>28. CASE Opened
  BY <1>28 DEF Opened
<1>29. CASE UNCHANGED vars
  BY <1>29 DEF vars
<1>30. QED
  BY <1>1, <1>2, <1>3, <1>4, <1>5, <1>6, <1>7, <1>8, <1>9, <1>10, <1>11, <1>12, <1>13,
       <1>14, <1>15, <1>16, <1>17, <1>18, <1>19, <1>20, <1>21, <1>22, <1>23, <1>24, <1>25,
       <1>26, <1>27, <1>28, <1>29, NextIsActions DEF Actions

(* Until the process is restarted, a cleared job never comes back to the   *)
(* view.  (After a restart it may: the run queue_clear_crash.)             *)
THEOREM ClearedStaysCleared == Spec => []ClearedStays
<1>1. Init => Cleared
  BY DEF Init, Cleared
<1>2. TypeOK /\ TypeOK' /\ Inv /\ Inv' /\ Cleared /\ [Next]_vars => Cleared'
  BY ClearedStep
<1>3. Cleared => ClearedStays
  BY DEF Cleared, ClearedStays, NotResurrected
<1>4. QED
  BY <1>1, <1>2, <1>3, Invariant, TypeCorrect, PTL DEF Spec

-----------------------------------------------------------------------------
(* Pages a call has acknowledged are lost only to an interruption or to a receipt. *)
Kept ==
    \A j \in Jobs :
        mem[j].acked > 0 /\ row'[j] # row[j] /\ row'[j].kind # "Interrupted"
        /\ ~(worker[j] = "ended" /\ mail[j].what = "ok")
        => row'[j] = Absent \/ row'[j].acked >= mem[j].acked

(* No action takes acknowledged pages back. *)
LEMMA KeptStep == TypeOK /\ TypeOK' /\ Inv /\ [Next]_vars => Kept
<1> SUFFICES ASSUME TypeOK, TypeOK', Inv, [Next]_vars PROVE Kept
  OBVIOUS
<1> USE DEF TypeOK, Inv, Rows, Works, Kept, Absent, IsActive, IsFinished, JobState, Handles,
     Record, NoJob, Active, durable, history, Queued
<1>1. ASSUME NEW j \in Jobs, Enqueue(j) PROVE Kept
  BY <1>1 DEF Enqueue, Insert
<1>2. ASSUME NEW j \in Jobs, NEW previous \in Jobs, Retry(j, previous) PROVE Kept
  BY <1>2 DEF Retry, Insert
<1>3. ASSUME NEW j \in Jobs, CancelActive(j) PROVE Kept
  BY <1>3 DEF CancelActive
<1>4. ASSUME NEW j \in Jobs, CancelQueued(j) PROVE Kept
  BY <1>4 DEF CancelQueued
<1>5. CASE ClearQueue
  BY <1>5 DEF ClearQueue, ActiveRows
<1>6. CASE ClearQueueFails
  BY <1>6 DEF ClearQueueFails
<1>7. CASE Stop
  BY <1>7 DEF Stop
<1>8. ASSUME NEW j \in Jobs, StartSend(j) PROVE Kept
  BY <1>8 DEF StartSend, IsNext
<1>9. ASSUME NEW j \in Jobs, SpawnFails(j) PROVE Kept
  BY <1>9 DEF SpawnFails, IsNext
<1>10. CASE ClaimFails
  BY <1>10 DEF ClaimFails
<1>11. CASE Filled
  BY <1>11 DEF Filled, NoneWorking
<1>12. ASSUME NEW j \in Jobs, WorkerGivesUp(j) PROVE Kept
  BY <1>12 DEF WorkerGivesUp, Ends
<1>13. ASSUME NEW j \in Jobs, WorkerDials(j) PROVE Kept
  BY <1>13 DEF WorkerDials
<1>14. ASSUME NEW j \in Jobs, WorkerReports(j) PROVE Kept
  BY <1>14 DEF WorkerReports
<1>15. ASSUME NEW j \in Jobs, WorkerEnds(j) PROVE Kept
  BY <1>15 DEF WorkerEnds, Ends
<1>16. ASSUME NEW j \in Jobs, WorkerPanics(j) PROVE Kept
  BY <1>16 DEF WorkerPanics, Ends
<1>17. ASSUME NEW j \in Jobs, NEW changed \in BOOLEAN, Progress(j, changed) PROVE Kept
  <2> DEFINE next == Advanced(mem[j], mail[j])
  <2>1. next \in Claim /\ (IsActive(mem[j]) => next.acked >= mem[j].acked)
    BY AdvancedType, AdvancedActive
  <2>2. IsActive(mem[j]) /\ (row' = row \/ row' = [row EXCEPT ![j] = next])
    BY <1>17 DEF Progress, Notes
  <2> HIDE DEF next
  <2>3. QED
    BY <2>1, <2>2
<1>18. ASSUME NEW j \in Jobs, ProgressFails(j) PROVE Kept
  BY <1>18 DEF ProgressFails, Acks
<1>19. ASSUME NEW j \in Jobs, Sent(j) PROVE Kept
  <2> DEFINE final == Ended(mem[j], mail[j], phase = "Stopping")
  <2>1. final.acked = mem[j].acked \/ final.kind = "Interrupted" \/ mail[j].what = "ok"
    BY DEF Ended
  <2>2. /\ worker[j] = "ended"
        /\ row' = [row EXCEPT ![j] = Absent] \/ row' = [row EXCEPT ![j] = final]
    BY <1>19 DEF Sent, Forget
  <2>3. mem[j].acked \in Nat
    BY DEF Claim
  <2> HIDE DEF final
  <2>4. QED
    BY <2>1, <2>2, <2>3
<1>20. ASSUME NEW j \in Jobs, SentFails(j) PROVE Kept
  BY <1>20 DEF SentFails, Reaps
<1>21. ASSUME NEW j \in Jobs, PanicStops(j) PROVE Kept
  BY <1>21 DEF PanicStops
<1>22. ASSUME NEW w \in Waiters, NEW j \in Jobs, WaitJob(w, j) PROVE Kept
  BY <1>22 DEF WaitJob
<1>23. ASSUME NEW w \in Waiters, AnswerWaiter(w) PROVE Kept
  BY <1>23 DEF AnswerWaiter
<1>24. ASSUME NEW w \in Waiters, WaiterRefused(w) PROVE Kept
  BY <1>24 DEF WaiterRefused
<1>25. CASE Crash
  BY <1>25 DEF Crash
<1>26. CASE Reopen
  BY <1>26 DEF Reopen
<1>27. ASSUME NEW j \in Jobs, Recover(j) PROVE Kept
  BY <1>27 DEF Recover
<1>28. CASE Opened
  BY <1>28 DEF Opened
<1>29. CASE UNCHANGED vars
  BY <1>29 DEF vars
<1> HIDE DEF Kept
<1>30. QED
  BY <1>1, <1>2, <1>3, <1>4, <1>5, <1>6, <1>7, <1>8, <1>9, <1>10, <1>11, <1>12, <1>13,
       <1>14, <1>15, <1>16, <1>17, <1>18, <1>19, <1>20, <1>21, <1>22, <1>23, <1>24, <1>25,
       <1>26, <1>27, <1>28, <1>29, NextIsActions DEF Actions

(* The pages the peer acknowledged survive a failure and a cancellation.   *)
THEOREM AcknowledgedStays == Spec => AcknowledgedIsKept
<1>1. TypeOK /\ TypeOK' /\ Inv /\ [Next]_vars =>
        [\A j \in Jobs :
          mem[j].acked > 0 /\ row'[j] # row[j] /\ row'[j].kind # "Interrupted"
          /\ ~(worker[j] = "ended" /\ mail[j].what = "ok")
          => row'[j] = Absent \/ row'[j].acked >= mem[j].acked]_vars
  BY KeptStep DEF Kept
<1>2. QED
  BY <1>1, Invariant, TypeCorrect, TypeStep, PTL DEF Spec, AcknowledgedIsKept
=============================================================================
