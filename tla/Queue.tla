-------------------------------- MODULE Queue --------------------------------
(***************************************************************************)
(* The outgoing fax queue of faxe-engine: the actor thread that owns the   *)
(* view and the SQLite store, the transmit worker threads it spawns, the   *)
(* handles that wait for a job, and the crashes and restarts of the        *)
(* process between any two of their steps.                                 *)
(*                                                                         *)
(* One job identity of Jobs is one UUID.  The fields of a job that decide  *)
(* what may happen next are kept: the kind of its JobState and the number  *)
(* of acknowledged pages.  Its request, its timestamps, its list of steps  *)
(* and its byte counters are left out.                                     *)
(***************************************************************************)
EXTENDS Naturals, FiniteSets

CONSTANTS Jobs,         \* the identities jobs may be given
          Limit,        \* options.limits.outgoing
          Pages,        \* pages of the document of every job
          MaxCount,     \* bound: the largest count a modem reports (2^32 - 1 in the code)
          Waiters,      \* concurrent callers of wait_job
          MaxRestarts,  \* bound: how often the data directory is reopened
          MaxFaults     \* bound: store errors, failed spawns, worker panics

ASSUME QueueAssumption ==
    /\ IsFiniteSet(Jobs)
    /\ Limit \in Nat \ {0}
    /\ MaxCount \in Nat
    /\ Pages \in 1 .. MaxCount
    /\ MaxRestarts \in Nat
    /\ MaxFaults \in Nat

VARIABLES
    row,        \* the jobs table: durable state of each job
    born,       \* the created/rowid order of the rows, 0 before the insert
    inserts,    \* rows ever inserted: the next created/rowid
    view,       \* EngineView.jobs
    mem,        \* Actor.active: the actor's copy of each job in transmission
    cancelled,  \* active jobs whose Cancellation flag is set
    clearing,   \* Actor.clear_active
    worker,     \* where the faxe-transmit thread of each job is
    mail,       \* what that thread has sent and the actor has not handled
    phase,      \* the life of the process and of its actor
    pc,         \* the actor's place in its loop: filling slots or in select
    waiter,     \* where each caller of wait_job is, and for which job
    unseen,     \* waiters whose watch channel holds an unseen revision
    dials,      \* history: how often a job was given to FaxBackend::send
    gone,       \* history: jobs a successful clear_queue removed
    restarts, faults

durable  == <<row, born, inserts>>
actor    == <<view, mem, cancelled, clearing, pc>>
workers  == <<worker, mail>>
waiting  == <<waiter, unseen>>
history  == <<dials, gone, restarts, faults>>
vars == <<durable, actor, workers, phase, waiting, history>>

-----------------------------------------------------------------------------
(* Job states *)

ActiveKinds   == {"Connecting", "Negotiating", "Sending"}
FinishedKinds == {"Succeeded", "Failed", "Cancelled", "Interrupted"}
Kinds         == {"Absent", "Queued"} \cup ActiveKinds \cup FinishedKinds

JobState(kind, acked) == [kind |-> kind, acked |-> acked]
Absent   == JobState("Absent", 0)
IsActive(state)   == state.kind \in ActiveKinds
IsFinished(state) == state.kind \in FinishedKinds

(* What a worker reports: the kind of state a FaxStage stands for, an      *)
(* acknowledged page, transmission activity, or how the call ended.        *)
Reports  == {"Connecting", "Negotiating", "Sending", "page", "activity"}
Endings  == {"ok", "cancelled", "error", "panic"}
Letter(what, pages) == [what |-> what, pages |-> pages]
NoMail   == Letter("none", 0)

Larger(a, b) == IF a < b THEN b ELSE a

(* Mutant: every report overwrites the state, a page count included. *)
AdvancedOverwrites(state, letter) ==
    IF letter.what = "page" THEN JobState("Sending", letter.pages)
    ELSE IF letter.what \in ActiveKinds THEN JobState(letter.what, 0)
    ELSE state

(* Actor::progress: a stage moves the job only while no page is            *)
(* acknowledged, a page count only grows.                                  *)
Advanced(state, letter) ==
    IF letter.what = "page"
      THEN JobState("Sending", Larger(letter.pages, state.acked))
    ELSE IF letter.what \in ActiveKinds /\ state.acked = 0
      THEN JobState(letter.what, 0)
    ELSE state

(* Actor::sent: the state a job ends in. *)
Ended(state, letter, stopping) ==
    IF letter.what = "ok"
      THEN JobState(IF letter.pages = Pages THEN "Succeeded" ELSE "Failed", letter.pages)
    ELSE IF letter.what = "error" THEN JobState("Failed", state.acked)
    ELSE IF stopping THEN JobState("Interrupted", 0)
    ELSE JobState("Cancelled", state.acked)

-----------------------------------------------------------------------------
(* Initial state and helpers *)

NoJob == [j \in Jobs |-> Absent]
Active == {j \in Jobs : mem[j] # Absent}
Queued == {j \in Jobs : row[j].kind = "Queued"}
Idle   == [at |-> "idle"]

Init ==
    /\ row = NoJob
    /\ born = [j \in Jobs |-> 0]
    /\ inserts = 0
    /\ view = NoJob
    /\ mem = NoJob
    /\ cancelled = {}
    /\ clearing = {}
    /\ worker = [j \in Jobs |-> "none"]
    /\ mail = [j \in Jobs |-> NoMail]
    /\ phase = "Opening"
    /\ pc = "top"
    /\ waiter = [w \in Waiters |-> Idle]
    /\ unseen = {}
    /\ dials = [j \in Jobs |-> 0]
    /\ gone = {}
    /\ restarts = 0
    /\ faults = 0

Publish == unseen' = Waiters

(* A job's new state goes to its row and, by job_changed, to the view. *)
Record(j, state) ==
    /\ row' = [row EXCEPT ![j] = state]
    /\ view' = [view EXCEPT ![j] = state]
    /\ Publish

(* Mutant: the slots are filled at startup only, not after every message. *)
HandlesWithoutFill(phases) == phase \in phases /\ pc = "select" /\ UNCHANGED pc

(* The actor takes one message from select and is back at the loop's top.  *)
Handles(phases) == phase \in phases /\ pc = "select" /\ pc' = "top"

Fault == faults < MaxFaults /\ faults' = faults + 1

-----------------------------------------------------------------------------
(* Requests of handles.  After stop() the actor receives none. *)

(* The new row of Store::enqueue is the youngest, whichever call adds it. *)
Insert(j) ==
    /\ born[j] = 0
    /\ inserts' = inserts + 1
    /\ born' = [born EXCEPT ![j] = inserts']
    /\ Record(j, JobState("Queued", 0))
    /\ UNCHANGED <<mem, cancelled, clearing, workers, phase, waiter, history>>

Enqueue(j) == Handles({"Running"}) /\ Insert(j)

(* Mutant: the finished row is queued again instead of a new one. *)
RetryInPlace(j, previous) ==
    /\ Handles({"Running"})
    /\ IsFinished(row[previous])
    /\ Record(previous, JobState("Queued", 0))
    /\ UNCHANGED <<born, inserts, mem, cancelled, clearing, workers, phase, waiter, history>>

Retry(j, previous) ==
    /\ Handles({"Running"})
    /\ IsFinished(row[previous])
    /\ Insert(j)

CancelActive(j) ==
    /\ Handles({"Running"})
    /\ j \in Active
    /\ cancelled' = cancelled \cup {j}
    /\ UNCHANGED <<durable, view, mem, clearing, workers, phase, waiting, history>>

CancelQueued(j) ==
    /\ Handles({"Running"})
    /\ j \notin Active
    /\ row[j].kind = "Queued"
    /\ Record(j, JobState("Cancelled", 0))
    /\ UNCHANGED <<born, inserts, mem, cancelled, clearing, workers, phase, waiter, history>>

(* Mutant: the DELETE takes the active rows too. *)
NoRows == NoJob

(* Store::clear_queue keeps a row until its worker records the end. *)
ActiveRows == [j \in Jobs |-> IF IsActive(row[j]) THEN row[j] ELSE Absent]

ClearQueue ==
    /\ Handles({"Running"})
    /\ cancelled' = cancelled \cup Active
    /\ clearing' = clearing \cup Active
    /\ row' = ActiveRows
    /\ view' = NoJob
    /\ gone' = gone \cup {j \in Jobs : row[j] # Absent}
    /\ Publish
    /\ UNCHANGED <<born, inserts, mem, workers, phase, waiter, dials, restarts, faults>>

(* The DELETE fails after the active jobs were cancelled and marked. *)
ClearQueueFails ==
    /\ Handles({"Running"})
    /\ Fault
    /\ cancelled' = cancelled \cup Active
    /\ clearing' = clearing \cup Active
    /\ UNCHANGED <<durable, view, mem, workers, phase, waiting, dials, gone, restarts>>

Stop ==
    /\ Handles({"Running"})
    /\ phase' = "Stopping"
    /\ cancelled' = cancelled \cup Active
    /\ Publish
    /\ UNCHANGED <<durable, view, mem, clearing, workers, waiter, history>>

-----------------------------------------------------------------------------
(* The top of the loop: fill the free slots, then wait in select or end. *)

CanStart ==
    /\ phase = "Running"
    /\ Cardinality(Active) < Limit
    /\ \E j \in Jobs : view[j].kind = "Queued"
    /\ Queued # {}

(* Mutant: the youngest queued row is claimed (ORDER BY created DESC). *)
IsYoungest(j) == j \in Queued /\ \A k \in Queued : born[j] >= born[k]

(* Store::claim_next: the oldest queued row. *)
IsNext(j) == j \in Queued /\ \A k \in Queued : born[j] <= born[k]

StartSend(j) ==
    /\ pc = "top"
    /\ CanStart
    /\ IsNext(j)
    /\ Record(j, JobState("Connecting", 0))
    /\ mem' = [mem EXCEPT ![j] = JobState("Connecting", 0)]
    /\ worker' = [worker EXCEPT ![j] = "starting"]
    /\ UNCHANGED <<born, inserts, cancelled, clearing, pc, mail, phase, waiter, history>>

(* The claimed job's thread does not start: sent(Err) ends it, and the     *)
(* fill loop breaks because no slot was taken.                             *)
SpawnFails(j) ==
    /\ pc = "top"
    /\ CanStart
    /\ IsNext(j)
    /\ Fault
    /\ Record(j, JobState("Failed", 0))
    /\ pc' = "select"
    /\ UNCHANGED <<born, inserts, mem, cancelled, clearing, workers, phase, waiter, dials, gone, restarts>>

ClaimFails ==
    /\ pc = "top"
    /\ CanStart
    /\ Fault
    /\ Publish
    /\ pc' = "select"
    /\ UNCHANGED <<durable, view, mem, cancelled, clearing, workers, phase, waiter, dials, gone, restarts>>

(* Mutant: a stopping loop also waits for the queue to be empty. *)
NoneWorkingOrQueued == Queued = {} /\ \A j \in Jobs : worker[j] = "none"

(* Actor.working has come down to 0. *)
NoneWorking == \A j \in Jobs : worker[j] = "none"

(* Nothing more to start: wait in select, or leave the loop when stopping  *)
(* and no worker is left.                                                  *)
Filled ==
    /\ phase \in {"Running", "Stopping"}
    /\ pc = "top"
    /\ ~CanStart
    /\ pc' = "select"
    /\ IF phase = "Stopping" /\ NoneWorking
         THEN phase' = "Stopped" /\ Publish
         ELSE UNCHANGED <<phase, unseen>>
    /\ UNCHANGED <<durable, view, mem, cancelled, clearing, workers, waiter, history>>

-----------------------------------------------------------------------------
(* Transmit workers *)

Ends(j, letter) ==
    /\ worker' = [worker EXCEPT ![j] = "ended"]
    /\ mail' = [mail EXCEPT ![j] = letter]
    /\ UNCHANGED <<durable, actor, phase, waiting>>

(* The password is read, then the cancellation flag, then the backend runs. *)
WorkerGivesUp(j) ==
    /\ worker[j] = "starting"
    /\ \/ Ends(j, Letter("error", 0))
       \/ j \in cancelled /\ Ends(j, Letter("cancelled", 0))
    /\ UNCHANGED history

WorkerDials(j) ==
    /\ worker[j] = "starting"
    /\ j \notin cancelled
    /\ worker' = [worker EXCEPT ![j] = "calling"]
    /\ dials' = [dials EXCEPT ![j] = @ + 1]
    /\ UNCHANGED <<durable, actor, mail, phase, waiting, gone, restarts, faults>>

(* The progress callback: post a message and block until the actor acks.   *)
(* Any count is reported, one above the pages of the document too.         *)
WorkerReports(j) ==
    /\ worker[j] = "calling"
    /\ worker' = [worker EXCEPT ![j] = "waiting"]
    /\ \E what \in Reports, n \in 0 .. MaxCount :
          mail' = [mail EXCEPT ![j] = Letter(what, IF what = "page" THEN n ELSE 0)]
    /\ UNCHANGED <<durable, actor, phase, waiting, history>>

(* A backend also ends calls as cancelled that nobody cancelled: the       *)
(* teardown of the service loop answers so what it had not sent.           *)
WorkerEnds(j) ==
    /\ worker[j] = "calling"
    /\ \/ Ends(j, Letter("error", 0))
       \/ Ends(j, Letter("cancelled", 0))
       \/ \E n \in 0 .. MaxCount : Ends(j, Letter("ok", n))
    /\ UNCHANGED history

WorkerPanics(j) ==
    /\ worker[j] \in {"starting", "calling"}
    /\ Fault
    /\ Ends(j, Letter("panic", 0))
    /\ UNCHANGED <<dials, gone, restarts>>

-----------------------------------------------------------------------------
(* Completions handled by the actor *)

Acks(j) ==
    /\ worker' = [worker EXCEPT ![j] = "calling"]
    /\ mail' = [mail EXCEPT ![j] = NoMail]

(* Mutant: a job that is being cleared is shown again by its progress. *)
NotesCleared(j, state) ==
    IF mail[j].what = "activity"
      THEN view' = [view EXCEPT ![j] = state] /\ Publish /\ UNCHANGED row
    ELSE Record(j, state)

(* A job that is being cleared is neither stored nor shown; activity is    *)
(* shown but not stored.                                                   *)
Notes(j, state) ==
    IF j \in clearing THEN UNCHANGED <<row, view, unseen>>
    ELSE IF mail[j].what = "activity"
      THEN view' = [view EXCEPT ![j] = state] /\ Publish /\ UNCHANGED row
    ELSE Record(j, state)

(* A stage of the same kind or activity may still change a step or a byte  *)
(* count that is not modelled: changed says whether the job changed.       *)
Progress(j, changed) ==
    LET next == Advanced(mem[j], mail[j]) IN
    /\ Handles({"Running", "Stopping"})
    /\ worker[j] = "waiting"
    /\ next # mem[j] => changed
    /\ mem' = [mem EXCEPT ![j] = next]
    /\ IF changed THEN Notes(j, next) ELSE UNCHANGED <<row, view, unseen>>
    /\ Acks(j)
    /\ UNCHANGED <<born, inserts, cancelled, clearing, phase, waiter, history>>

(* update_job fails: the job is cancelled, the view keeps the old state. *)
ProgressFails(j) ==
    /\ Handles({"Running", "Stopping"})
    /\ worker[j] = "waiting"
    /\ j \notin clearing
    /\ mail[j].what # "activity"
    /\ Fault
    /\ mem' = [mem EXCEPT ![j] = Advanced(mem[j], mail[j])]
    /\ cancelled' = cancelled \cup {j}
    /\ Publish
    /\ Acks(j)
    /\ UNCHANGED <<durable, view, clearing, phase, waiter, dials, gone, restarts>>

(* The worker's Finished message takes the job out of Actor.active. *)
Reaps(j) ==
    /\ worker' = [worker EXCEPT ![j] = "none"]
    /\ mail' = [mail EXCEPT ![j] = NoMail]
    /\ mem' = [mem EXCEPT ![j] = Absent]
    /\ cancelled' = cancelled \ {j}
    /\ clearing' = clearing \ {j}

(* Mutant: the end of a job that is being cleared is recorded and shown. *)
ForgetNothing(j) == Record(j, Ended(mem[j], mail[j], phase = "Stopping"))

(* remove_job changes the row only: the view has already lost the job and  *)
(* no revision is published.                                               *)
Forget(j) == row' = [row EXCEPT ![j] = Absent] /\ UNCHANGED <<view, unseen>>

(* Mutant: the end of a job is stored without publishing a revision. *)
SentQuietly(j) ==
    /\ Handles({"Running", "Stopping"})
    /\ worker[j] = "ended" /\ mail[j].what # "panic"
    /\ Reaps(j)
    /\ row' = [row EXCEPT ![j] = Ended(mem[j], mail[j], phase = "Stopping")]
    /\ view' = row'
    /\ UNCHANGED <<born, inserts, phase, waiting, history>>

Sent(j) ==
    LET final == Ended(mem[j], mail[j], phase = "Stopping") IN
    /\ Handles({"Running", "Stopping"})
    /\ worker[j] = "ended" /\ mail[j].what # "panic"
    /\ Reaps(j)
    /\ IF j \in clearing THEN Forget(j) ELSE Record(j, final)
    /\ UNCHANGED <<born, inserts, phase, waiter, history>>

(* remove_job or update_job fails: the job has left active, its row stays. *)
SentFails(j) ==
    /\ Handles({"Running", "Stopping"})
    /\ worker[j] = "ended" /\ mail[j].what # "panic"
    /\ Fault
    /\ Reaps(j)
    /\ Publish
    /\ UNCHANGED <<durable, view, phase, waiter, dials, gone, restarts>>

(* complete() turned a panic into stop(); sent() is never called. *)
PanicStops(j) ==
    /\ Handles({"Running", "Stopping"})
    /\ worker[j] = "ended" /\ mail[j].what = "panic"
    /\ worker' = [worker EXCEPT ![j] = "none"]
    /\ mail' = [mail EXCEPT ![j] = NoMail]
    /\ phase' = "Stopping"
    /\ cancelled' = cancelled \cup Active
    /\ Publish
    /\ UNCHANGED <<durable, view, mem, clearing, waiter, history>>

-----------------------------------------------------------------------------
(* EngineHandle::wait_job *)

(* Subscribe and mark the current revision as seen, then ask for the row;  *)
(* a parked caller does the same again when a revision arrives.            *)
WaitJob(w, j) ==
    /\ phase = "Running"
    /\ \/ waiter[w] = Idle /\ born[j] # 0
       \/ waiter[w] = [at |-> "parked", job |-> j] /\ w \in unseen
    /\ waiter' = [waiter EXCEPT ![w] = [at |-> "asking", job |-> j]]
    /\ unseen' = unseen \ {w}
    /\ UNCHANGED <<durable, actor, workers, phase, history>>

(* The actor answers with the durable row. *)
AnswerWaiter(w) ==
    LET job == waiter[w].job IN
    /\ Handles({"Running"})
    /\ waiter[w].at = "asking"
    /\ waiter' = [waiter EXCEPT ![w] =
                    IF row[job] = Absent \/ IsFinished(row[job])
                      THEN Idle ELSE [at |-> "parked", job |-> job]]
    /\ UNCHANGED <<durable, view, mem, cancelled, clearing, workers, phase, unseen, history>>

(* The stopped engine refuses the request or closes the watch channel. *)
WaiterRefused(w) ==
    /\ waiter[w] # Idle
    /\ \/ phase = "Stopped"
       \/ phase = "Stopping" /\ (waiter[w].at = "asking" \/ w \in unseen)
    /\ waiter' = [waiter EXCEPT ![w] = Idle]
    /\ UNCHANGED <<durable, actor, workers, phase, unseen, history>>

-----------------------------------------------------------------------------
(* Crash, restart and recovery *)

Crash ==
    /\ phase # "Down"
    /\ phase' = "Down"
    /\ view' = NoJob
    /\ mem' = NoJob
    /\ cancelled' = {}
    /\ clearing' = {}
    /\ worker' = [j \in Jobs |-> "none"]
    /\ mail' = [j \in Jobs |-> NoMail]
    /\ waiter' = [w \in Waiters |-> Idle]
    /\ unseen' = {}
    /\ UNCHANGED <<durable, pc, history>>

Reopen ==
    /\ phase \in {"Down", "Stopped"}
    /\ restarts < MaxRestarts
    /\ restarts' = restarts + 1
    /\ phase' = "Opening"
    /\ pc' = "top"
    /\ view' = NoJob
    /\ mem' = NoJob
    /\ cancelled' = {}
    /\ clearing' = {}
    /\ waiter' = [w \in Waiters |-> Idle]
    /\ unseen' = {}
    /\ UNCHANGED <<durable, workers, dials, gone, faults>>

(* Store::open interrupts the active rows one UPDATE at a time. *)
Recover(j) ==
    /\ phase = "Opening"
    /\ IsActive(row[j])
    /\ row' = [row EXCEPT ![j] = JobState("Interrupted", 0)]
    /\ UNCHANGED <<born, inserts, actor, workers, phase, waiting, history>>

Opened ==
    /\ phase = "Opening"
    /\ \A j \in Jobs : ~IsActive(row[j])
    /\ view' = row
    /\ phase' = "Running"
    /\ UNCHANGED <<durable, mem, cancelled, clearing, pc, workers, waiting, history>>

-----------------------------------------------------------------------------
Request ==
    \/ \E j \in Jobs : Enqueue(j)
    \/ \E j, previous \in Jobs : Retry(j, previous)
    \/ \E j \in Jobs : CancelActive(j)
    \/ \E j \in Jobs : CancelQueued(j)
    \/ ClearQueue
    \/ ClearQueueFails
    \/ Stop

Fill ==
    \/ \E j \in Jobs : StartSend(j)
    \/ \E j \in Jobs : SpawnFails(j)
    \/ ClaimFails
    \/ Filled

Transmit(j) ==
    \/ WorkerGivesUp(j)
    \/ WorkerDials(j)
    \/ WorkerReports(j)
    \/ WorkerEnds(j)
    \/ WorkerPanics(j)

Completion(j) ==
    \/ \E changed \in BOOLEAN : Progress(j, changed)
    \/ ProgressFails(j)
    \/ Sent(j)
    \/ SentFails(j)
    \/ PanicStops(j)

Wait(w) ==
    \/ \E j \in Jobs : WaitJob(w, j)
    \/ AnswerWaiter(w)
    \/ WaiterRefused(w)

Process ==
    \/ Crash
    \/ Reopen
    \/ \E j \in Jobs : Recover(j)
    \/ Opened

Next ==
    \/ Request
    \/ Fill
    \/ \E j \in Jobs : Transmit(j) \/ Completion(j)
    \/ \E w \in Waiters : Wait(w)
    \/ Process

Spec == Init /\ [][Next]_vars

(***************************************************************************)
(* Fairness.  The actor's loop never rests while it has something to fill  *)
(* or to handle, and crossbeam's select! picks a ready channel at random,  *)
(* so a message that is ready again and again is taken.  A transmission    *)
(* ends by itself: an unanswered call after 60 s, any call after 30        *)
(* minutes.  Requests, faults and crashes need not happen.                 *)
(***************************************************************************)
Fairness ==
    /\ WF_vars(Fill)
    /\ WF_vars(Opened)
    /\ \A j \in Jobs :
          /\ WF_vars(Recover(j))
          /\ WF_vars(WorkerGivesUp(j) \/ WorkerDials(j))
          /\ SF_vars(WorkerEnds(j))
          /\ SF_vars(Completion(j))
    /\ \A w \in Waiters :
          /\ WF_vars(\E j \in Jobs : waiter[w] # Idle /\ WaitJob(w, j))
          /\ SF_vars(AnswerWaiter(w))
          /\ WF_vars(WaiterRefused(w))

FairSpec == Spec /\ Fairness

-----------------------------------------------------------------------------
(* Properties *)

Row   == [kind : Kinds, acked : 0 .. MaxCount]
Claim == [kind : ActiveKinds \cup {"Absent"}, acked : 0 .. MaxCount]
Mail  == [what : Reports \cup Endings \cup {"none"}, pages : 0 .. MaxCount]

(* The shape of every variable.  What the types say of the system: the     *)
(* actor's copy of a job in transmission is in an active state, whatever   *)
(* is reported, until the worker's end takes it away.                      *)
TypeOK ==
    /\ row \in [Jobs -> Row]
    /\ view \in [Jobs -> Row]
    /\ mem \in [Jobs -> Claim]
    /\ born \in [Jobs -> Nat]
    /\ inserts \in Nat
    /\ cancelled \subseteq Jobs
    /\ clearing \subseteq Jobs
    /\ worker \in [Jobs -> {"none", "starting", "calling", "waiting", "ended"}]
    /\ mail \in [Jobs -> Mail]
    /\ phase \in {"Opening", "Running", "Stopping", "Stopped", "Down"}
    /\ pc \in {"top", "select"}
    /\ waiter \in [Waiters -> {Idle} \cup [at : {"asking", "parked"}, job : Jobs]]
    /\ unseen \subseteq Waiters
    /\ dials \in [Jobs -> Nat]
    /\ gone \subseteq Jobs
    /\ restarts \in Nat
    /\ faults \in Nat

(* A fax is transmitted at most once: no crash, restart, store error or    *)
(* lost worker makes the engine place the call of a job a second time; a   *)
(* second attempt is a new job, made by retry.                             *)
AtMostOneCall == \A j \in Jobs : dials[j] <= 1

(* As long as no store write has failed, the three records of what is in   *)
(* transmission agree: the rows with status active, the actor's active map *)
(* and the live workers, one worker for each job.  (claim_next, spawn,     *)
(* progress and sent change them at different times on two threads.)       *)
ClaimsAgree ==
    /\ TypeOK
    /\ faults = 0 /\ phase \in {"Running", "Stopping", "Stopped"} =>
          \A j \in Jobs :
              /\ IsActive(row[j]) <=> j \in Active
              /\ j \in Active <=> worker[j] # "none"

(* As long as no store write has failed, what observers are shown is what  *)
(* a restart would find, except that a job that is being cleared is hidden *)
(* while its row waits for its worker to end.                              *)
ViewIsStore ==
    faults = 0 /\ phase \in {"Running", "Stopping", "Stopped"} =>
        \A j \in Jobs :
            /\ view[j] = IF j \in clearing THEN Absent ELSE row[j]
            /\ j \in Active \ clearing => mem[j] = row[j]

(* The queue is served in order: a job still queued is younger than every  *)
(* job that was ever handed to a backend.                                  *)
OldestFirst ==
    \A j, k \in Jobs : row[j].kind = "Queued" /\ dials[k] # 0 => born[k] < born[j]

(* A job that a successful clear_queue removed is never shown again, not   *)
(* by its own late progress, not by its end, a stop or a restart.          *)
NotResurrected ==
    phase \in {"Running", "Stopping", "Stopped"} => \A j \in gone : view[j] = Absent

(* The same within one life of the process, which is what the in-memory    *)
(* set clear_active is for.                                                *)
ClearedStays == restarts = 0 => NotResurrected

(* A stop that meets no fault leaves nothing to recover: the actor ends    *)
(* only after every transmission has been recorded as ended.               *)
StopIsClean ==
    phase = "Stopped" /\ faults = 0 =>
        \A j \in Jobs : ~IsActive(row[j]) /\ worker[j] = "none"

(* A finished row never changes again, except that clearing removes it: no *)
(* late report, cancel, stop or recovery rewrites how a fax ended.         *)
FinishedIsFinal ==
    [][\A j \in Jobs : IsFinished(row[j]) => row'[j] \in {row[j], Absent}]_vars

(* Pages the peer acknowledged are never taken back while the call lasts,  *)
(* nor when it is cancelled or fails: only an interruption forgets them,   *)
(* and a receipt with its own count replaces them.                         *)
AcknowledgedIsKept ==
    [][\A j \in Jobs :
          mem[j].acked > 0 /\ row'[j] # row[j] /\ row'[j].kind # "Interrupted"
          /\ ~(worker[j] = "ended" /\ mail[j].what = "ok")
          => row'[j] = Absent \/ row'[j].acked >= mem[j].acked]_vars

(* No queued job is left behind while the engine runs: it is started,      *)
(* cancelled or cleared, however the finished calls and requests interleave *)
(* with the filling of slots.                                              *)
QueueDrains ==
    \A j \in Jobs :
        row[j].kind = "Queued" ~> row[j].kind # "Queued" \/ phase # "Running"

(* A stop ends: every worker is cancelled, reports and is reaped.          *)
StopEnds == phase = "Stopping" ~> phase \in {"Stopped", "Down"}

(* A caller of wait_job returns when the job's row is finished, however    *)
(* the revision it waits for races with its reading of the row.            *)
WaiterReturns ==
    \A w \in Waiters, j \in Jobs :
        waiter[w] # Idle /\ waiter[w].job = j /\ IsFinished(row[j])
            ~> waiter[w] = Idle \/ row[j] = Absent

(***************************************************************************)
(* The queue implements JobLifecycle: a job's life is read off its durable *)
(* row, so that it continues across a crash.                               *)
(***************************************************************************)
Life(j) ==
    IF born[j] = 0 THEN "new"
    ELSE IF row[j] = Absent THEN "removed"
    ELSE IF row[j].kind = "Queued" THEN "queued"
    ELSE IF IsActive(row[j]) THEN "active"
    ELSE "finished"

Lifecycle == INSTANCE JobLifecycle WITH life <- [j \in Jobs |-> Life(j)], calls <- dials

(* Every step of the queue, of a crash or of a recovery is a step of the   *)
(* life of the jobs, or leaves it as it is: in particular nothing brings a *)
(* finished or removed job back to the queue, and no call is placed for a  *)
(* job whose row does not say that it is active.                           *)
ImplementsLifecycle == Lifecycle!Spec
=============================================================================
