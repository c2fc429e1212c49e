------------------------------- MODULE GoClient --------------------------------
(***************************************************************************)
(* The Go client (bindings/go/client.go) on top of the C interface         *)
(* (crates/faxe-ffi): submissions that can be cancelled at any moment,     *)
(* waits and progress readers that are woken by an event pump, offers of   *)
(* incoming faxes handed to the application, and a close that races with   *)
(* all of them.                                                            *)
(*                                                                         *)
(* The engine behind the handle is an environment here, reduced to what    *)
(* these two layers see of it: the state of every fax, and offers.         *)
(* ConfigureReceiver, Errors and the defaults of the configuration are     *)
(* left out.                                                               *)
(***************************************************************************)
EXTENDS Naturals, Sequences, FiniteSets

CONSTANTS Senders,    \* callers of Send, each with one fax
          Calls,      \* how many calls come in
          Capacity,   \* options.Limits.Incoming, the room of Incoming()
          Awaited,    \* the calls whose reception is waited for
          Workloads   \* the senders and offers that may appear together

ASSUME GoClientAssumption ==
    /\ IsFiniteSet(Senders) /\ Senders \cap Nat = {}
    /\ Calls \in Nat /\ Awaited \subseteq 1..Calls /\ Capacity \in Nat \ {0}

VARIABLES
    active,     \* which of them do
    engine,     \* the EngineRuntime of the native client
    status,     \* each fax in the engine
    mailbox,    \* Reader.incoming: offers on their way to poll
    seen,       \* Reader.jobs and Reader.receptions: what was last reported
    closed,     \* Client.closed of the C interface
    operation,  \* its operations: whether each was cancelled or released
    recorded,   \* operations whose job id is set
    native,     \* the submit call of each sender on the native side
    closer,     \* how far Close has come
    pump,       \* where the pump is
    batch,      \* the offers among the events the pump has in hand
    held,       \* the waits on the channel that `changed` holds now
    heldToo,    \* the progress readers on it
    incoming,   \* Client.incoming
    submission, \* the Submit of each sender
    ctx,        \* the contexts that have ended
    wait,       \* the Wait for each fax
    watch,      \* the goroutine of Progress of each job
    out,        \* its channel
    got,        \* the last update its reader has taken
    handler,    \* the handler goroutine of each offer
    decided,    \* IncomingFax.decided
    deciding    \* the decision of an offer that is on its way to the engine

world == <<active, engine, status>>
reader == <<mailbox, seen>>
abi == <<closed, operation, recorded, native>>
loop == <<closer, pump, batch>>
changed == <<held, heldToo>>
callers == <<submission, ctx, wait>>
progress == <<watch, out, got>>
serving == <<incoming, handler, decided, deciding>>
vars == <<world, reader, abi, loop, changed, callers, progress, serving>>

(* Incoming calls are numbered in the order they come. *)
Offers == 1..Calls

Things == Senders \cup Offers
(* "ended" stands for succeeded and failed jobs and for receptions, "gone" *)
(* for offers that were rejected or have timed out.                        *)
Finished == {"ended", "cancelled"}

(* What job_value and reception_value tell of a fax: not that it is being  *)
(* cancelled, and nothing of an offer that is no reception yet.            *)
Shown(s) ==
    CASE s = "stopping" -> "sending"
      [] s \in {"offered", "gone"} -> "none"
      [] OTHER -> s

(* The done channel is closed. *)
Done == closer \notin {"unopened", "open", "signalled"}

Init ==
    /\ active \in Workloads
    /\ engine = "unopened" /\ closer = "unopened" /\ closed = FALSE
    /\ status = [t \in Things |-> "none"]
    /\ seen = [t \in Things |-> "none"]
    /\ mailbox = <<>> /\ incoming = <<>> /\ batch = <<>>
    /\ operation = [s \in Senders |-> "none"] /\ recorded = {}
    /\ native = [s \in Senders |-> "idle"]
    /\ pump = "idle" /\ held = {} /\ heldToo = {} /\ ctx = {}
    /\ submission = [s \in Senders |-> "idle"]
    /\ wait = [t \in Things |-> "idle"]
    /\ watch = [s \in Senders |-> "idle"]
    /\ out = [s \in Senders |-> "none"] /\ got = [s \in Senders |-> "none"]
    /\ handler = [o \in Offers |-> "idle"]
    /\ decided = {} /\ deciding = [o \in Offers |-> "none"]

-----------------------------------------------------------------------------
(* Opening and closing. *)

(* Client::open sets up profiles and the receiver; Open starts the pump. *)
Open ==
    /\ closer = "unopened" /\ engine = "unopened"
    /\ engine' = "running" /\ closer' = "open" /\ pump' = "poll"
    /\ UNCHANGED <<active, status, reader, abi, batch, changed, callers,
                   progress, serving>>

(* If that fails the engine is shut down again and there is no handle. *)
OpenFails ==
    /\ closer = "unopened" /\ engine = "unopened"
    /\ engine' = "stopped"
    /\ UNCHANGED <<active, status, reader, abi, loop, changed, callers,
                   progress, serving>>

(* Close: stop() wakes everyone and then closes done, faxe_close refuses   *)
(* new calls and cancels the operations, the engine is joined, and then    *)
(* the pump.                                                               *)
CloseSignals ==
    /\ closer = "open" /\ closer' = "signalled"
    /\ held' = {} /\ heldToo' = {}
    /\ UNCHANGED <<world, reader, abi, pump, batch, callers, progress,
                   serving>>

CloseDone ==
    /\ closer = "signalled" /\ closer' = "done"
    /\ UNCHANGED <<world, reader, abi, pump, batch, changed, callers,
                   progress, serving>>

CloseNative ==
    /\ closer = "done" /\ closer' = "closing"
    /\ closed' = TRUE
    /\ operation' = [s \in Senders |->
                        IF operation[s] = "open" THEN "cancelled" ELSE operation[s]]
    /\ UNCHANGED <<world, reader, recorded, native, pump, batch, changed,
                   callers, progress, serving>>

CloseEngine ==
    /\ closer = "closing" /\ closer' = "joining"
    /\ engine' = "stopped"
    /\ UNCHANGED <<active, status, reader, abi, pump, batch, changed, callers,
                   progress, serving>>

CloseReturns ==
    /\ closer = "joining" /\ pump = "gone"
    /\ closer' = "closed"
    /\ UNCHANGED <<world, reader, abi, pump, batch, changed, callers,
                   progress, serving>>

-----------------------------------------------------------------------------
(* The engine. *)

(* EngineHandle::cancel: a queued job ends, an active one is told to. *)
Withdrawn(s) ==
    CASE s = "queued" -> "cancelled"
      [] s = "sending" -> "stopping"
      [] OTHER -> s

Follows(s) ==
    CASE s = "queued" -> {"sending"}
      [] s = "sending" -> {"ended"}
      [] s = "stopping" -> {"ended", "cancelled"}
      [] s = "receiving" -> {"ended"}
      [] s = "offered" -> {"gone"}
      [] OTHER -> {}

Advance(t) ==
    /\ engine = "running"
    /\ \E s \in Follows(status[t]) : status' = [status EXCEPT ![t] = s]
    /\ UNCHANGED <<active, engine, reader, abi, loop, changed, callers,
                   progress, serving>>

(* A call comes in under application-controlled receiving. *)
Arrive(o) ==
    /\ o \in active /\ engine = "running" /\ status[o] = "none"
    /\ \A p \in 1..(o-1) : status[p] # "none"
    /\ status' = [status EXCEPT ![o] = "offered"]
    /\ mailbox' = Append(mailbox, o)
    /\ UNCHANGED <<active, engine, seen, abi, loop, changed, callers,
                   progress, serving>>

-----------------------------------------------------------------------------
(* Submit on the Go side. *)

(* The context of a Send ends; receptions are waited for without end. *)
Expire(s) ==
    /\ s \in active /\ s \notin ctx
    /\ ctx' = ctx \cup {s}
    /\ UNCHANGED <<world, reader, abi, loop, changed, submission, wait,
                   progress, serving>>

(* A context that has ended submits nothing, a closed client neither.      *)
(* Otherwise new_operation, and a goroutine calls submit.                  *)
Submit(s) ==
    /\ s \in active /\ closer # "unopened" /\ submission[s] = "idle"
    /\ IF s \in ctx \/ Done
         THEN /\ submission' = [submission EXCEPT ![s] = "refused"]
              /\ UNCHANGED <<operation, native>>
         ELSE /\ submission' = [submission EXCEPT ![s] = "select"]
              /\ operation' = [operation EXCEPT ![s] = "open"]
              /\ native' = [native EXCEPT ![s] = "called"]
    /\ UNCHANGED <<world, reader, closed, recorded, loop, changed, ctx, wait,
                   progress, serving>>

Answers == {"job", "cancelled", "failed"}

(* What the goroutine answers first; release_operation is deferred. *)
SubmitReturns(s) ==
    /\ submission[s] = "select" /\ native[s] \in Answers
    /\ operation' = [operation EXCEPT ![s] = "released"]
    /\ IF native[s] = "job"
         THEN /\ submission' = [submission EXCEPT ![s] = "sent"]
              /\ wait' = [wait EXCEPT ![s] = "take"]
         ELSE /\ submission' = [submission EXCEPT ![s] = "refused"]
              /\ UNCHANGED wait
    /\ UNCHANGED <<world, reader, closed, recorded, native, loop, changed,
                   ctx, progress, serving>>

(* The context ends first: cancel_operation sets the flag ... *)
SubmitCancels(s) ==
    /\ submission[s] = "select" /\ s \in ctx
    /\ IF closed
         THEN /\ submission' = [submission EXCEPT ![s] = "join"]
              /\ UNCHANGED operation
         ELSE /\ submission' = [submission EXCEPT ![s] = "cancel"]
              /\ operation' = [operation EXCEPT ![s] = "cancelled"]
    /\ UNCHANGED <<world, reader, closed, recorded, native, loop, changed,
                   ctx, wait, progress, serving>>

(* ... and then cancels the job the operation has, if it has one. *)
SubmitCancelsJob(s) ==
    /\ submission[s] = "cancel"
    /\ submission' = [submission EXCEPT ![s] = "join"]
    /\ status' = IF s \in recorded /\ engine = "running"
                   THEN [status EXCEPT ![s] = Withdrawn(status[s])] ELSE status
    /\ UNCHANGED <<active, engine, reader, abi, loop, changed, ctx, wait,
                   progress, serving>>

SubmitAbandons(s) ==
    /\ submission[s] = "join" /\ native[s] \in Answers
    /\ submission' = [submission EXCEPT ![s] = "abandoned"]
    /\ operation' = [operation EXCEPT ![s] = "released"]
    /\ UNCHANGED <<world, reader, closed, recorded, native, loop, changed,
                   ctx, wait, progress, serving>>

-----------------------------------------------------------------------------
(* Submit on the native side: Client::call with Request::Submit. *)

Goes(s, from, to) == native[s] = from /\ native' = [native EXCEPT ![s] = to]
Cancelled(s) == operation[s] = "cancelled"

NativeLeaves == <<reader, closed, operation, loop, changed, callers, progress,
                  serving>>

CallSubmit(s) ==
    /\ Goes(s, "called", IF Done THEN "failed" ELSE "preparing")
    /\ UNCHANGED <<world, reader, closed, operation, recorded, loop, changed,
                   callers, progress, serving>>

(* handle.prepare: the document may be refused; a cancelled one may still  *)
(* have been ready just before.                                            *)
Prepare(s) ==
    /\ \/ Goes(s, "preparing", "failed")
       \/ engine = "running" /\ Goes(s, "preparing", "prepared")
       \/ Cancelled(s) /\ Goes(s, "preparing", "cancelled")
    /\ UNCHANGED <<world, reader, closed, operation, recorded, loop, changed,
                   callers, progress, serving>>

CheckPrepared(s) ==
    /\ Goes(s, "prepared", IF Cancelled(s) THEN "cancelled" ELSE "enqueueing")
    /\ UNCHANGED <<world, reader, closed, operation, recorded, loop, changed,
                   callers, progress, serving>>

Enqueue(s) ==
    /\ \/ /\ engine = "running" /\ Goes(s, "enqueueing", "enqueued")
          /\ status' = [status EXCEPT ![s] = "queued"]
       \/ /\ Goes(s, "enqueueing", "failed")
          /\ UNCHANGED status
    /\ UNCHANGED <<active, engine, reader, closed, operation, recorded, loop,
                   changed, callers, progress, serving>>

(* *lock(&op.job) = Some(job.id) *)
Record(s) ==
    /\ Goes(s, "enqueued", "recorded")
    /\ recorded' = recorded \cup {s}
    /\ UNCHANGED <<world, reader, closed, operation, loop, changed, callers,
                   progress, serving>>

(* Mutant: the operation is not looked at again once its job is recorded. *)
CheckRecordedNot(s) ==
    /\ Goes(s, "recorded", "job")
    /\ UNCHANGED <<world, recorded, NativeLeaves>>

CheckRecorded(s) ==
    /\ Goes(s, "recorded", IF Cancelled(s) THEN "withdrawing" ELSE "job")
    /\ UNCHANGED <<world, reader, closed, operation, recorded, loop, changed,
                   callers, progress, serving>>

Withdraw(s) ==
    /\ Goes(s, "withdrawing", "cancelled")
    /\ status' = IF engine = "running"
                   THEN [status EXCEPT ![s] = Withdrawn(status[s])] ELSE status
    /\ UNCHANGED <<active, engine, reader, closed, operation, recorded, loop,
                   changed, callers, progress, serving>>

-----------------------------------------------------------------------------
(* The pump. *)

News == {t \in Things : Shown(status[t]) # seen[t]}

(* Client::poll reports offers and whatever has changed since it last did. *)
(* A poll that finds nothing returns after 250 ms and is left out, except  *)
(* when it is the last one.                                                *)
Poll ==
    /\ pump = "poll" /\ ~closed
    /\ mailbox # <<>> \/ News # {}
    /\ pump' = "handle" /\ batch' = mailbox /\ mailbox' = <<>>
    /\ seen' = [t \in Things |-> Shown(status[t])]
    /\ UNCHANGED <<world, abi, closer, changed, callers, progress, serving>>

PumpEnds ==
    /\ pump = "poll" /\ Done
    /\ closed \/ (mailbox = <<>> /\ News = {})
    /\ pump' = "gone"
    /\ UNCHANGED <<world, reader, abi, closer, batch, changed, callers,
                   progress, serving>>

(* An offer goes to the application, or is rejected if that has no room. *)
Deliver ==
    /\ pump = "handle" /\ batch # <<>>
    /\ batch' = Tail(batch)
    /\ LET o == Head(batch) IN
       IF Len(incoming) < Capacity
         THEN /\ incoming' = Append(incoming, o) /\ UNCHANGED status
         ELSE /\ status' = IF status[o] = "offered" /\ ~closed
                             THEN [status EXCEPT ![o] = "gone"] ELSE status
              /\ UNCHANGED incoming
    /\ UNCHANGED <<active, engine, reader, abi, closer, pump, changed,
                   callers, progress, handler, decided, deciding>>

(* Mutant: the channel is replaced without being closed. *)
SignalSilently ==
    /\ pump = "handle" /\ batch = <<>>
    /\ pump' = IF Done THEN "gone" ELSE "poll"
    /\ UNCHANGED <<world, reader, abi, closer, batch, changed, callers,
                   progress, serving>>

(* signal() closes the channel everyone waits on and makes a new one. *)
Signal ==
    /\ pump = "handle" /\ batch = <<>>
    /\ held' = {} /\ heldToo' = {}
    /\ pump' = IF Done THEN "gone" ELSE "poll"
    /\ UNCHANGED <<world, reader, abi, closer, batch, callers, progress,
                   serving>>

-----------------------------------------------------------------------------
(* Job.Wait and Reception.Wait, and what Send does after it. *)

Waits(t, from, to) == wait[t] = from /\ wait' = [wait EXCEPT ![t] = to]
WaitLeaves == <<active, engine, reader, abi, loop, submission, ctx, progress,
                serving>>

(* Every turn takes the channel before it reads the state. *)
WaitTake(t) ==
    /\ IF t \in ctx
         THEN Waits(t, "take", "leaving") /\ UNCHANGED held
         ELSE Waits(t, "take", "read") /\ held' = held \cup {t}
    /\ UNCHANGED <<world, reader, abi, loop, heldToo, submission, ctx,
                   progress, serving>>

WaitRead(t) ==
    /\ Waits(t, "read", IF Done \/ status[t] \in Finished THEN "leaving" ELSE "select")
    /\ UNCHANGED <<world, reader, abi, loop, changed, submission, ctx,
                   progress, serving>>

WaitSelect(t) ==
    /\ \/ (t \in ctx \/ Done) /\ Waits(t, "select", "leaving")
       \/ t \notin held /\ Waits(t, "select", "take")
    /\ UNCHANGED <<world, reader, abi, loop, changed, submission, ctx,
                   progress, serving>>

(* Send cancels the fax if its context has ended. *)
WaitReturns(t) ==
    /\ Waits(t, "leaving", "returned")
    /\ status' = IF t \in ctx /\ ~Done
                   THEN [status EXCEPT ![t] = Withdrawn(status[t])] ELSE status
    /\ UNCHANGED <<active, engine, reader, abi, loop, changed, submission,
                   ctx, progress, serving>>

-----------------------------------------------------------------------------
(* Job.Progress: a channel with room for one update, the oldest gives way. *)

Watches(s, from, to) == watch[s] = from /\ watch' = [watch EXCEPT ![s] = to]
WatchLeaves == <<world, reader, abi, loop, callers, serving>>

WatchStart(s) ==
    /\ submission[s] = "sent" /\ Watches(s, "idle", "take")
    /\ UNCHANGED <<world, reader, abi, loop, changed, callers, out, got,
                   serving>>

WatchTake(s) ==
    /\ Watches(s, "take", "read")
    /\ heldToo' = heldToo \cup {s}
    /\ UNCHANGED <<world, reader, abi, loop, held, callers, out, got,
                   serving>>

(* Mutant: an update that finds the channel full is dropped. *)
WatchReadDrops(s) ==
    /\ IF Done
         THEN Watches(s, "read", "gone") /\ UNCHANGED out
         ELSE /\ Watches(s, "read", IF status[s] \in Finished THEN "complete" ELSE "select")
              /\ out' = IF out[s] = "none" THEN [out EXCEPT ![s] = Shown(status[s])] ELSE out
    /\ UNCHANGED <<changed, got, WatchLeaves>>

WatchRead(s) ==
    /\ IF Done
         THEN Watches(s, "read", "gone") /\ UNCHANGED out
         ELSE /\ Watches(s, "read", IF status[s] \in Finished THEN "complete" ELSE "select")
              /\ out' = [out EXCEPT ![s] = Shown(status[s])]
    /\ UNCHANGED <<world, reader, abi, loop, changed, callers, got, serving>>

WatchSelect(s) ==
    /\ \/ (s \in ctx \/ Done) /\ Watches(s, "select", "gone")
       \/ s \notin heldToo /\ Watches(s, "select", "take")
    /\ UNCHANGED <<world, reader, abi, loop, changed, callers, out, got,
                   serving>>

Receive(s) ==
    /\ out[s] # "none"
    /\ got' = [got EXCEPT ![s] = out[s]]
    /\ out' = [out EXCEPT ![s] = "none"]
    /\ UNCHANGED <<world, reader, abi, loop, changed, callers, watch,
                   serving>>

-----------------------------------------------------------------------------
(* Serve: one handler for each offer; it decides, or whatever it started   *)
(* does, or the deferred Reject.                                           *)

ServeLeaves == <<active, engine, reader, abi, loop, changed, submission, ctx,
                 progress>>

Serve ==
    /\ incoming # <<>> /\ ~Done
    /\ incoming' = Tail(incoming)
    /\ handler' = [handler EXCEPT ![Head(incoming)] = "running"]
    /\ UNCHANGED <<world, reader, abi, loop, changed, callers, progress,
                   decided, deciding>>

(* decide() lets one decision through. *)
Decide(o, what) ==
    /\ handler[o] # "idle" /\ o \notin decided
    /\ decided' = decided \cup {o}
    /\ deciding' = [deciding EXCEPT ![o] = what]
    /\ UNCHANGED <<world, reader, abi, loop, changed, callers, progress,
                   incoming, handler>>

HandlerReturns(o) ==
    /\ handler[o] = "running"
    /\ handler' = [handler EXCEPT ![o] = "ended"]
    /\ IF o \in decided
         THEN UNCHANGED <<decided, deciding>>
         ELSE /\ decided' = decided \cup {o}
              /\ deciding' = [deciding EXCEPT ![o] = "reject"]
    /\ UNCHANGED <<world, reader, abi, loop, changed, callers, progress,
                   incoming>>

(* The call of a decision; an accepted fax may be waited for. *)
DecisionArrives(o) ==
    /\ deciding[o] # "none"
    /\ deciding' = [deciding EXCEPT ![o] = "none"]
    /\ IF Done \/ status[o] # "offered"
         THEN UNCHANGED <<status, wait>>
         ELSE IF deciding[o] = "accept"
           THEN /\ status' = [status EXCEPT ![o] = "receiving"]
                /\ wait' = IF o \in Awaited THEN [wait EXCEPT ![o] = "take"] ELSE wait
           ELSE /\ status' = [status EXCEPT ![o] = "gone"]
                /\ UNCHANGED wait
    /\ UNCHANGED <<active, engine, reader, abi, loop, changed, submission,
                   ctx, progress, incoming, handler, decided>>

-----------------------------------------------------------------------------
Native(s) == \/ CallSubmit(s) \/ Prepare(s) \/ CheckPrepared(s) \/ Enqueue(s)
             \/ Record(s) \/ CheckRecorded(s) \/ Withdraw(s)
Submission(s) == \/ SubmitReturns(s) \/ SubmitCancels(s) \/ SubmitCancelsJob(s)
                 \/ SubmitAbandons(s)
Waiting(t) == WaitTake(t) \/ WaitRead(t) \/ WaitSelect(t) \/ WaitReturns(t)
Watching(s) == WatchTake(s) \/ WatchRead(s) \/ WatchSelect(s)
Pump == Poll \/ PumpEnds \/ Deliver \/ Signal
Closing == CloseDone \/ CloseNative \/ CloseEngine \/ CloseReturns

Next ==
    \/ Open \/ OpenFails \/ CloseSignals \/ Closing \/ Pump \/ Serve
    \/ \E t \in Things : Advance(t) \/ Waiting(t)
    \/ \E s \in Senders : \/ Submit(s) \/ Expire(s) \/ Native(s) \/ Submission(s)
                          \/ WatchStart(s) \/ Watching(s) \/ Receive(s)
    \/ \E o \in Offers : \/ Arrive(o) \/ HandlerReturns(o) \/ DecisionArrives(o)
                         \/ \E what \in {"accept", "reject"} : Decide(o, what)

Spec == Init /\ [][Next]_vars

(* The goroutines and the native threads go on.  Nothing is assumed of the *)
(* engine, of contexts, or of the application.                             *)
FairSpec ==
    /\ Spec
    /\ WF_vars(Pump) /\ WF_vars(Closing)
    /\ \A s \in Senders : /\ WF_vars(Native(s)) /\ WF_vars(Submission(s))
                          /\ WF_vars(Watching(s))
    /\ \A t \in Things : WF_vars(Waiting(t))

-----------------------------------------------------------------------------
(* Types of the variables.                                                 *)
TypeOK ==
    /\ engine \in {"unopened", "running", "stopped"}
    /\ status \in [Things -> {"none", "queued", "sending", "stopping", "offered",
                              "gone", "receiving"} \cup Finished]
    /\ seen \in [Things -> {"none", "queued", "sending", "receiving"} \cup Finished]
    /\ mailbox \in Seq(Offers) /\ batch \in Seq(Offers)
    /\ incoming \in Seq(Offers) /\ Len(incoming) <= Capacity
    /\ closed \in BOOLEAN /\ recorded \subseteq Senders
    /\ operation \in [Senders -> {"none", "open", "cancelled", "released"}]
    /\ native \in [Senders -> {"idle", "called", "preparing", "prepared", "enqueueing",
                               "enqueued", "recorded", "withdrawing"} \cup Answers]
    /\ closer \in {"unopened", "open", "signalled", "done", "closing", "joining", "closed"}
    /\ pump \in {"idle", "poll", "handle", "gone"}
    /\ held \subseteq Things /\ heldToo \subseteq Senders
    /\ submission \in [Senders -> {"idle", "select", "cancel", "join", "sent",
                                   "refused", "abandoned"}]
    /\ active \in Workloads /\ ctx \subseteq Senders /\ decided \subseteq Offers
    /\ wait \in [Things -> {"idle", "take", "read", "select", "leaving", "returned"}]
    /\ watch \in [Senders -> {"idle", "take", "read", "select", "gone", "complete"}]
    /\ out \in [Senders -> {"none", "queued", "sending"} \cup Finished]
    /\ got \in [Senders -> {"none", "queued", "sending"} \cup Finished]
    /\ handler \in [Offers -> {"idle", "running", "ended"}]
    /\ deciding \in [Offers -> {"none", "accept", "reject"}]

(* "Cancelling ctx during submission cancels preparation and any job       *)
(* admitted by that submission", and Send cancels it afterwards: nobody    *)
(* who gave up leaves a fax behind that would still be sent, unless the    *)
(* client is being closed (client.go:217, ffi lib.rs:203).                 *)
NoStrayJob ==
    \A s \in Senders :
        /\ submission[s] = "abandoned" \/ (wait[s] = "returned" /\ s \in ctx)
        /\ status[s] \in {"queued", "sending"}
        => Done

(* An offer the engine waits for is on its way to a decision: it is with   *)
(* the pump, in the application's queue, or with a handler that has not    *)
(* returned, or its decision is on its way.  Only a closed client drops it.*)
NoStrayOffer ==
    \A o \in Offers : status[o] = "offered" =>
        \/ Done
        \/ \E i \in 1..Len(mailbox) : mailbox[i] = o
        \/ \E i \in 1..Len(batch) : batch[i] = o
        \/ \E i \in 1..Len(incoming) : incoming[i] = o
        \/ handler[o] = "running"
        \/ deciding[o] # "none"

(* Whoever gives up leaves no fax and no offer behind. *)
NoStray == TypeOK /\ NoStrayJob /\ NoStrayOffer

(* "Progress coalesces intermediate updates for slow readers and retains   *)
(* the final update": when its channel is closed because the job is done,  *)
(* the reader has the final state or finds it in the channel.              *)
FinalUpdateKept ==
    \A s \in Senders : watch[s] = "complete" =>
        \/ out[s] = status[s]
        \/ out[s] = "none" /\ got[s] = status[s]

(* Nobody waits for ever: once a fax is finished, its context has ended or *)
(* the client is closed, its Submit, its wait and its progress reader end  *)
(* (no signal between the reading of a state and the waiting is lost), and *)
(* Close returns.                                                          *)
EverybodyReturns ==
    /\ \A s \in Senders :
         (submission[s] # "idle" /\ (status[s] \in Finished \/ s \in ctx \/ Done))
            ~> /\ submission[s] \in {"refused", "abandoned", "sent"}
               /\ wait[s] \in {"idle", "returned"}
               /\ watch[s] \in {"idle", "gone", "complete"}
    /\ \A o \in Offers :
         (wait[o] # "idle" /\ (status[o] \in Finished \/ Done)) ~> (wait[o] = "returned")
    /\ (closer = "signalled") ~> (closer = "closed")
=============================================================================
