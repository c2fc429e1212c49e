------------------------------- MODULE Reception -------------------------------
(***************************************************************************)
(* How an incoming fax call becomes a reception: the handshake between the *)
(* faxe-sip service thread, which owns the calls and the incoming slots,   *)
(* and the engine's actor thread, which owns the durable row of each       *)
(* reception.  A call is answered only after its row was stored; in the    *)
(* meantime it may be hung up, time out, or lose its connection.           *)
(*                                                                         *)
(* The threads share three FIFO channels (commands, offers, events), one   *)
(* flag for each offer (AdmissionRequest.is_pending) and nothing else.     *)
(* One pass of service_loop does its work in a fixed order; here every     *)
(* part of it is an action of its own and any order is allowed.  Progress  *)
(* and Status events, and outgoing calls, are left out.                    *)
(***************************************************************************)
EXTENDS Naturals, Sequences, FiniteSets

CONSTANTS Faxes,        \* the identities given to incoming calls
          Callers,      \* the Call-IDs of INVITE requests
          Accounts,     \* the accounts a receiver may be configured for
          Limit,        \* options.limits.incoming
          Manual,       \* whether offers wait for the application's decision
          MaxConfigs,   \* bound: how often the receiver is configured
          MaxFaults     \* bound: failed writes and deaths of the service loop

ASSUME ReceptionAssumption ==
    /\ IsFiniteSet(Faxes)
    /\ Limit \in Nat \ {0}
    /\ Manual \in BOOLEAN
    /\ MaxConfigs \in Nat
    /\ MaxFaults \in Nat
    /\ "none" \notin Faxes \cup Callers \cup Accounts

VARIABLES
    loop,       \* service_loop: running, torn down (but its channel open), gone
    desired,    \* the account of the configured receiver
    available,  \* AVAILABLE: the accounts of the free incoming slots
    ids,        \* INCOMING_CALL_IDS: the Call-ID of every incoming call
    account,    \* the account at whose slot a call arrived
    admission,  \* ADMISSION: calls that were not answered yet
    calls,      \* the incoming calls among service_loop's calls
    cancelled,  \* calls whose cancelled flag is set
    late,       \* admissions whose deadline has passed
    hungup,     \* admissions whose caller sent a CANCEL or vanished
    valid,      \* offers whose AdmissionRequest is still pending
    commands,   \* the command channel of the service
    offers,     \* offer callbacks on the actor's completion channel
    events,     \* Finished events on the way to the actor
    admissions, \* Actor.admissions
    inbox,      \* offers on the bounded channel to the application
    row,        \* the outcome in the received_faxes table
    answering,  \* the reception the actor is in accept_incoming with
    phase,      \* the life of the actor
    stopper,    \* the faxe-stop worker
    configs, faults

service == <<loop, desired, available, ids, account, admission, calls, cancelled, late, hungup, valid>>
channels == <<commands, offers, events>>
actor == <<admissions, inbox, row, answering, phase>>
rest == <<stopper, configs, faults>>
vars == <<service, channels, actor, rest>>

None == "none"

(* Outcomes of a reception; Absent: there is no row. *)
CallEnd == {"Received", "Failed", "Interrupted"}
Ends == CallEnd \cup {"Partial"}
Outcomes == {"Absent", "Receiving"} \cup Ends

Command(what, of) == [what |-> what, of |-> of]
Finished(fax, how) == [of |-> fax, how |-> how]
Results == {"pages", "empty", "cancelled", "error"}

Init ==
    /\ loop = "running"
    /\ desired = None
    /\ available = <<>>
    /\ ids = [f \in Faxes |-> None]
    /\ account = [f \in Faxes |-> None]
    /\ admission = {}
    /\ calls = {}
    /\ cancelled = {}
    /\ late = {}
    /\ hungup = {}
    /\ valid = {}
    /\ commands = <<>>
    /\ offers = <<>>
    /\ events = <<>>
    /\ admissions = {}
    /\ inbox = <<>>
    /\ row = [f \in Faxes |-> "Absent"]
    /\ answering = None
    /\ phase = "Running"
    /\ stopper = "none"
    /\ configs = 0
    /\ faults = 0

Fault == faults < MaxFaults /\ faults' = faults + 1
Occupied == {f \in Faxes : ids[f] # None}

-----------------------------------------------------------------------------
(* The service thread: calls *)

(* on_incoming: a repeated INVITE of a call that is known is not for us,   *)
(* and without a free slot the caller is told so.                          *)
Invite(f, c) ==
    /\ loop = "running"
    /\ account[f] = None
    /\ \A g \in Occupied : ids[g] # c
    /\ Cardinality(Occupied) < Limit
    /\ available # <<>>
    /\ available' = Tail(available)
    /\ ids' = [ids EXCEPT ![f] = c]
    /\ account' = [account EXCEPT ![f] = Head(available)]
    /\ admission' = admission \cup {f}
    /\ valid' = valid \cup {f}
    /\ offers' = IF phase = "Stopped" THEN offers ELSE Append(offers, f)
    /\ UNCHANGED <<loop, desired, calls, cancelled, late, hungup, commands, events, actor, rest>>

(* The call cannot be set up: its slot is used up. *)
InviteFails ==
    /\ loop = "running"
    /\ Cardinality(Occupied) < Limit
    /\ available # <<>>
    /\ available' = Tail(available)
    /\ UNCHANGED <<loop, desired, ids, account, admission, calls, cancelled, late, hungup, valid, channels, actor, rest>>

(* The caller gives up, or admission_timeout passes, before the answer. *)
Hangup(f) ==
    /\ loop = "running"
    /\ f \in admission
    /\ hungup' = hungup \cup {f}
    /\ UNCHANGED <<loop, desired, available, ids, account, admission, calls, cancelled, late, valid, channels, actor, rest>>

DeadlinePasses(f) ==
    /\ loop = "running"
    /\ f \in admission
    /\ late' = late \cup {f}
    /\ UNCHANGED <<loop, desired, available, ids, account, admission, calls, cancelled, hungup, valid, channels, actor, rest>>

(* Admissions are dropped without a word to the actor, whose reception has *)
(* no row yet or is closed when its late answer arrives; calls end with a  *)
(* Finished event, in the arbitrary order of a map.                        *)
Lists(set) ==
    {q \in [1 .. Cardinality(set) -> set] : \A i, k \in DOMAIN q : q[i] = q[k] => i = k}

Drop(pending) ==
    /\ admission' = admission \ pending
    /\ valid' = valid \ pending

Forget(set) == ids' = [f \in Faxes |-> IF f \in set THEN None ELSE ids[f]]

Finish(set, how) ==
    /\ calls' = calls \ set
    /\ \E q \in Lists(set) :
          events' = events \o [i \in DOMAIN q |-> Finished(q[i], how)]

Loses(set) ==
    /\ Drop(admission \cap set)
    /\ Finish(calls \cap set, "error")
    /\ Forget(set)
    /\ UNCHANGED <<loop, desired, account, cancelled, late, hungup, commands, offers, actor, rest>>

(* Mutant: the end of an expired admission is reported. *)
ExpireReports ==
    LET expired == admission \cap (late \cup hungup) IN
    /\ loop = "running"
    /\ \E f \in expired :
          /\ Drop({f})
          /\ Forget({f})
          /\ events' = Append(events, Finished(f, "cancelled"))
    /\ UNCHANGED <<loop, desired, available, account, calls, cancelled, late, hungup, commands, offers, actor, rest>>

Expire ==
    LET expired == admission \cap (late \cup hungup) IN
    /\ loop = "running"
    /\ expired # {}
    /\ Drop(expired)
    /\ Forget(expired)
    /\ UNCHANGED <<loop, desired, available, account, calls, cancelled, late, hungup, channels, actor, rest>>

CallEnds(f) ==
    /\ loop = "running"
    /\ f \in calls
    /\ \E how \in Results :
          /\ how = "cancelled" <=> f \in cancelled
          /\ Finish({f}, how)
    /\ Forget({f})
    /\ UNCHANGED <<loop, desired, available, account, admission, cancelled, late, hungup, valid, commands, offers, actor, rest>>

(* The computer slept for more than 30 s. *)
Sleeps ==
    /\ loop = "running"
    /\ admission \cup calls # {}
    /\ Loses(admission \cup calls)
    /\ UNCHANGED available

(* The connection of an account fails. *)
ConnectionFails(a) ==
    /\ loop = "running"
    /\ Loses({f \in admission \cup calls : account[f] = a})
    /\ available' = IF desired = a THEN <<>> ELSE available

Reconnect ==
    /\ loop = "running"
    /\ admission \cup calls = {}
    /\ available' = <<>>
    /\ UNCHANGED <<loop, desired, ids, account, admission, calls, cancelled, late, hungup, valid, channels, actor, rest>>

(* Free slots are made up for while no other account has incoming calls. *)
Refill ==
    /\ loop = "running"
    /\ desired # None
    /\ \A f \in admission \cup calls : account[f] = desired
    /\ Cardinality(Occupied) + Len(available) < Limit
    /\ available' = [i \in 1 .. Limit - Cardinality(Occupied) |->
                       IF i <= Len(available) THEN available[i] ELSE desired]
    /\ UNCHANGED <<loop, desired, ids, account, admission, calls, cancelled, late, hungup, valid, channels, actor, rest>>

-----------------------------------------------------------------------------
(* The service thread: commands *)

Takes(what) ==
    /\ loop = "running"
    /\ commands # <<>>
    /\ Head(commands).what = what
    /\ commands' = Tail(commands)

Configure ==
    /\ Takes("configure")
    /\ desired' = Head(commands).of
    /\ available' = <<>>
    /\ UNCHANGED <<loop, ids, account, admission, calls, cancelled, late, hungup, valid, offers, events, actor, rest>>

CancelIncoming ==
    /\ Takes("cancel")
    /\ cancelled' = cancelled \cup ({Head(commands).of} \cap calls)
    /\ UNCHANGED <<loop, desired, available, ids, account, admission, calls, late, hungup, valid, offers, events, actor, rest>>

(* Reject, and Admit(Err): the engine could not store the reception. *)
Refuse ==
    LET refused == admission \cap {Head(commands).of} IN
    /\ Takes("reject") \/ Takes("refuse")
    /\ Drop(refused)
    /\ Forget(refused)
    /\ UNCHANGED <<loop, desired, available, account, calls, cancelled, late, hungup, offers, events, actor, rest>>

(* Admit(Ok): the row of the reception is stored. *)
Answer ==
    LET f == Head(commands).of IN
    /\ Takes("admit")
    /\ f \in admission \ (late \cup hungup)
    /\ Drop({f})
    /\ calls' = calls \cup {f}
    /\ UNCHANGED <<loop, desired, available, ids, account, cancelled, late, hungup, offers, events, actor, rest>>

(* Mutant: a call that could not be answered still counts. *)
AnswerFailsCounted ==
    LET f == Head(commands).of IN
    /\ Takes("admit")
    /\ f \in admission
    /\ Drop({f})
    /\ events' = Append(events, Finished(f, "cancelled"))
    /\ UNCHANGED <<loop, desired, available, ids, account, calls, cancelled, late, hungup, offers, actor, rest>>

(* It is too late, or the answer cannot be sent. *)
AnswerFails ==
    LET f == Head(commands).of IN
    /\ Takes("admit")
    /\ f \in admission
    /\ Drop({f})
    /\ Forget({f})
    /\ \E how \in {"cancelled", "error"} :
          /\ f \in late \cup hungup => how = "cancelled"
          /\ events' = Append(events, Finished(f, how))
    /\ UNCHANGED <<loop, desired, available, account, calls, cancelled, late, hungup, offers, actor, rest>>

(* Mutant: a late answer is ignored. *)
AnswerNobodySilently ==
    /\ Takes("admit")
    /\ Head(commands).of \notin admission
    /\ UNCHANGED <<service, offers, events, actor, rest>>

(* The admission is gone: close the persisted record. *)
AnswerNobody ==
    LET f == Head(commands).of IN
    /\ Takes("admit")
    /\ f \notin admission
    /\ events' = Append(events, Finished(f, "cancelled"))
    /\ UNCHANGED <<service, offers, actor, rest>>

(* After the loop: calls are finished and queued commands discarded, but   *)
(* the command channel stays open for two seconds, read by nobody.         *)
TearDown(how) ==
    /\ loop' = "down"
    /\ available' = <<>>
    /\ Drop(admission)
    /\ Finish(calls, how)
    /\ commands' = <<>>
    /\ UNCHANGED <<desired, ids, account, cancelled, late, hungup, offers, actor>>

StopCommand ==
    /\ loop = "running"
    /\ commands # <<>>
    /\ Head(commands).what = "stop"
    /\ TearDown("cancelled")
    /\ UNCHANGED rest

(* An error inside the loop: no socket for a slot, a failed poll. *)
LoopFails ==
    /\ loop = "running"
    /\ Fault
    /\ TearDown("error")
    /\ UNCHANGED <<stopper, configs>>

LoopGone ==
    /\ loop = "down"
    /\ loop' = "gone"
    /\ ids' = [f \in Faxes |-> None]
    /\ commands' = <<>>
    /\ UNCHANGED <<desired, available, account, admission, calls, cancelled, late, hungup, valid, offers, events, actor, rest>>

-----------------------------------------------------------------------------
(* The actor *)

Free == phase # "Stopped" /\ answering = None

(* What a command sent by the actor does to the channel. *)
Send(what, of) ==
    commands' = IF loop = "gone" THEN commands ELSE Append(commands, Command(what, of))

(* accept_incoming: with the offer still pending its row is stored, and in *)
(* a later step the service is told.  The service may move in between.     *)
Reserves(f) ==
    /\ row' = [row EXCEPT ![f] = "Receiving"]
    /\ answering' = f
    /\ UNCHANGED <<faults, commands>>

(* The spool or the row cannot be written: Admit(Err). *)
ReserveFails(f) ==
    /\ Fault
    /\ Send("refuse", f)
    /\ UNCHANGED <<row, answering>>

Accepts(f) == Reserves(f) \/ ReserveFails(f)

(* offer_incoming *)
TakesOffer ==
    /\ Free
    /\ offers # <<>>
    /\ offers' = Tail(offers)
    /\ UNCHANGED <<service, events, phase, stopper, configs>>

Pending == admissions \cap valid

OfferExpired ==
    LET f == Head(offers) IN
    /\ TakesOffer
    /\ phase = "Stopping" \/ f \notin valid
    /\ admissions' = Pending
    /\ Send("reject", f)
    /\ UNCHANGED <<inbox, row, answering, faults>>

OfferAccepted ==
    LET f == Head(offers) IN
    /\ ~Manual
    /\ TakesOffer
    /\ phase = "Running" /\ f \in valid
    /\ admissions' = Pending
    /\ Accepts(f)
    /\ UNCHANGED inbox

OfferShown ==
    LET f == Head(offers) IN
    /\ Manual
    /\ TakesOffer
    /\ phase = "Running" /\ f \in valid
    /\ IF Len(inbox) < Limit
         THEN inbox' = Append(inbox, f) /\ admissions' = Pending \cup {f} /\ UNCHANGED commands
         ELSE Send("reject", f) /\ admissions' = Pending /\ UNCHANGED inbox
    /\ UNCHANGED <<row, answering, faults>>

(* The application reads the offer, and decides at any later time. *)
ReadOffer ==
    /\ inbox # <<>>
    /\ inbox' = Tail(inbox)
    /\ UNCHANGED <<service, channels, admissions, row, answering, phase, rest>>

Decides(f) ==
    /\ Free /\ phase = "Running"
    /\ f \in admissions
    /\ admissions' = admissions \ {f}
    /\ UNCHANGED <<service, offers, events, inbox, phase, stopper, configs>>

AcceptIncoming(f) ==
    /\ Decides(f)
    /\ f \in valid
    /\ Accepts(f)

RejectIncoming(f) ==
    /\ Decides(f)
    /\ f \in valid
    /\ Send("reject", f)
    /\ UNCHANGED <<row, answering, faults>>

DecisionTooLate(f) ==
    /\ Decides(f)
    /\ f \notin valid
    /\ UNCHANGED <<row, answering, commands, faults>>

(* Mutant: an offer that expired meanwhile is not answered. *)
RespondPendingOnly ==
    /\ answering # None
    /\ answering' = None
    /\ IF answering \in valid THEN Send("admit", answering) ELSE UNCHANGED commands
    /\ UNCHANGED <<service, offers, events, admissions, inbox, row, phase, rest>>

(* request.respond(Ok): without a service the reception was interrupted. *)
Respond ==
    /\ answering # None
    /\ answering' = None
    /\ IF loop = "gone"
         THEN row' = [row EXCEPT ![answering] = "Interrupted"] /\ UNCHANGED commands
         ELSE Send("admit", answering) /\ UNCHANGED row
    /\ UNCHANGED <<service, offers, events, admissions, inbox, phase, rest>>

(* The interruption cannot be stored. *)
RespondFails ==
    /\ answering # None
    /\ loop = "gone"
    /\ Fault
    /\ answering' = None
    /\ UNCHANGED <<service, channels, admissions, inbox, row, phase, stopper, configs>>

(* Bound: a cancellation that is on its way is not asked for again. *)
CancelReception(f) ==
    /\ Free /\ phase = "Running"
    /\ row[f] = "Receiving"
    /\ loop # "gone"
    /\ f \notin cancelled
    /\ \A i \in DOMAIN commands : commands[i] # Command("cancel", f)
    /\ Send("cancel", f)
    /\ UNCHANGED <<service, offers, events, actor, rest>>

ConfigureReceiver(a) ==
    /\ Free /\ phase = "Running"
    /\ loop # "gone"
    /\ configs < MaxConfigs
    /\ configs' = configs + 1
    /\ Send("configure", a)
    /\ UNCHANGED <<service, offers, events, actor, stopper, faults>>

(* Mutant: whatever ends while the engine stops is taken for interrupted. *)
OutcomeOfPhase(how) ==
    CASE phase = "Stopping" -> "Interrupted"
      [] how = "pages" -> "Received"
      [] OTHER -> "Failed"

(* received(Finished) *)
Outcome(how) ==
    CASE how = "pages" -> "Received"
      [] how = "cancelled" /\ phase = "Stopping" -> "Interrupted"
      [] OTHER -> "Failed"

Received ==
    LET event == Head(events) IN
    /\ Free
    /\ events # <<>>
    /\ events' = Tail(events)
    /\ row' = IF row[event.of] = "Absent" THEN row
              ELSE [row EXCEPT ![event.of] = Outcome(event.how)]
    /\ UNCHANGED <<service, commands, offers, admissions, inbox, answering, phase, rest>>

(* The row cannot be read or written; the event is used up. *)
ReceivedFails ==
    /\ Free
    /\ events # <<>>
    /\ Fault
    /\ events' = Tail(events)
    /\ UNCHANGED <<service, commands, offers, actor, stopper, configs>>

(* The exporter (see Export) reads the image data of a call that ended: if *)
(* that is less than a complete fax, it has the actor store so.  Whether   *)
(* there is image data, and how much, is not modelled.                     *)
Recovers(f) ==
    /\ Free
    /\ row[f] \in CallEnd
    /\ row' = [row EXCEPT ![f] = "Partial"]
    /\ UNCHANGED <<service, channels, admissions, inbox, answering, phase, rest>>

(* stop *)
Stop ==
    /\ Free /\ phase = "Running"
    /\ phase' = "Stopping"
    /\ admissions' = {}
    /\ \E q \in Lists(admissions) :
          commands' = IF loop = "gone" THEN commands
                      ELSE commands \o [i \in DOMAIN q |-> Command("reject", q[i])]
    /\ stopper' = "sending"
    /\ UNCHANGED <<service, offers, events, inbox, row, answering, configs, faults>>

(* SipService::shutdown on the faxe-stop thread *)
ShutdownSends ==
    /\ stopper = "sending"
    /\ stopper' = "joining"
    /\ Send("stop", None)
    /\ UNCHANGED <<service, offers, events, actor, configs, faults>>

ShutdownJoins ==
    /\ stopper = "joining"
    /\ loop = "gone"
    /\ stopper' = "done"
    /\ UNCHANGED <<service, channels, actor, configs, faults>>

(* Mutant: the actor waits until the application has read its offers. *)
StoppedWhenRead ==
    /\ phase = "Stopping" /\ answering = None
    /\ stopper = "done"
    /\ events = <<>> /\ inbox = <<>>
    /\ phase' = "Stopped"
    /\ offers' = <<>>
    /\ UNCHANGED <<service, commands, events, admissions, inbox, row, answering, rest>>

(* No worker is left: what the service still sent is handled, then the     *)
(* actor ends.                                                             *)
Stopped ==
    /\ phase = "Stopping" /\ answering = None
    /\ stopper = "done"
    /\ events = <<>>
    /\ phase' = "Stopped"
    /\ offers' = <<>>
    /\ UNCHANGED <<service, commands, events, admissions, inbox, row, answering, rest>>

-----------------------------------------------------------------------------
Service ==
    \/ \E f \in Faxes, c \in Callers : Invite(f, c)
    \/ InviteFails
    \/ Expire
    \/ \E f \in Faxes : CallEnds(f)
    \/ Sleeps
    \/ \E a \in Accounts : ConnectionFails(a)
    \/ Reconnect
    \/ Refill
    \/ LoopFails

HandlesCommand ==
    \/ Configure
    \/ CancelIncoming
    \/ Refuse
    \/ Answer
    \/ AnswerFails
    \/ AnswerNobody
    \/ StopCommand

HandlesOffer == OfferExpired \/ OfferAccepted \/ OfferShown

Application ==
    \/ ReadOffer
    \/ \E f \in Faxes :
          \/ AcceptIncoming(f)
          \/ RejectIncoming(f)
          \/ DecisionTooLate(f)
          \/ CancelReception(f)
    \/ \E a \in Accounts \cup {None} : ConfigureReceiver(a)
    \/ Stop

Next ==
    \/ Service
    \/ HandlesCommand
    \/ LoopGone
    \/ \E f \in Faxes : Hangup(f) \/ DeadlinePasses(f)
    \/ HandlesOffer
    \/ Application
    \/ Respond \/ RespondFails
    \/ Received \/ ReceivedFails
    \/ \E f \in Faxes : Recovers(f)
    \/ ShutdownSends \/ ShutdownJoins
    \/ Stopped

Spec == Init /\ [][Next]_vars

(* The loop of the service and that of the actor go on, and the faxe-stop  *)
(* thread.  A deadline passes, and a call ends: CallPump::step gives up    *)
(* after 30 minutes.  Callers, the application and faults are not fair.    *)
Fairness ==
    /\ WF_vars(HandlesCommand)
    /\ WF_vars(Expire)
    /\ WF_vars(LoopGone)
    /\ \A f \in Faxes : WF_vars(CallEnds(f)) /\ WF_vars(DeadlinePasses(f))
    /\ WF_vars(HandlesOffer)
    /\ WF_vars(Respond)
    /\ WF_vars(Received)
    /\ WF_vars(ShutdownSends)
    /\ WF_vars(ShutdownJoins)
    /\ WF_vars(Stopped)

FairSpec == Spec /\ Fairness

-----------------------------------------------------------------------------
(* Properties *)

(* The shape of every variable. *)
TypeOK ==
    /\ loop \in {"running", "down", "gone"}
    /\ desired \in Accounts \cup {None}
    /\ available \in Seq(Accounts)
    /\ ids \in [Faxes -> Callers \cup {None}]
    /\ account \in [Faxes -> Accounts \cup {None}]
    /\ admission \subseteq Faxes /\ calls \subseteq Faxes
    /\ cancelled \subseteq Faxes /\ late \subseteq Faxes /\ hungup \subseteq Faxes
    /\ valid \subseteq Faxes
    /\ commands \in Seq([what : {"configure"}, of : Accounts \cup {None}]
                        \cup [what : {"admit", "refuse", "reject", "cancel"}, of : Faxes]
                        \cup [what : {"stop"}, of : {None}])
    /\ offers \in Seq(Faxes)
    /\ events \in Seq([of : Faxes, how : Results])
    /\ admissions \subseteq Faxes
    /\ inbox \in Seq(Faxes)
    /\ row \in [Faxes -> Outcomes]
    /\ answering \in Faxes \cup {None}
    /\ phase \in {"Running", "Stopping", "Stopped"}
    /\ stopper \in {"none", "sending", "joining", "done"}
    /\ configs \in Nat /\ faults \in Nat

Sent(what, f) == \E i \in DOMAIN commands : commands[i] = Command(what, f)
Ending(f) == \E i \in DOMAIN events : events[i].of = f

(* A call is answered only for a reception whose row is stored, and while  *)
(* it lasts that row says so, whatever the user, the network and a stop do *)
(* to either of them.                                                      *)
AnsweredIsStored == \A f \in calls : row[f] = "Receiving"

(* As long as nothing failed, a reception that is shown as being received  *)
(* is on its way to an end: its call is active, its answer or its end is   *)
(* in a channel.  Deadlines, hang-ups, lost connections, sleep and stops   *)
(* that race with the storing of the row leave no orphan.                  *)
NoOrphan ==
    faults = 0 =>
        \A f \in Faxes :
            row[f] = "Receiving" =>
                f \in calls \/ answering = f \/ Sent("admit", f) \/ Ending(f)

(* A reception ends once: no end is reported for one that has none to      *)
(* come, or whose row was not stored; nor is a call answered for such one. *)
EndsOnce ==
    /\ AnsweredIsStored
    /\ \A i \in DOMAIN events : row[events[i].of] = "Receiving"
    /\ \A i, k \in DOMAIN events : events[i].of = events[k].of => i = k

(* Calls of one account only are let in at a time, and new ones only by    *)
(* the receiver that is configured, however calls outlive a configuration. *)
OneAccount ==
    loop = "running" =>
        /\ \A f, g \in Occupied : account[f] = account[g]
        /\ \A i \in DOMAIN available :
              available[i] = desired /\ \A f \in Occupied : account[f] = desired

(* The retransmission of an INVITE does not become a second call. *)
OneCallPerInvite == \A f, g \in Occupied : ids[f] = ids[g] => f = g

(* The actor keeps no more open offers than there are slots, although it   *)
(* learns of their end only by looking.                                    *)
AdmissionsBounded == Cardinality(admissions) <= Limit

(* Incoming calls and free slots never exceed the limit, and every call    *)
(* that is counted is in exactly one of the two maps it can be in, one for *)
(* each INVITE, all of one account; the actor's open offers are as few.    *)
SlotsAgree ==
    /\ TypeOK
    /\ loop = "running" =>
          /\ Occupied = admission \cup calls
          /\ admission \cap calls = {}
          /\ Cardinality(Occupied) + Len(available) <= Limit
    /\ OneAccount /\ OneCallPerInvite /\ AdmissionsBounded

(* Once the service is gone and what it sent is handled, no reception is   *)
(* left being received: every persisted record was closed.                 *)
SettledWhenGone ==
    loop = "gone" /\ events = <<>> /\ answering = None =>
        \A f \in Faxes : row[f] # "Receiving"

(* Every reception that was stored ends, whatever raced with its answer. *)
ReceptionEnds == \A f \in Faxes : row[f] = "Receiving" ~> row[f] \in Ends

(* A stop ends: the service is told, joined and drained. *)
StopEnds == phase = "Stopping" ~> phase = "Stopped"

(* What has become of a call: a record that is being received is answered, *)
(* has an end on its way, waits for its answer, or has been left behind.   *)
Reports(f, how) == \E i \in DOMAIN events : events[i] = Finished(f, how)

Stage(f) ==
    IF f \in calls THEN "talking"
    ELSE IF row[f] # "Receiving" THEN row[f]
    ELSE IF Reports(f, "pages") THEN "full"
    ELSE IF Ending(f) THEN "empty"
    ELSE IF answering = f \/ Sent("admit", f) THEN "stored"
    ELSE "stale"

Promise == INSTANCE Inbox WITH stage <- [f \in Faxes |-> Stage(f)], broken <- faults > 0

(* Service and actor keep what Inbox promises: a call is answered once,    *)
(* after it was stored, and its record tells how it ended, or is left      *)
(* behind by a fault; only the exporter changes what it tells, once.       *)
ImplementsInbox == Promise!Spec
=============================================================================
