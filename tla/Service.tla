-------------------------------- MODULE Service --------------------------------
(***************************************************************************)
(* The life of an outgoing call in the SIP service.  A sender thread of    *)
(* the engine submits a fax and waits for its only answer; the faxe-sip    *)
(* thread (service_loop) takes the command, sees to a connection of the    *)
(* fax's account, with the help of at most two faxe-connect threads, calls *)
(* and answers.  In the same loop the receiver holds a connection too,     *)
(* possibly of another version of the same account.                        *)
(*                                                                         *)
(* The loop sleeps in PJSIP's poll until a deadline, a packet, or a        *)
(* datagram on the doorbell: everybody who gives the loop work must make   *)
(* the work visible first and ring afterwards.                             *)
(*                                                                         *)
(* One turn of service_loop is a sequence of phases.  Incoming calls are   *)
(* the subject of module Reception; here at most one is there, with only   *)
(* what it means to the rest of the loop.  Time is abstract: a deadline is *)
(* soon (within 30 seconds) or far away (a day).                           *)
(***************************************************************************)
EXTENDS Naturals, Sequences, FiniteSets

CONSTANTS Sends,        \* the faxes to transmit
          Accounts,     \* the accounts, [id, version, register]
          Direct,       \* the id of a direct listener (Uuid::nil)
          None,         \* nothing
          Cases         \* bound: options.limits.outgoing, the account of each
                        \* fax, the first receiver, and what happens besides
                        \* the sends, in order

Ids == {a.id : a \in Accounts}
Slots == 1..2           \* connector_workers
Orders == {[what |-> "configure", of |-> r] : r \in Accounts \cup {None}}
     \cup {[what |-> w, of |-> None] : w \in {"reconnect", "stop"}}
Commands == {[what |-> "send", of |-> s] : s \in Sends} \cup Orders
Accidents == {[what |-> w, of |-> None] :
                 w \in {"cancel", "failure", "invite", "suspend", "break"}}

ASSUME ServiceAssumption ==
    /\ IsFiniteSet(Sends) /\ None \notin [version : Nat, ready : BOOLEAN]
    /\ None \notin [version : Nat, result : {None, "good", "bad"}]
    /\ None \notin Accounts \cup Sends /\ None \notin {"good", "bad"} /\ Accounts \cap Sends = {}
    /\ \A a \in Accounts : a.version \in Nat /\ a.register \in BOOLEAN
    /\ \A c \in Cases :
          /\ c.limit \in Nat \ {0}
          /\ c.account \in [Sends -> {a \in Accounts : a.id # Direct} \cup {None}]
          /\ c.receiver \in Accounts \cup {None}
          /\ c.script \in Seq(Orders \cup Accidents)

VARIABLES
    limit,      \* options.limits.outgoing
    account,    \* the account each job was queued with
    sender,     \* where the sender thread of each job is (SipSender::send)
    canceller,  \* where Cancellation::cancel of each job is
    answers,    \* the Finished updates sent to each job
    app,        \* whether another caller still has to ring
    script,     \* what else is still to come
    queue,      \* the command channel
    bell,       \* a datagram waits on the doorbell
    loop,       \* the phase of service_loop
    desired,    \* the account of the configured receiver
    retry,      \* how far away retry_at is
    reconnect,  \* reconnect_requested
    available,  \* whether AVAILABLE holds an incoming slot
    incoming,   \* the incoming call: its account and stage
    connections, connectors, workers,   \* by account; faxe-connect threads
    pending, waiting,
    mapping,    \* the NAT mapping of a pending call's sockets
    calls,      \* the outgoing calls among service_loop's calls
    status      \* the last Status event

given == <<limit, account>>
thread == <<sender, canceller>>
client == <<app, script>>
receiver == <<desired, retry, available, status>>
network == <<connections, connectors, workers>>
sends == <<pending, waiting, mapping, calls, answers>>
vars == <<given, thread, client, queue, bell, loop, receiver, reconnect,
          incoming, network, sends>>

Init ==
    /\ \E c \in Cases :
          /\ limit = c.limit /\ account = c.account /\ script = c.script
          /\ desired = c.receiver    \* the first command, if there was one
          /\ loop = IF c.receiver = None THEN "starting" ELSE "commands"
    /\ sender = [s \in Sends |-> IF account[s] = None THEN "over" ELSE "idle"]
    /\ calls = {}
    /\ canceller = [s \in Sends |-> "idle"]
    /\ answers = [s \in Sends |-> <<>>]
    /\ app = "free"
    /\ queue = <<>> /\ bell = FALSE
    /\ retry = "now" /\ reconnect = FALSE
    /\ available = FALSE /\ incoming = None /\ status = None
    /\ connections = [i \in Ids |-> None]
    /\ connectors = [i \in Ids |-> None]
    /\ workers = [w \in Slots |-> None]
    /\ pending = <<>> /\ waiting = <<>>
    /\ mapping = [s \in Sends |-> None]

Answer(set, how) ==
    answers' = [s \in Sends |-> IF s \in set THEN Append(answers[s], how) ELSE answers[s]]
Happens(what) == script # <<>> /\ Head(script).what = what /\ script' = Tail(script)
Breaks(bad) == IF bad THEN Happens("failure") ELSE UNCHANGED script
Connected == {i \in Ids : connections[i] # None}
Of(i, set) == {s \in set : account[s].id = i}
OnChannel == {s \in Sends : \E n \in DOMAIN queue : queue[n].of = s}
Queued == {pending[n] : n \in DOMAIN pending} \cup {waiting[n] : n \in DOMAIN waiting}
-----------------------------------------------------------------------------
(* The sender threads.  SipSender::send installs the wake callback before  *)
(* it submits; set_wake looks at the flag after it has stored the callback.*)

Engaged == {s \in Sends : sender[s] \notin {"idle", "over"}}   \* and hooked
Flagged == {s \in Sends : canceller[s] # "idle"}

SendStarts(s) ==
    /\ sender[s] = "idle" /\ loop \notin {"starting", "refused"}
    /\ Cardinality(Engaged) < limit
    /\ sender' = [sender EXCEPT ![s] = "hooking"]
    /\ UNCHANGED <<given, canceller, client, queue, bell, loop,
                   receiver, reconnect, incoming, network, sends>>

SendHooked(s) ==
    /\ sender[s] = "hooking"
    /\ sender' = [sender EXCEPT ![s] = "submitting"]
    /\ bell' = (bell \/ s \in Flagged)
    /\ UNCHANGED <<given, canceller, client, queue, loop,
                   receiver, reconnect, incoming, network, sends>>

(* SipService::submit: the channel is closed once the loop has gone.       *)
Submit(s) ==
    /\ sender[s] = "submitting"
    /\ IF loop = "gone"
         THEN sender' = [sender EXCEPT ![s] = "over"] /\ UNCHANGED queue
         ELSE /\ sender' = [sender EXCEPT ![s] = "ringing"]
              /\ queue' = Append(queue, [what |-> "send", of |-> s])
    /\ UNCHANGED <<given, canceller, client, bell, loop,
                   receiver, reconnect, incoming, network, sends>>

SubmitRings(s) ==
    /\ sender[s] = "ringing"
    /\ sender' = [sender EXCEPT ![s] = "waiting"]
    /\ bell' = TRUE
    /\ UNCHANGED <<given, canceller, client, queue, loop,
                   receiver, reconnect, incoming, network, sends>>

SendReturns(s) ==
    /\ sender[s] = "waiting" /\ answers[s] # <<>>
    /\ sender' = [sender EXCEPT ![s] = "over"]
    /\ answers' = [answers EXCEPT ![s] = Tail(answers[s])]
    /\ UNCHANGED <<given, canceller, client, queue, bell, loop, receiver, reconnect,
                   incoming, network, pending, waiting, mapping, calls>>

Cancel(s) ==
    /\ Happens("cancel") /\ canceller[s] = "idle" /\ sender[s] # "over"
    /\ canceller' = [canceller EXCEPT ![s] = "flagged"]
    /\ UNCHANGED <<given, sender, app, queue, bell, loop,
                   receiver, reconnect, incoming, network, sends>>

(* Mutant: only the flag is set. *)
CancelLooksNot(s) ==
    /\ canceller[s] = "flagged"
    /\ canceller' = [canceller EXCEPT ![s] = "done"]
    /\ UNCHANGED <<given, sender, client, queue, bell, loop,
                   receiver, reconnect, incoming, network, sends>>

CancelLooks(s) ==
    /\ canceller[s] = "flagged"
    /\ canceller' = [canceller EXCEPT ![s] = IF s \in Engaged THEN "ringing" ELSE "done"]
    /\ UNCHANGED <<given, sender, client, queue, bell, loop,
                   receiver, reconnect, incoming, network, sends>>

CancelRings(s) ==
    /\ canceller[s] = "ringing"
    /\ canceller' = [canceller EXCEPT ![s] = "done"]
    /\ bell' = TRUE
    /\ UNCHANGED <<given, sender, client, queue, loop,
                   receiver, reconnect, incoming, network, sends>>

(* Everybody else: Commands::send enqueues, then rings.                    *)
Order ==
    /\ script # <<>> /\ Head(script) \in Orders /\ script' = Tail(script)
    /\ app = "free" /\ loop \notin {"starting", "refused", "gone"}
    /\ queue' = Append(queue, Head(script))
    /\ app' = "ringing"
    /\ UNCHANGED <<given, thread, bell, loop, receiver, reconnect,
                   incoming, network, sends>>

OrderRings ==
    /\ app = "ringing"
    /\ app' = "free" /\ bell' = TRUE
    /\ UNCHANGED <<given, thread, script, queue, loop, receiver,
                   reconnect, incoming, network, sends>>
-----------------------------------------------------------------------------
(* The faxe-connect threads: resolve, look for the route, prepare TLS;     *)
(* then the result, then the bell, then the end of the thread.             *)

Cut(set) ==     \* Connector::drop sets the stop flag of the connector's thread
    [w \in Slots |-> IF workers[w] # None /\ workers[w].of \in set
                       THEN [workers[w] EXCEPT !.stop = TRUE] ELSE workers[w]]

WorkerSends(w) ==
    /\ workers[w] # None /\ workers[w].stage = "running"
    /\ workers' = [workers EXCEPT ![w].stage = "sent"]
    /\ IF workers[w].stop
         THEN UNCHANGED <<connectors, script>>
         ELSE \E result \in {"good", "bad"} :
                /\ connectors' = [connectors EXCEPT ![workers[w].of].result = result]
                /\ Breaks(result = "bad")
    /\ UNCHANGED <<given, thread, app, queue, bell, loop, receiver,
                   reconnect, incoming, connections, sends>>

(* Mutant: the thread ends without a sound. *)
WorkerRingsNot(w) ==
    /\ workers[w] # None /\ workers[w].stage = "sent"
    /\ workers' = [workers EXCEPT ![w].stage = "rung"]
    /\ UNCHANGED <<given, thread, client, queue, bell, loop, receiver,
                   reconnect, incoming, connections, connectors, sends>>

WorkerRings(w) ==
    /\ workers[w] # None /\ workers[w].stage = "sent"
    /\ workers' = [workers EXCEPT ![w].stage = "rung"]
    /\ bell' = TRUE
    /\ UNCHANGED <<given, thread, client, queue, loop, receiver,
                   reconnect, incoming, connections, connectors, sends>>

WorkerEnds(w) ==
    /\ workers[w] # None /\ workers[w].stage = "rung"
    /\ workers' = [workers EXCEPT ![w].stage = "over"]
    /\ UNCHANGED <<given, thread, client, queue, bell, loop, receiver,
                   reconnect, incoming, connections, connectors, sends>>

-----------------------------------------------------------------------------
(* service_loop.  What the network brings, the answer to a REGISTER, the   *)
(* loss of a connection, a STUN answer, the end of a call, is chosen where *)
(* the loop looks at it.                                                   *)

(* Only one native engine may run in a process.                            *)
Starts ==
    /\ loop = "starting"
    /\ loop' \in {"commands", "refused"}
    /\ UNCHANGED <<given, thread, client, queue, bell, receiver, reconnect,
                   incoming, network, sends>>

(* More than 30 seconds since last_tick are taken for a suspended computer.*)
Interrupt ==
    /\ loop \in {"late", "resumed"}
    /\ loop' = "commands"
    /\ Answer(calls, "failed")
    /\ calls' = {} /\ incoming' = None
    /\ reconnect' = TRUE
    /\ UNCHANGED <<given, thread, client, queue, bell, receiver,
                   network, pending, waiting, mapping>>

Takes(what) == loop = "commands" /\ queue # <<>> /\ Head(queue).what = what

(* Mutant: the slots of the previous account stay. *)
TakeConfigureOnly ==
    /\ Takes("configure")
    /\ queue' = Tail(queue)
    /\ desired' = Head(queue).of /\ retry' = "now"
    /\ UNCHANGED <<given, thread, client, bell, loop, status, available, reconnect,
                   incoming, network, sends>>

TakeConfigure ==
    /\ Takes("configure")
    /\ queue' = Tail(queue)
    /\ desired' = Head(queue).of
    /\ available' = FALSE /\ retry' = "now"
    /\ UNCHANGED <<given, thread, client, bell, loop, status, reconnect,
                   incoming, network, sends>>

TakeReconnect ==
    /\ Takes("reconnect")
    /\ queue' = Tail(queue)
    /\ reconnect' = TRUE
    /\ UNCHANGED <<given, thread, client, bell, loop, receiver,
                   incoming, network, sends>>

TakeSend ==
    /\ Takes("send")
    /\ queue' = Tail(queue)
    /\ IF Cardinality(calls) + Len(pending) >= limit
         THEN Answer({Head(queue).of}, "refused") /\ UNCHANGED pending
         ELSE pending' = Append(pending, Head(queue).of) /\ UNCHANGED answers
    /\ UNCHANGED <<given, thread, client, bell, loop, receiver, reconnect,
                   incoming, network, waiting, mapping, calls>>

(* Stop, or an error of the loop's own: everything that was taken is       *)
(* answered, then the commands that were not taken.                        *)
TearDown ==
    /\ loop' = "down"
    /\ Answer(calls \cup Queued \cup OnChannel, "failed")
    /\ queue' = <<>> /\ pending' = <<>> /\ waiting' = <<>>
    /\ calls' = {} /\ incoming' = None /\ available' = FALSE
    /\ mapping' = [s \in Sends |-> None]
    /\ connections' = [i \in Ids |-> None]
    /\ connectors' = [i \in Ids |-> None]
    /\ workers' = Cut(Ids)
    /\ UNCHANGED <<given, thread, app, bell, desired, retry, status, reconnect>>

TakeStop == Takes("stop") /\ TearDown /\ UNCHANGED script

LoopBreaks == Happens("break") /\ loop \in {"listens", "ticks"} /\ TearDown

(* After two seconds of farewells and the join of the faxe-connect threads *)
(* the channel goes, with the reply senders in it.                         *)
Gone ==
    /\ loop = "down"
    /\ \A w \in Slots : workers[w] # None => workers[w].stage = "over"
    /\ loop' = "gone"
    /\ workers' = [w \in Slots |-> None]
    /\ queue' = <<>>
    /\ Answer(OnChannel, "failed")
    /\ UNCHANGED <<given, thread, client, bell, receiver, reconnect, incoming,
                   connections, connectors, pending, waiting, mapping, calls>>

(* A reconnection waits until no call is left.                             *)
CommandsEnd ==
    /\ loop = "commands" /\ queue = <<>>
    /\ loop' = "polls"
    /\ IF reconnect /\ calls = {} /\ incoming = None
         THEN /\ reconnect' = FALSE /\ available' = FALSE /\ retry' = "now"
              /\ connections' = [i \in Ids |-> None]
              /\ connectors' = [i \in Ids |-> None]
              /\ workers' = Cut(Ids)
         ELSE UNCHANGED <<reconnect, available, retry, network>>
    /\ UNCHANGED <<given, thread, client, queue, bell, desired, status, incoming, sends>>

Retain(q, lost) ==      \* the elements of q that are not lost, in order
    LET kept[n \in 0..Len(q)] ==
            IF n = 0 THEN <<>>
            ELSE IF q[n] \in lost THEN kept[n - 1] ELSE Append(kept[n - 1], q[n])
    IN kept[Len(q)]

(* Mutant: the pending sends of a connection that failed are only dropped. *)
PollForgets ==
    /\ loop = "polls" /\ loop' = "listens"
    /\ \E failed \in SUBSET (Connected \ {Direct}) :
          /\ Breaks(failed # {})
          /\ connections' = [i \in Ids |->
                IF i \in failed THEN None
                ELSE IF i \in Connected THEN [connections[i] EXCEPT !.ready = TRUE] ELSE None]
          /\ LET lost == {s \in calls \cup Queued : account[s].id \in failed}
             IN /\ Answer(lost \cap calls, "failed")
                /\ pending' = Retain(pending, lost)
                /\ calls' = calls \ lost
    /\ UNCHANGED <<given, thread, app, queue, bell, receiver, reconnect, incoming,
                   connectors, workers, waiting, mapping>>

(* Connection::poll of each connection, then all that depended on those    *)
(* that failed.  The socket of a direct listener does not fail.            *)
Poll ==
    /\ loop = "polls" /\ loop' = "listens"
    /\ \E failed \in SUBSET (Connected \ {Direct}) : Breaks(failed # {}) /\
       \E registered \in SUBSET {i \in Connected \ failed : ~connections[i].ready} :
          /\ connections' = [i \in Ids |->
                CASE i \in failed -> None
                  [] i \in registered -> [connections[i] EXCEPT !.ready = TRUE]
                  [] OTHER -> connections[i]]
          /\ LET lost == {s \in calls \cup Queued : account[s].id \in failed}
             IN /\ Answer(lost, "failed")
                /\ pending' = Retain(pending, lost)
                /\ mapping' = [s \in Sends |-> IF s \in lost THEN None ELSE mapping[s]]
                /\ calls' = calls \ lost
          /\ incoming' = IF incoming # None /\ incoming.of \in failed THEN None ELSE incoming
          /\ IF desired # None /\ desired.id \in failed
               THEN available' = FALSE /\ status' = "error" /\ retry' \in {"short", "day"}
               ELSE UNCHANGED <<available, status, retry>>
    /\ UNCHANGED <<given, thread, app, queue, bell, desired, reconnect,
                   connectors, workers, waiting>>
-----------------------------------------------------------------------------
(* ensure_connection, from the connections and connectors given: the state *)
(* it leaves, and whether it succeeds.                                     *)

Reaped(works) == [w \in Slots |-> IF works[w] # None /\ works[w].stage = "over"
                                    THEN None ELSE works[w]]

Left(conns, cons, works, ok) ==
    [connections |-> conns, connectors |-> cons, workers |-> works, ok |-> ok]

Spawned(a, cons, works) ==
    LET free == {w \in Slots : works[w] = None}
    IN IF free = {}
         THEN Left(connections, cons, works, TRUE)
         ELSE Left(connections,
                   [cons EXCEPT ![a.id] = [version |-> a.version, result |-> None]],
                   [works EXCEPT ![CHOOSE w \in free : \A v \in free : w <= v] =
                       [stage |-> "running", of |-> a.id, stop |-> FALSE]], TRUE)

New(a) == [version |-> a.version, ready |-> ~a.register]    \* Connection::new

Taken(a, works) ==      \* the connector's result, if there is one
    LET cons == [connectors EXCEPT ![a.id] = None]
    IN CASE connectors[a.id].result = None -> Left(connections, connectors, works, TRUE)
         [] connectors[a.id].result = "bad" -> Left(connections, cons, works, FALSE)
         [] connectors[a.id].result = "good" ->
              Left([connections EXCEPT ![a.id] = New(a)], cons, works, TRUE)

Ensured(a) ==
    LET found == connectors[a.id]
    IN CASE connections[a.id] # None -> Left(connections, connectors, Reaped(workers), TRUE)
         [] connections[a.id] = None /\ found = None ->
              Spawned(a, connectors, Reaped(workers))
         [] connections[a.id] = None /\ found # None /\ found.version # a.version ->
              Spawned(a, [connectors EXCEPT ![a.id] = None], Reaped(Cut({a.id})))
         [] OTHER -> Taken(a, Reaped(workers))

Leaves(e) == connections' = e.connections /\ connectors' = e.connectors /\ workers' = e.workers

(* The receiver's connection.  Calls hold an outdated one, and an incoming *)
(* call of another account holds everything back.                          *)
Listens == desired # None /\ retry = "now" /\ (incoming # None => incoming.of = desired.id)
Outdated == connections[desired.id] # None /\ connections[desired.id].version # desired.version
Held == Of(desired.id, calls) # {} \/ incoming # None

Listened(conns) ==      \* a free slot needs the receiver's own connection, ready
    conns[desired.id] # None /\ conns[desired.id].ready
        /\ conns[desired.id].version = desired.version

ListenLater ==
    /\ loop = "listens" /\ (Listens => Outdated /\ Held)
    /\ loop' = "prepares"
    /\ UNCHANGED <<given, thread, client, queue, bell, receiver, reconnect,
                   incoming, network, sends>>

Withdraw ==         \* unregister the outdated connection, then go on
    /\ loop = "listens" /\ Listens /\ Outdated /\ ~Held
    /\ connections' = [connections EXCEPT ![desired.id] = None]
    /\ available' = FALSE
    /\ UNCHANGED <<given, thread, client, queue, bell, loop, desired, retry, status,
                   reconnect, incoming, connectors, workers, sends>>

Opened(ok) ==       \* Connection::listening binds the listener's own socket
    Left([connections EXCEPT ![Direct] =
             IF ok THEN [version |-> desired.version, ready |-> TRUE] ELSE None],
         connectors, workers, ok)

ListenWith(e) ==
    /\ Leaves(e)
    /\ IF e.ok THEN UNCHANGED <<retry, status>>
               ELSE retry' \in {"short", "day"} /\ status' = "error"
    /\ available' = (available \/ (Listened(e.connections) /\ incoming = None))

Listen ==
    /\ loop = "listens" /\ Listens /\ ~Outdated
    /\ loop' = "prepares"
    /\ IF desired.id = Direct
         THEN \E ok \in BOOLEAN :
                /\ Breaks(~ok) /\ (connections[Direct] # None => ok)
                /\ ListenWith(Opened(ok))
         ELSE ListenWith(Ensured(desired)) /\ UNCHANGED script
    /\ UNCHANGED <<given, thread, app, queue, bell, desired, reconnect, incoming, sends>>
-----------------------------------------------------------------------------
(* The pending sends, one after the other (PendingSend::prepare).          *)

Fails(s) == /\ Answer({s}, "failed") /\ mapping' = [mapping EXCEPT ![s] = None]
            /\ UNCHANGED <<waiting, calls>>
Waits(s, nat) == /\ waiting' = Append(waiting, s) /\ mapping' = [mapping EXCEPT ![s] = nat]
                 /\ UNCHANGED <<calls, answers>>
Calls(s) == /\ calls' = calls \cup {s} /\ mapping' = [mapping EXCEPT ![s] = None]
            /\ UNCHANGED <<waiting, answers>>

PrepareCancelled(s) ==
    /\ loop = "prepares" /\ pending # <<>> /\ s = Head(pending) /\ s \in Flagged
    /\ pending' = Tail(pending)
    /\ Fails(s)
    /\ UNCHANGED <<given, thread, client, queue, bell, loop, receiver, reconnect,
                   incoming, network>>

(* The account's connection, then the sockets, whose NAT mapping may take  *)
(* another turn (for any number of them), then the INVITE.                 *)
Prepared(s, e) ==
    LET c == e.connections[account[s].id]
    IN CASE ~e.ok -> Fails(s) /\ UNCHANGED script
         [] e.ok /\ c # None /\ c.version # account[s].version -> Fails(s) /\ UNCHANGED script
         [] e.ok /\ c # None /\ c.version = account[s].version /\ c.ready ->
              \/ mapping[s] = None /\ Waits(s, "asked") /\ UNCHANGED script
              \/ Calls(s) /\ UNCHANGED script
              \/ Fails(s) /\ Breaks(TRUE)
         [] OTHER -> Waits(s, mapping[s]) /\ UNCHANGED script

Prepare(s) ==
    /\ loop = "prepares" /\ pending # <<>> /\ s = Head(pending) /\ s \notin Flagged
    /\ pending' = Tail(pending)
    /\ \E e \in {Ensured(account[s])} : Leaves(e) /\ Prepared(s, e)
    /\ UNCHANGED <<given, thread, app, queue, bell, loop, receiver, reconnect, incoming>>

PrepareEnds ==
    /\ loop = "prepares" /\ pending = <<>>
    /\ pending' = waiting /\ waiting' = <<>>
    /\ loop' = "ticks"
    /\ UNCHANGED <<given, thread, client, queue, bell, receiver, reconnect,
                   incoming, network, mapping, calls, answers>>

(* Mutant: a call that ended is made again. *)
FinishRetries(s) ==
    /\ loop = "ticks" /\ s \in calls
    /\ calls' = calls \ {s}
    /\ pending' = Append(pending, s)
    /\ UNCHANGED <<given, thread, client, queue, bell, loop, receiver, reconnect,
                   incoming, network, waiting, mapping, answers>>

(* ActiveCall::tick and finish: the call leaves calls before its answer.   *)
Finish(s) ==
    /\ loop = "ticks" /\ s \in calls
    /\ calls' = calls \ {s}
    /\ Answer({s}, "finished")
    /\ UNCHANGED <<given, thread, client, queue, bell, loop, receiver, reconnect,
                   incoming, network, pending, waiting, mapping>>

(* The incoming call is answered, refused or over (module Reception).      *)
IncomingGoesOn ==
    /\ loop = "ticks" /\ incoming # None
    /\ \/ incoming.stage = "offered" /\ incoming' = [incoming EXCEPT !.stage = "running"]
       \/ incoming' = None
    /\ UNCHANGED <<given, thread, client, queue, bell, loop, receiver, reconnect,
                   network, sends>>
-----------------------------------------------------------------------------
(* The end of a turn: the status, what nobody uses, and how long to sleep. *)

State ==
    CASE incoming # None -> "receiving"
      [] incoming = None /\ desired = None -> "off"
      [] incoming = None /\ desired # None /\ retry # "now" -> status
      [] incoming = None /\ desired # None /\ retry = "now" /\ available -> "ready"
      [] OTHER -> "registering"

Used(i) == (desired # None /\ desired.id = i) \/ Of(i, Queued) # {}
Busy(i) == Used(i) \/ Of(i, calls) # {} \/ (incoming # None /\ incoming.of = i)
Forsaken == {i \in Ids : connectors[i] # None /\ ~Used(i)}

AtRest ==       \* nothing but a command can give the loop work
    /\ desired = None /\ pending = <<>> /\ calls = {} /\ incoming = None
    /\ \A i \in Ids : connections[i] = None /\ connectors[i] = None

Refillable == desired # None /\ retry = "now" /\ incoming = None /\ ~available
                 /\ Listened(connections)

Soon ==         \* Connection::next_deadline: a route is checked every 5 seconds
    \/ Connected \ {Direct} # {}
    \/ calls # {} \/ incoming # None \/ \E s \in Sends : mapping[s] # None
    \/ retry = "short" \/ Refillable \/ queue # <<>>

Sleeping == {"dozes", "sleeps"}
Depth == IF AtRest THEN "rests" ELSE IF Soon THEN "dozes" ELSE "sleeps"

TidyUp ==
    /\ loop = "ticks" /\ calls \cap Flagged = {}
    /\ status' = State
    /\ connectors' = [i \in Ids |-> IF i \in Forsaken THEN None ELSE connectors[i]]
    /\ workers' = Cut(Forsaken)
    /\ connections' = [i \in Ids |-> IF Busy(i) THEN connections[i] ELSE None]
    /\ UNCHANGED <<given, thread, client, queue, bell, desired, retry, available,
                   reconnect, incoming, sends>>
    /\ loop' = Depth'

Resume ==       \* commands.recv()
    /\ loop = "rests" /\ queue # <<>>
    /\ loop' = "commands"
    /\ UNCHANGED <<given, thread, client, queue, bell, receiver, reconnect,
                   incoming, network, sends>>

(* A short sleep ends in time; any other may have lasted 30 seconds.       *)
WakesUp ==
    /\ loop \in Sleeping
    /\ loop' \in IF loop = "dozes" THEN {"commands"} ELSE {"commands", "late"}
    /\ UNCHANGED <<given, thread, app, queue, desired, status,
                   reconnect, network, sends>>

WokenByBell ==
    /\ bell /\ WakesUp
    /\ bell' = FALSE
    /\ UNCHANGED <<retry, available, incoming, script>>

WokenByDeadline ==      \* or by a packet
    /\ loop = "dozes" /\ WakesUp
    /\ retry' \in IF retry = "short" THEN {"short", "now"} ELSE {retry}
    /\ UNCHANGED <<bell, available, incoming, script>>

Invite ==       \* an INVITE that finds a free slot, the last one or not
    /\ Happens("invite") /\ available /\ incoming = None /\ WakesUp
    /\ available' \in BOOLEAN
    /\ incoming' = [of |-> desired.id, stage |-> "offered"]
    /\ UNCHANGED <<bell, retry>>

Suspend ==      \* the computer sleeps while the loop does
    /\ Happens("suspend") /\ loop \in Sleeping /\ loop' = "resumed"
    /\ UNCHANGED <<given, thread, app, queue, bell, receiver, reconnect,
                   incoming, network, sends>>
-----------------------------------------------------------------------------
Sender(s) == SendStarts(s) \/ SendHooked(s) \/ Submit(s) \/ SubmitRings(s) \/ SendReturns(s)
Canceller(s) == CancelLooks(s) \/ CancelRings(s)
Worker(w) == WorkerSends(w) \/ WorkerRings(w) \/ WorkerEnds(w)
Loop == \/ Starts \/ Interrupt \/ TakeConfigure \/ TakeReconnect \/ TakeSend
        \/ TakeStop \/ Gone \/ CommandsEnd \/ Poll \/ ListenLater \/ Withdraw \/ Listen
        \/ \E s \in Sends : PrepareCancelled(s) \/ Prepare(s)
        \/ PrepareEnds
        \/ TidyUp \/ Resume
        \/ WokenByBell \/ WokenByDeadline
Next ==
    \/ \E s \in Sends : Sender(s) \/ Cancel(s) \/ Canceller(s) \/ Finish(s)
    \/ \E w \in Slots : Worker(w)
    \/ Loop \/ LoopBreaks \/ IncomingGoesOn \/ Invite \/ Suspend
    \/ Order \/ OrderRings

Spec == Init /\ [][Next]_vars

(* Threads run.  A REGISTER (25 seconds) and a call have deadlines of      *)
(* their own: what is looked at again and again settles.                   *)
Settles(i) == Poll /\ connections[i] # None /\ ~connections[i].ready
                   /\ connections'[i] # connections[i]
Fairness ==
    /\ WF_vars(Loop)
    /\ WF_vars(OrderRings)
    /\ \A s \in Sends : /\ WF_vars(Sender(s)) /\ WF_vars(Canceller(s))
                        /\ SF_vars(Finish(s))
    /\ \A w \in Slots : WF_vars(Worker(w))
    /\ \A i \in {a.id : a \in {b \in Accounts : b.register}} : SF_vars(Settles(i))
FairSpec == Spec /\ Fairness
-----------------------------------------------------------------------------
(* Every variable stays within its type.                                   *)
TypeOK ==
    /\ limit \in Nat \ {0} /\ account \in [Sends -> Accounts \cup {None}]
    /\ sender \in [Sends -> {"idle", "hooking", "submitting", "ringing", "waiting", "over"}]
    /\ canceller \in [Sends -> {"idle", "flagged", "ringing", "done"}]
    /\ answers \in [Sends -> Seq({"failed", "refused", "finished"})]
    /\ \A s \in Sends : Len(answers[s]) <= 1
    /\ app \in {"free", "ringing"} /\ script \in Seq(Orders \cup Accidents)
    /\ queue \in Seq(Commands)
    /\ bell \in BOOLEAN /\ reconnect \in BOOLEAN /\ available \in BOOLEAN
    /\ loop \in {"starting", "refused", "commands", "polls", "listens", "prepares", "ticks",
                 "rests", "dozes", "sleeps", "late", "resumed", "down", "gone"}
    /\ desired \in Accounts \cup {None} /\ retry \in {"now", "short", "day"}
    /\ status \in {None, "error", "receiving", "off", "ready", "registering"}
    /\ incoming \in [of : Ids, stage : {"offered", "running"}] \cup {None}
    /\ connections \in [Ids -> [version : Nat, ready : BOOLEAN] \cup {None}]
    /\ connectors \in [Ids -> [version : Nat, result : {None, "good", "bad"}] \cup {None}]
    /\ workers \in [Slots -> [stage : {"running", "sent", "rung", "over"}, of : Ids,
                              stop : BOOLEAN] \cup {None}]
    /\ pending \in Seq(Sends) /\ waiting \in Seq(Sends) /\ calls \subseteq Sends
    /\ mapping \in [Sends -> {None, "asked"}]

(* service_loop and SipSender::send: a submitted fax is in exactly one     *)
(* place, on the channel, among the pending ones, in a call or answered;   *)
(* it is neither answered twice nor forgotten, whatever breaks or stops.   *)
Places(s) ==
    Len(answers[s]) + (IF s \in calls THEN 1 ELSE 0)
    + Cardinality({n \in DOMAIN queue : queue[n].of = s})
    + Cardinality({n \in DOMAIN pending : pending[n] = s})
    + Cardinality({n \in DOMAIN waiting : waiting[n] = s})
SendKept ==
    /\ TypeOK
    /\ \A s \in Sends : sender[s] \in {"ringing", "waiting"} => Places(s) = 1

(* Where a fax is, from its sender's submission to its return. *)
Stage(s) ==
    CASE sender[s] = "over" -> "over"
      [] sender[s] \notin {"ringing", "waiting", "over"} -> "idle"
      [] OTHER -> IF s \in calls THEN "calling"
                  ELSE IF answers[s] # <<>> THEN Head(answers[s])
                  ELSE IF s \in OnChannel \cup Queued THEN "submitted"
                  ELSE "lost"

Promise == INSTANCE Transmission WITH stage <- [s \in Sends |-> Stage(s)]

(* service_loop, its threads and the senders keep what Transmission says:  *)
(* whatever breaks or stops, a fax is called once at most, a call is never *)
(* given up for a second one, and only an end or a failure is answered.    *)
ImplementsTransmission == Promise!Spec

(* Command::Send: the engine starts a transmission when one of its own has *)
(* ended; the service counts its calls for itself.  No fax that the engine *)
(* has room for is refused for lack of room in the service.                *)
CapacityAgrees == \A s \in Sends : answers[s] # <<"refused">>

(* The Status events: while the loop sleeps, a receiver shown as ready has *)
(* a slot on a registered connection of the very account it is configured  *)
(* for, and one that was switched off is not shown as anything else.       *)
StatusHonest ==
    loop \in Sleeping /\ incoming = None =>
       /\ status = "ready" => available /\ desired # None /\ retry = "now"
                                /\ Listened(connections)
       /\ desired = None => status = "off"

(* ensure_connection, the doorbell, PendingSend::prepare: a submitted fax  *)
(* is answered.  Left out are three cases in which it may wait for ever:   *)
(* somebody else wants its account in another version (see ContestedEnds), *)
(* the loop, about to sleep for a day, found both faxe-connect threads not *)
(* quite ended, and every connection takes more than 30 seconds, so that   *)
(* the loop believes it slept (see OnlySleepInterrupts) and starts again.  *)
Contested(s) ==
    \/ desired # None /\ desired.id = account[s].id /\ desired.version # account[s].version
    \/ \E t \in Queued : account[t].id = account[s].id /\ account[t].version # account[s].version
Starved == loop = "sleeps" /\ ~bell /\ \A w \in Slots : workers[w] # None
EverySendEnds ==
    \A s \in Sends : []<>(sender[s] \in {"idle", "over"} \/ Contested(s) \/ Starved \/ loop = "late")

(* Cancellation::cancel and set_wake: one of the two rings, and the loop   *)
(* looks at the flag: a cancelled fax ends even where others wait forever. *)
CancelEnds ==
    \A s \in Sends : []<>(s \in Flagged => sender[s] \in {"idle", "over"})

(* service.rs:1137: a call is given up when the computer was asleep.       *)
OnlySleepInterrupts ==
    loop = "late" => calls = {} /\ incoming = None

(* service.rs:1040: a fax that was queued with another version of the      *)
(* profile is refused, so that it can be queued with the current one.      *)
ContestedEnds ==
    \A s \in Sends : []<>(sender[s] \in {"idle", "over"} \/ Starved \/ loop = "late")
=============================================================================
