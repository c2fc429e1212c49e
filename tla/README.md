# faxe in TLA+

faxe sends and receives faxes over SIP: an engine with a durable queue
(`crates/faxe-engine`), a native layer that runs the SIP calls and the fax
modem (`crates/faxe-native`), a C interface with a Go client, a command line
and a desktop application.  This directory holds TLA+ models of the parts of
it whose correctness depends on the order of things: threads, channels, the
database, the user's folder, the network and crashes.  Every module is
translated from the source; `PROJECT.json` maps each definition to its lines.

## The system

One process holds

* the **actor**, a thread that alone owns the SQLite store and the `EngineView`
  that everyone else watches (`runtime.rs`).  It takes requests of handles
  (bounded channel), completions and offers (unbounded channel), events of the
  SIP service and a stop signal, one at a time, and fills free transmit slots
  and the exporter before it waits for the next message;
* **worker threads** it spawns and counts: one `faxe-transmit` for each call,
  one `faxe-export`, a pool of two for credentials, profiles, settings and
  previews, and `faxe-stop`.  A worker talks to the actor by completions, some
  of which it waits for;
* the **SIP service** (`sip/service.rs`), a thread with PJSIP's endpoint, its
  connections, the incoming slots, the pending admissions and all active calls;
  it takes commands (unbounded channel and a doorbell) and sends events;
* **handles** in the application's threads, which send requests and wait for
  revisions of the view.

| component | state | operations | what must hold | module |
|---|---|---|---|---|
| transmission queue | jobs table, view, `active`, `clear_active`, workers | enqueue, retry, cancel, clear, claim, report, end, stop, recover, wait | a fax is sent at most once; served in order; what is acknowledged or finished stays; cleared stays cleared; slots drain; waiters return | `Queue`, `JobLifecycle` |
| export | received_faxes table, spool, staging, folder, `exports`, `exporting` | finish, retry, render, stage, journal, link, sync, clean, recover | one copy in the folder; nothing overwritten; published is there (on unix, also after a crash of the machine); nothing forgotten; announced once, when it is there | `Export`, `Delivery` |
| incoming admission | slots, Call-IDs, `ADMISSION`, calls, deadlines; `admissions`, rows | INVITE, hang-up, expiry, offer, accept, reject, cancel, answer, end, sleep, stop | a call is answered only with a stored row; every stored row ends once, and only the exporter corrects it; slots are not lost or exceeded | `Reception`, `Inbox` |
| outgoing calls of the service | commands, doorbell, `pending`, calls, connections, connectors, receiver | send, connect, prepare, register, configure, reconnect, cancel, fail, sleep, stop | every send is called once at most and answered once; the two counts of calls agree; the receiver's status is true | `Service`, `Transmission` |
| cancellation, doorbell | flag, wake callback, socket | cancel, set_wake, notify | no lost wake-up | `Service` |
| call pump | negotiation attempt, media, fax | invite, re-INVITE, 491, fallback, tick, end | both ends agree on the media; negotiation ends | `CallPump` |
| audio of a call | peer, stream, probation, ring of samples, frames | receive, select, insert, restart, stall, update, drain | one peer; no sample at another's time; no training lost | `Media` |
| T.38 of a call | queue, history, sequence, expected, watchdog | produce, send, receive, recover, end | what is heard was sent, in order; only long gaps; the call ends | `Packets` |
| receiver configuration, settings, profiles | generation, `configuring`, `settings_pending`, pool, credentials, file | configure, reconnect, save, coalesce, read, reply | no stale configuration stays installed; the last save wins; every caller is answered | `Config` |
| C interface, Go client | operations, reader, channels, offers, handlers | open, submit, cancel, poll, wait, progress, decide, close | who gives up leaves no fax or offer behind; no waiter sleeps for ever | `GoClient` |
| session descriptions | none | offer, answer, parse | an answer fits its offer | not modelled |
| documents, TLS, STUN, sockets, bindings, rendering, logging, CLI, desktop, packaging | | | | not modelled (see below) |

How they meet: `GoClient` and the desktop application ask the actor (`Queue`,
`Export`, `Reception`, `Config`); a transmit worker of `Queue` is a sender
thread of `Service`; `Config` installs what `Service` is configured with; an
incoming connection of `Service` feeds `Reception`, whose finished rows feed
`Export`; a call of either direction is `CallPump`, and then `Media` or
`Packets`.  Each module treats its neighbours as an environment that may do
what the neighbour's code may do, and more.

Behaviours that are hard: the actor and its workers interleave at every
message; store writes may fail between two of them; the process or the machine
may die between any two steps and the database decides what is recovered;
calls hang up, time out, or lose their connection while the engine stores
their row; a stop must drain all of it.  `PROJECT.json` lists these as hazards,
each at its line with the properties that would catch it going wrong.

## Modules

### Queue — the outgoing queue

State follows the code's: `row` is the jobs table, `view` is `EngineView.jobs`,
`mem` is `Actor.active`, `clearing` is `clear_active`, `worker` and `mail` say
where each transmit thread is and what it has sent and not been answered.
`born` is the `created, rowid` order.  `pc` is the actor's place in its loop:
at the top it fills slots (`StartSend`, `SpawnFails`, `ClaimFails`, `Filled`),
in `select` it handles one message and returns to the top (`Handles`).  A
worker gives up or dials, reports and waits for the acknowledgement, and ends;
`Sent` and `Progress` are what the actor does with that.  A panic stops the
engine and leaves its job in the active map, as `complete` does.  `Crash` may
happen between any two steps, also while `Store::open` turns active rows into
Interrupted ones, one write each (`Recover`).

Data is reduced to the kind of a `JobState` and the acknowledged pages.  A
report, or the receipt at the end, is any stage or any number of pages in any
order, up to `MaxCount`, the largest that its 32 bits hold: nothing is assumed
of what the modem reports, and a count may lie above the pages of the document,
which the actor does not compare (`runtime.rs:1407`, `1448`).  A worker may end
as cancelled also without a request to cancel its job: the teardown of the
service loop answers what was not sent yet with that error
(`service.rs:1676`).

`JobLifecycle` is what the queue promises of a fax: it is queued once, its
life moves forward only, and it is transmitted at most once, while active.
`Queue` refines it (`ImplementsLifecycle`): life is read off the row, calls
off the history variable `dials`.

### Export — received faxes become files

`row` is the received_faxes table (with the status of the export), `folder`
what each name of the receive folder holds, `staging` and `pdf` the files of
the exporter, `unsynced` the links a crash of the machine may undo.  The thread
is at `step` in `export()`, with its own `copy` of the status; each action is
what happens between two writes.  Receptions have the same file name stem, so
that they compete for names.  A file is recognised by its owner because every
rendered PDF ends with a marker of its reception.

The process may crash (`Crash`), which loses memory, and the machine
(`MachineCrash`), which loses what was not synced too.  `sync_directory`
(`export.rs:288`) syncs on unix only, and is empty on Windows, which faxe
supports: `platform` says which and never changes (`Unix`, `SyncDirectory`).
On unix a crash of the machine may lose any subset of the links made since the
folder was synced.  Elsewhere that is any link since the last such crash, and
the staging file and the PDF in the spool
may be lost as well; a PDF rendered again (`redrawn`) may differ from what was
staged or linked before, so that the exporter does not know its own file
(`SameContent`, `StagingChanged`).  The database is opened with WAL and
`synchronous=FULL` (`store.rs:42`): a journalled row survives either crash.

`Delivery` is what the exporter promises of a fax: once received it waits,
through any number of attempts, until it is published or found empty; it is
announced in the step that publishes it and in no other; from then on it is in
the folder.  Where directories are synced (`durable <- Unix`) only the user
removes it; elsewhere a crash of the machine may remove it too (`Vanish`), and
the fax is not announced again for that.  `Export` refines it
(`ImplementsDelivery`): the fate of a fax is read off its row, the shelf off
the rows and the folder together, so that an announcement before the file is
there, a file taken for that of another fax, or, on unix, a crash that undoes
the link of a published fax, is no step of it.

Left out: `render.json` with the pages it counts and the outcome it corrects
(that is `Recovers` of `Reception`), the length of the staging file, the
staging file being changed by others, the folder being changed in the settings
(the last three are error returns that `ThreadFails` stands for).  What the
user and other programs do to the folder is taken as durable at once, and so is
the image file of a reception that ended.

### Reception — the admission handshake

Two threads and three FIFO channels.  The service thread keeps the incoming
slots (`available`), the Call-ID of every incoming call (`ids`), the calls
that were not answered (`admission`) and those that were (`calls`).  An INVITE
takes a slot and sends an offer.  The actor looks at the offer's flag
(`valid`), stores the row, and answers in a later step (`answering`), so that
the service moves in between; it may also wait for the application's decision
(`Manual`).  `Answer`, `AnswerFails` and `AnswerNobody` are the three ways an
`Admit(Ok)` is handled.  `Loses` is what sleep and lost connections have in
common.  `TearDown` is the end of the service loop by a stop or by an error,
after which the command channel stays open but unread until the thread
returns (`loop = "down"`).

The passes of `service_loop` are not modelled: each of its parts is an action
and any order is allowed, which includes the code's.  In the same way two
successive readings of `is_pending` with nothing between them are one.  Left
out: Status and Progress events, outgoing calls (which `reconnect` waits for
and a lost connection ends), and the second half of `received`, which queues
the export: that is `Finished` of `Export`.  In `Reception`, `pages` stands
for a call with at least one complete page and `empty` for one without.

The outcome that `Received` stores is not the last word: `render` and `export`
of the exporter replace it by Partial where the image data is damaged or of a
call that did not end well (`export.rs:203`, `312`), and have the actor save
that (`runtime.rs:1303`).  `Recovers` is that step; it may come for any
reception that ended, because what the image data holds is not modelled.

`Inbox` is what the two threads promise of every incoming call: it is answered
once at most, only after its record was stored, and never more than `Limit` at
a time; the record ends once, as received only if the call was answered and
ended with pages, and changes after that only to Partial, once.  A record that nobody is going to close (`stale`, until the
next start of the engine) is allowed only where something broke.  `Reception`
refines it (`ImplementsInbox`): the stage of a call is read off `calls`, its
row and what is on its way about it in the channels (`Stage`), so that an end
that is lost or reported twice, a call that is answered without a record, or a
record that tells another end than the call had, is no step of it.

### CallPump — the two ends agree on the media

Two ends of faxe in one call, the caller transmitting.  `pump` is the
`CallPump` of an end reduced to what its decisions depend on; `events` is
`Callbacks.events`, drained as a batch by `Step`, which folds `Consume` over it
and then decides, as `step()` does; `current` is what `on_offer` compares an
offer with.  `switch_allowed` is not a variable: it is set for mode auto and
cleared in the step that starts the fax.  `offer`, `reply` and `linger` are the
one re-INVITE an end may have under way, its final response, and a refused
transaction that is reported a second time when its timer ends it.

PJSIP and the network are the environment: PJSIP answers 491 while an INVITE of
its own is pending, repeats a challenged offer with the next number, calls
`on_media` before `on_transaction`, and allows a re-INVITE once the last one
has its final response.  `Surprise` bounds what goes wrong on the way: refusals,
challenges, answers with a body of no use, and answers that take longer than
5 s.  Durations are left out, so that a backoff may be as short as it likes.  A
body that PJSIP can negotiate and `sdp::remote` cannot parse ends the call like
a hang-up does.

`CallInit`, `CallNext` and `CallSpec` have names of their own because
`CallProofs` extends `CallPump` and `Media` together.

### Service — outgoing calls inside the SIP service

A turn of `service_loop` is a sequence of phases (`loop`), each an action, and
ends in PJSIP's poll (`"sleeps"`), which a deadline, a packet or a datagram on
the `bell` ends.  The sender threads of the engine install the wake callback,
submit, ring and wait (`sender`); `canceller` is `Cancellation::cancel`, which
sets the flag, reads the callback and rings, each in a step of its own.
`connections`, `connectors` and `workers` are what `ensure_connection` and the
two faxe-connect threads work on, by account and version; `pending` and
`waiting` are the sends without a call, before and after this turn's look at
them.
`Places` counts where a send is.  `Retain` is the one loop over `pending` that
keeps what `prepare_sends` could not place; an INVITE may find that it took the
last slot or not (`available`), as slots come back at any time.

Each instance (`Cases`) is a limit, the accounts of the faxes, a receiver, and
a `script` of what else happens, in that order but at any time: configurations,
reconnections, cancellations, an incoming call, a failure, a computer that
sleeps, a stop, or an error that ends the loop.  A deadline is soon or a day
away.  Left out: Progress events, the two seconds a retired call is kept, the
growth of the back-off, what PJSIP does inside a call, and media that are
stale after a reconnection.

`Transmission` is what the service promises a sender: its fax is called once at
most, at most `limit` faxes are called at a time, and it is told once that the
call ended or that the fax failed; the service that is gone tells it nothing,
and it does not wait.  `Service` refines it (`ImplementsTransmission`): the
stage of a fax is read off its sender and the place it is in (`Stage`), so that
a call that is made again, an answer that a second one follows, or a refusal
for lack of room (`CapacityAgrees`) is no step of it.

### Media — the audio a fax modem hears

`Datagram(d)` is one packet on its way through `Peer::accept` (the pinned
address, symmetric RTP), the choice of the stream with its probation of three
packets in sequence, and `Playout::insert` with its signed differences of
timestamps.  `StartFrame`, `Play` and `EndFrame` are the worker's 20 ms frame,
which stalls, catches up and runs the watchdog; `UpdateRemote` is a re-INVITE
that changes codec or address; `Drain` is the end of the call.  A sample is
named by its stream and place, so that what was `played` shows what the modem
heard.  `played` and `taken` are history.  The numbers are counted in a small
ring: 2^32 becomes `Wrap`, 2^16 `WrapSeq`, 160 samples `FrameSamples`; the
stream `a` of the instance wraps both within its first packets.  `Insert` is
built from the lines of `Playout::insert`: the `Anchor`, the `Offset`, the
`Cursor` it may move back, the positions that are `Written`, and the slots
`Filled`; `InsertAll` is the loop over the three packets of a probation.
`MediaAssumption` says that a call is short against the width of a timestamp:
the pump gives a call up after 30 minutes (`sip.rs:290`), which is 14 400 000
samples of 2^32.

### Packets — a fax over T.38

Two ends, each a `PacketNetwork` with the terminal's queue.  `Send` takes one
packet and repeats up to three before it, as many as fit (`Redundant`); `wire`
keeps all that was sent, and any of it may arrive at any time, again, or never,
which is loss, duplication and reordering at once.  `Recovered` is what the
udptl crate gives back, modelled from its use.  `EndFrame` counts the frames
without activity and ends a stalled call; duplicates are no activity.  The
number of datagrams is bounded by the faxes, so that the sequence number does
not wrap here.  A packet is its size and its name, `Bytes` their sum.

### Config — receiver, profiles, preferences

Every public call puts a request into the actor's channel (`inbox`); the
handler answers, or gives work to the pool (`pool`, two threads in `io`) whose
completion (`completed`) the actor handles later.  A password read carries the
generation it was started for.  Preferences that come while others are being
written are merged into `pending`.  A version of a profile and a password are
named by the call that saved them, so that one can say what is the last one.
`Asks` is what a call may ask for, `Targets` what may be the receiver.  An
operation may fail or panic (`faults`); the engine may stop at any time.  Left
out: destinations, what the preferences say, and a service thread that is gone.

### GoClient — the C interface and the Go client

Two layers on one handle.  A sender's `submission` is the goroutine that waits
for `native`, the thread inside `faxe_submit` with its `operation`; the
context may end at any step, `SubmitCancels` cancels the operation and
`CheckRecorded` withdraws a job that was enqueued meanwhile.  `pump` polls the
reader and then replaces the channel `changed` (`Signal`): `held` and `heldToo`
are those who took the old one.  `Serve` takes offers from `incoming` to
handlers.  `closer` goes through `Close` step by step while everything else
goes on.  The engine below is reduced to the status of each fax.

## Runs

| run | instance | shows |
|---|---|---|
| queue_safety | 2 jobs of 1 page, 2 slots, reports of up to 2 pages, 1 restart, 1 fault | `ClaimsAgree`, `ViewIsStore`, `OldestFirst`, `ClearedStays`, `AcknowledgedIsKept`, `ImplementsLifecycle`: two concurrent calls whose steps interleave; a failed claim or a restart leaves two jobs queued, which is the least for an order to go wrong; a count may exceed the document's |
| queue_live | 2 jobs, 1 slot, 1 waiter | `QueueDrains`, `StopEnds`, `WaiterReturns`: one job waits for the other's slot |
| export | 2 receptions, 2 names, 1 other file, 2 restarts, on unix 2 faults | `ExportsOnce`, `JournalledFirst`, `ImplementsDelivery`, `ExportEnds`: with two names and a foreign file the limit of names is reached; a second restart finds what the first one left half done; on Windows the machine may lose the link, the staging file and the PDF of one attempt before the first restart and of the next before the second |
| reception_admission | 2 calls, 1 slot, manual | `NoOrphan`, `ReceptionEnds`, `StopEnds`: the second call needs the slot of the first |
| reception_slots | 2 calls, 2 slots, 2 accounts, 2 configurations, 2 faults | `EndsOnce`, `SlotsAgree`, `ImplementsInbox`: calls of an old account live on under the new one; one fault may take the answer of a call and the other the record of its end |
| call_media | all pairs of modes, 2 surprises | `SameMedia`, `CancelFindsOffer`, `NegotiationEndsUnlessUndone`: two surprises are enough for an unusable answer to an offer that was challenged, cancelled, or crosses one of the other end |
| go_client | one Send with its progress reader, or 2 offers for 1 place | `NoStray`, `FinalUpdateKept`, `EverybodyReturns`: the two workloads share nothing but the pump and Close |
| service | 10 cases of at most 2 faxes and 3 other events | `SendKept`, `StatusHonest`, `ImplementsTransmission`, `EverySendEnds`, `CancelEnds`: two faxes of one account and of another kind, one limit of calls, an account in two versions, each accident once |
| service_idle | the same | refutes `OnlySleepInterrupts` |
| config | 7 cases of 3 or 4 calls, a pool of 1 | `ReceiverIsCurrent`, `LastSaveWins`, `CallsEnd`: two reads under way with a third waiting fill the pool; three saves of preferences coalesce twice |
| media | 2 streams, 5 arrivals, 1 re-INVITE, 4 ticks | `RingAgrees`, `SamplesInPlace`, `OnePeer`, `TrainingKept`: a window of three frames, so that a packet can be late, early, beyond the ring, or before the one that anchored it; three packets end a probation and two more disturb it |
| packets | 3 pairs of faxes of at most 5 packets | `HeardAsSent`, `OnlyLongGaps`, `CallEnds`: four losses in a row need five packets; sizes that fit three, two, one or no packets into a datagram |

Several properties are conjunctions: each module's type invariant is part of
its structural invariant (`ClaimsAgree`, `SlotsAgree`, `SameMedia`,
`NoStray`, `SendKept`, `ReceiverIsCurrent`, `RingAgrees`, `HeardAsSent`,
`ExportsOnce`), and the parts that are named have theorems of their own where
there are proofs.

Deadlock is not checked: a queue with nothing to do, and an engine, client or
call that has stopped, are at rest.  `MaxCount` stands for 2^32 - 1.  The bounds `MaxRestarts`, `MaxFaults`,
`MaxFiles`, `MaxConfigs`, `Cases`, `Workloads`, `Faxes`, `MaxClock`,
`MaxArrivals` and `MaxUpdates` limit what the environment may do, not what the
system does; `Suffixes` stands for the 100 000 names the exporter tries,
`MaxSurprises` bounds the network.  In `Reception` a cancellation that is still
on its way is not sent again.  The theorems hold for every value of the
constants.

### Counterexamples

`service_idle` is a finding in `PROJECT.json`: a direct listener that nobody
called for 30 seconds takes the loop's own wait for a sleep of the computer and
refuses the call that ends it.  Six more configurations are kept beside the
runs; each is a statement the code suggests and TLC refutes
(`tlc -config X.cfg M`):

| configuration | refutes | what the code does |
|---|---|---|
| `MCQueueClearCrash` | `NotResurrected` | `clear_queue` remembers only in memory that an active job's row goes when its worker ends (`runtime.rs:894`).  If the process dies before that, the reopened engine shows the cleared fax, as Interrupted.  The test `clearing_an_active_queue_does_not_resurrect_jobs_or_delete_documents` stays within one life of the process. |
| `MCExportRetry` | `OneCopy` | `export()` sets Published before it journals it (`export.rs:379`).  If that save fails after the link, `runtime.rs:1323` finds a status that is not Publishing, replaces it by Failed and forgets the destination; a retry links a second copy under the next name. |
| `MCExportPowerCut` | `PublishedHasFile` | off unix `sync_directory` does nothing (`export.rs:288`), although Published is journalled durably and announced after it (`export.rs:378`).  If the machine fails before the file system wrote the link by itself, the reopened engine shows a published fax without a file; `export()` returns early for it (`export.rs:305`). |
| `MCReceptionLoopDies` | `SettledWhenGone` | when the service loop ends with an error its teardown answers the queued Send commands only (`service.rs:1679`); a queued `Admit(Ok)`, or one that comes until the thread returns, is dropped, and the row stays Receiving until the data directory is opened again. |
| `MCCallPumpStuck` | `NegotiationEnds` | in mode auto a fax over audio starts only after `Attempt::Rejected` (`sip.rs:560`).  If the 200 to our offer of T.38 and a re-INVITE of the peer back to audio are drained in one pass, the attempt is Accepted while the media is audio, and no fax starts until the call's 30 minutes are over. |
| `MCServiceContested` | `ContestedEnds` | "Queued profile differs from the active account; requeue with the current profile" (`service.rs:1040`) needs a connection.  While there is none, the receiver and the fax of the old version remove each other's connector every turn (`service.rs:372`), and the fax is neither sent nor refused. |

Three more observations have no property: two `save_profile_with_password`
calls for one profile run on two threads and may leave the password of one with
the profile of the other (`runtime.rs:339`); `start_settings` in a completion
drops the accepted preferences with an error if the pool is full, although
the line before says that they are flushed (`runtime.rs:1210`; their callers
are told); a stream the peer left and returns to is ignored until the watchdog
ends the call (`network.rs:288`).

### Fairness

* Queue: the actor fills slots and handles completions (its loop never stops
  between messages; `select!` picks among ready channels at random, so that
  one that stays ready is served: strong fairness for completions, which
  compete with requests).  A worker that was started goes on, and a
  transmission ends (`FaxBackend::send` returns: the call pump gives up after
  30 minutes, `sip.rs:290`).  Requests, cancels and faults are not fair.
* Export: the actor starts an export when the exporter is free, and the thread
  goes on.
* Reception: the service handles its commands, expires admissions and ends
  calls (30 minutes again); deadlines pass; the actor handles offers and
  events; the stop thread runs.  Callers and the application are not fair: no
  decision of theirs is waited for.
* CallPump: the network delivers offers and responses, each pump steps while it
  has events (its thread polls every 10 ms at most), a backoff ends, a cancelled
  offer is given up after 38 s, and a hang-up is noticed.  Neither users nor the
  30 minute limit are counted on.
* Service: the loop, the sender threads, the cancelling thread and the two
  connector threads go on (each is a thread that waits for nobody here); a
  registration is settled again and again and a call ends (strong fairness:
  both need a connection, which may be lost and made again).  `EverySendEnds`
  leaves out three states it names: a contested account, the loop asleep for a
  day while neither connector thread has quite ended, and a loop that takes
  every connection for a sleep of the computer.
* Config: the actor and the pool's threads.  The application asks when it likes.
* GoClient: the pump, Close, the goroutines and the native threads go on.
  Nothing is assumed of the engine, of contexts or of the application.
* Packets: each worker's frames go on; the network owes nothing.
* Media has no liveness property: its watchdog is that of `Packets`.

## Proofs

Each of the modules `QueueProofs`, `ExportProofs`, `ReceptionProofs`,
`GoClientProofs`, `ConfigProofs`, `ServiceProofs`, `CallProofs` (of a call:
`CallPump` and `Media`) and `PacketsProofs` proves with TLAPS, for all values of the constants under the
assumption of its component, every invariant and action property that the
component's passing runs check.  The assumptions are of three kinds: finite
sets and positive limits, model values that are apart (`None` is no stream),
and, where the environment is a constant, the type of what it may do (`Cases`,
`Datagrams`, `Faxes`).  None bounds the size of an instance; the one that
relates numbers, the length of a call against the width of a timestamp, is
explained at `Media`.  The step of each proof has one lemma or step per action.

**Queue.**  `TypeOK` is inductive (`TypeCorrect`).  The safety properties
follow from `Inv == Rows /\ Births /\ Works /\ Calls /\ Order` (`Invariant`):
a live worker's job is active in its row and in the map (`Works`), because a
crash ends the workers while the rows stay active, so that `AtMostOneCall`
alone is not inductive; a queued or starting job was not called (`Calls`); a
queued job is younger than all that were or are about to be called (`Order`).
From it follow `CalledAtMostOnce`, `ServedInOrder`, `FinishedStays`,
`AcknowledgedStays`, and `QueueImplementsLifecycle`, whose proof maps every
action to a step or a stutter of `JobLifecycle`.  `Mirror` (no fault: the
three records are one, the view is the table without jobs being cleared) gives
`ClaimsAlwaysAgree`, `ViewMirrorsStore` and `CleanStop`; `Cleared` gives
`ClearedStaysCleared`, which holds until the first restart:
`MCQueueClearCrash.cfg` shows that it does not hold after one.

**Export.**  `Place` ties the thread's `step` to its `copy` and to the row;
`Waits` says that the queue has no duplicates and not the reception being
exported; `Traced` (without faults, files in the folder are those the rows
name, and before the link none is there, but for faxes rendered again);
`Lasting` (a published fax was announced once and, on unix, its file is in the
folder and synced); `Remembered` (without faults,
what is not finished is queued, exported or asleep with the process).  They
give `JournalledBeforeLinked`, `PublishedStays`, `OpenedOnce`,
`QueuedAtMostOnce`, `NoneForgotten`, `NothingOverwritten` and `ExportedOnce`,
the invariant of the run.  `ExportImplementsDelivery` maps every action to a
step or a stutter of `Delivery`; it needs `Settled`, that the exporter works on
nothing that is published or empty and that a file the user took never comes
back, for a crash of the machine may undo any link that is not synced.  All of
them hold on both platforms; `PublishedStays` and the shelf of
`Delivery` say of the machine's crash what the code ensures on unix, and
nothing where directories are not synced (`MCExportPowerCut.cfg`).

**Reception.**  `Inv == TypeOK /\ Slots /\ Places /\ StopIsLast /\ (faults = 0
=> Followed)`.  `SlotsAgree` is not inductive: that a slot is not taken twice
depends on which calls the service still knows (`Slots`), and that an end is
reported once on a fax being in one place at a time, offered, being stored, on
its way to an answer, answered, or on its way to its end (`Places`: the two
queues hold it at most once and exclude each other).  `Followed` adds that a
row that is Receiving is in one of those places, which a failed write, a lost
command or a panic breaks; so it is stated while `faults = 0`, and
`StopIsLast` says that nothing follows a stop into the command channel.  From
it: `SlotsAlwaysAgree`, `EndsAtMostOnce`, `NoneOrphaned`, `NoneLeftWhenGone`
(`MCReceptionLoopDies.cfg` shows that it needs `faults = 0`) and
`OnlyExportChangesEnd` (of all steps only `Recovers` changes the record of a
reception that ended; no late report, answer, loss or stop does).  `ReceptionImplementsInbox` needs no assumption about faults:
`Goes` says how the place of one call may change in a step, in the terms of
`Places` (`GoesNext`, action by action); from it `GoesFollows` derives that its
stage follows the one before, and `KeepsPromise` that as few calls are answered
as there are slots and that none is left behind unless `faults > 0`.

**GoClient.**  `Inv` is `TypeOK`, `Running` (the engine runs until the client
is closed), and, for each sender, `Job` and `Final`, for each offer, `Offer`.
`Job` ties the two sides of the C interface: what the goroutine believes
(`submission`), what the native thread does (`native`), whether the operation
has its job (`recorded`) and what became of the fax; without it nothing says
that a Send that gave up finds the fax that was enqueued meanwhile.  `Final`
says that a reader holds the channel that the last signal will close, or has
the final status already.  Theorems: `NothingStrays`, `LastUpdateIsKept`.

**Config.**  `Inv == TypeOK /\ Distinct /\ Jobs /\ Requests /\ SavedIsKept /\
Listens`.  `SavedIsKept` is `LastSaveWins`; it is not inductive without `Jobs`,
which says of every piece of work under way (queued for the pool, in a thread,
completed) what its outcome will be worth: the preferences that are being
written, and those that wait, are not older than what callers were told
(`Ahead`).  `Listens` says the same of a password read and the generation it
goes by.  `Distinct` keeps the pieces of work apart, `Requests` the calls.
Theorems: `SavedPreferencesLast`, `ReceiverSettles`.

**Service.**  `Inv == TypeOK /\ Placed /\ Once /\ Room /\ Linked /\ Shown`.
`SendKept` counts places; to count them `Once` must say that no queue holds a
fax twice.  `Room` is the inequality between the calls the service counts and
the transmissions the engine counts; `Linked` that a connector without a
result has exactly one thread that was not told to stop; `Shown` that a free
slot belongs to the receiver's own connection.  What `Retain` keeps is found
by a least-number induction over the positions of `pending`.  Theorems:
`SendsAreKept`, `RoomForAll` (that is `CapacityAgrees`, which no run states by
itself), `StatusIsHonest`.  `ServiceImplementsTransmission` reads the stage of a
fax off the invariant (`StageOf`); `Moves` says how a step may move one fax,
`MovesNext` that every action does no more, and `MovesFollow` that a fax moved
like that goes where `Transmission` lets it go.

**CallPump.**  What an end has is not what it will decide by: PJSIP's callbacks
have queued events that the next `Step` drains.  The two ends therefore agree
only on the pumps *ahead*, on what the events not yet drained will make of
them.  `Ahead(e)` is that pump, and the inductive invariant is about any pair
`v` with `v[e] = Ahead(e)` (`Agreeing == \A v : Foreseen(v) => Sound(v)`), so
that a callback that queues an event is a move of the pump ahead, and the
`Step` that drains it is none, except for what the pump decides afterwards.
`Consumed` folds over a batch of any length; it is known event by event from an
argument by a least number (`ConsumedSteps`, `ConsumedOne`, `ConsumedLater`).
`Sound` is a conjunction: `Shaped` (types), `Staged` (before the call is
connected nothing is offered and no fax runs), `Wired` (who accepted an offer
has switched, and one end at most waits for such an answer), `Asked` (an
attempt waits exactly while its own, newest offer or the answer to it is under
way; its numbers stay small), `Runs` (a fax runs over the media of its end),
`Clean` (what is left of a call that is over), `Resorts` (without interference
audio follows three collisions only) and `Coherent` (the ends differ in their
media only while one waits for the answer that brings them together or ends the
call, `Behind`).  `Limited` bounds how often the network interfered.
Theorems: `AgreesOnMedia`, `CancelsWhatItOffered`.

**Media.**  `Inv == TypeOK /\ Good(playout) /\ Paced /\ Heard /\ Routed /\ Kept`.
`Good`: each sample in the ring is at its position in the window, congruent to
its timestamp (`Belongs`), before the end, which is at most a ring's length
after the cursor; so moving the cursor back never makes two samples share a
slot.  `Paced`: the window does not run ahead of the clock, so that positions
stay small.  `Heard`: what has left the ring lies before the window where it
belonged.  `SamplesInPlace` follows from congruence and smallness
(`CongruentAreEqual`): timestamps alone only fix a place up to the width.
`TrainingIsKept` computes the three positions of a probation's packets behind
the tail and shows that none of their slots is taken.  Theorems:
`RingIsRight`, `NothingIsShifted`, `PeerIsPinned`, `TrainingIsKept`.

**Packets.**  `Inv == Typed /\ Bounded /\ \A e \in Ends : Kept(e) /\ Sent(e) /\
Faithful(e)`: the history is the last three packets sent (`Kept`), the i-th
datagram carries the i-th packet and as many before it as fit (`Sent`), and
what was heard is a subsequence of what was sent (`Faithful`).  Theorems:
`HearsAsSent`, and `MissesOnlyLongGaps`, which needs of `Sent` that the
redundancy is as long as it can be.

**Only model-checked**:

* the liveness properties (fairness and ENABLED are out of the prover's
  reach): `QueueDrains`, `StopEnds`, `WaiterReturns`, `ExportEnds`, `ReceptionEnds` and
  `StopEnds` of `Reception`, `NegotiationEndsUnlessUndone`, `EverybodyReturns`,
  `EverySendEnds`, `CancelEnds`, `CallsEnd` and `CallEnds`;
* the refutations, which are about one instance by nature.

## Not modelled

* TLS records and certificates, STUN, sockets, the PJSIP and SpanDSP bindings:
  external code and I/O.  The models let what they deliver come at any time or
  not at all.
* Session descriptions: pure functions over text, with tests of their own; what
  they decide (kind, address, codec, maximum datagram) is an input of
  `CallPump`, `Media` and `Packets`.
* Preparation of documents and rendering of received pages: image processing.
* The command line, the desktop application, tray, notifications, credentials
  stores, logging, packaging, web site: sources of requests or views of the
  engine without state of their own that matters to it.
* In the modelled parts: the wall clock stepping back between two inserts (the
  queue's order is by `created` first), an engine without a fax backend, two
  store errors within one handler, the request channel's bound, and the
  blocking facade after a panic.

## Plan

1. Composing `Reception` and `Export` through what they promise: the calls that
   `Inbox` records as received are the faxes that `Delivery` receives.
2. Composing `Queue` and `Service` in the same way: the faxes that
   `JobLifecycle` has working are those that `Transmission` has submitted.
3. The session descriptions as functions from offers to answers over a small
   set of bodies.
