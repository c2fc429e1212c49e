-------------------------------- MODULE Config --------------------------------
(***************************************************************************)
(* The engine's configuration: receiver settings, profiles with their      *)
(* passwords, and the preferences file.  The actor handles one message at  *)
(* a time; whatever may block, the credential store, the preferences file, *)
(* the decoding of a preview, goes to a pool of two threads behind a       *)
(* bounded queue, and comes back to the actor as a completion.             *)
(*                                                                         *)
(* While a password is being read, settings, profiles and passwords may    *)
(* change: a generation number tells a stale read.  Preferences that come  *)
(* while others are being written are coalesced.                           *)
(*                                                                         *)
(* A profile's data and a password are named by the call that saved them.  *)
(***************************************************************************)
EXTENDS Naturals, Sequences, FiniteSets

CONSTANTS Calls,        \* the calls of the application
          Profiles, Direct, None,
          PoolSize,     \* the length of the pool's queue (64)
          MaxReplies,   \* how many preferences are coalesced (64)
          Cases         \* bound: what each call asks for, the receiver's first
                        \* settings, and how many operations fail

Threads == 1..2

Targets == Profiles \cup {Direct, None}

(* What a call asks for, and of which receiver or profile.                 *)
Asks ==
    [what : {"nothing", "reconnect", "settings", "preview"}]
    \cup [what : {"configure"}, of : Targets]
    \cup [what : {"profile", "password"}, of : Profiles, register : BOOLEAN]

ASSUME ConfigAssumption ==
    /\ IsFiniteSet(Calls) /\ IsFiniteSet(Profiles)
    /\ PoolSize \in Nat \ {0} /\ MaxReplies \in Nat \ {0}
    /\ Direct \notin Profiles /\ None \notin Profiles \cup {"good"}
    /\ Cases \subseteq [receiver : Targets, faults : Nat, asks : [Calls -> Asks]]

VARIABLES
    asks,           \* what each call asks for
    call,           \* how far each call is
    inbox,          \* the requests channel
    settings,       \* view.receive_settings: the target, and who chose it
    profiles,       \* the saved profiles
    keyring,        \* the credential store
    generation, configuring,
    saving, pending,    \* settings_saving, settings_pending
    accepted,       \* the saves of preferences, in the order they were accepted
    file,           \* settings.json
    pool, io, completed,    \* the pool's queue, its threads, Internal::Finished
    installed,      \* the receiver the service was last configured with
    told,           \* whether the last refresh_receiver ended in a shown error
    engine,
    faults

receiver == <<settings, profiles, generation, configuring, installed, told>>
preferences == <<saving, pending, accepted>>
stored == <<keyring, file>>
work == <<pool, io, completed>>
vars == <<asks, call, inbox, receiver, preferences, stored, work, engine, faults>>

Off(by) == [of |-> None, by |-> by]
Receiver(s, version, password) == [settings |-> s, version |-> version, password |-> password]

Init ==
    /\ \E c \in Cases :
          /\ asks = c.asks /\ faults = c.faults
          /\ settings = [of |-> c.receiver, by |-> None]
    /\ call = [c \in Calls |-> IF asks[c].what = "nothing" THEN "ok" ELSE "idle"]
    /\ inbox = <<>>
    /\ profiles = [p \in Profiles |-> [version |-> None, register |-> TRUE]]
    /\ keyring = [p \in Profiles |-> None]
    /\ generation = 0 /\ configuring = FALSE
    /\ saving = FALSE /\ pending = None /\ accepted = <<>> /\ file = None
    /\ pool = <<>> /\ io = [t \in Threads |-> None] /\ completed = <<>>
    /\ installed = Receiver(Off(None), None, None) /\ told = FALSE
    /\ engine = "opening"

Fault == faults > 0 /\ faults' = faults - 1
Answer(set, how) == call' = [c \in Calls |-> IF c \in set THEN how ELSE call[c]]
Room == Len(pool) < PoolSize
-----------------------------------------------------------------------------
(* refresh_receiver, with the settings and profiles it finds.  A password  *)
(* is needed for a profile only, and only one read is under way.           *)

Refreshes(s, busy) == (s.of \in Profiles /\ ~busy) => Room     \* without an error

Credentials(s, version) ==
    [what |-> "credentials", generation |-> generation + 1, settings |-> s, version |-> version]

Refresh(s, ps, busy) ==
    /\ generation' = generation + 1
    /\ told' = ~Refreshes(s, busy)
    /\ configuring' = IF s.of \in Profiles THEN busy \/ Room ELSE busy
    /\ installed' = IF s.of \in Profiles THEN installed ELSE Receiver(s, None, None)
    /\ pool' = IF s.of \in Profiles /\ ~busy /\ Room
                 THEN Append(pool, Credentials(s, ps[s.of].version)) ELSE pool

Open ==
    /\ engine = "opening"
    /\ engine' = "running"
    /\ Refresh(settings, profiles, FALSE)
    /\ UNCHANGED <<asks, call, inbox, settings, profiles, preferences, stored,
                   io, completed, faults>>
-----------------------------------------------------------------------------
(* The calls.  A call is answered by the actor at once, or when the work   *)
(* it asked for is done.                                                   *)

Submit(c) ==
    /\ call[c] = "idle"
    /\ IF engine \in {"opening", "running"}
         THEN Answer({c}, "sent") /\ inbox' = Append(inbox, c)
         ELSE Answer({c}, "stopped") /\ UNCHANGED inbox
    /\ UNCHANGED <<asks, receiver, preferences, stored, work, engine, faults>>

Handles(c, what) ==
    /\ engine = "running" /\ inbox # <<>> /\ c = Head(inbox)
    /\ asks[c].what = what
    /\ inbox' = Tail(inbox)
    /\ UNCHANGED <<asks, stored, io, completed, engine>>

(* A request that fails before it changes anything.                        *)
Refuses(c) ==
    /\ Answer({c}, "refused")
    /\ UNCHANGED <<receiver, preferences, pool>>

Receivable(target) == target \in Profiles => profiles[target].register

ConfigureReceiver(c) ==
    /\ Handles(c, "configure")
    /\ LET new == [of |-> asks[c].of, by |-> c]
       IN \/ /\ Receivable(new.of)
             /\ settings' = new
             /\ Refresh(new, profiles, configuring)
             /\ Answer({c}, IF Refreshes(new, configuring) THEN "ok" ELSE "refused")
             /\ UNCHANGED <<profiles, preferences, faults>>
          \/ ~Receivable(new.of) /\ Refuses(c) /\ UNCHANGED faults
          \/ Receivable(new.of) /\ Fault /\ Refuses(c)

ReconnectReceiver(c) ==
    /\ Handles(c, "reconnect")
    /\ Refresh(settings, profiles, configuring)
    /\ Answer({c}, IF Refreshes(settings, configuring) THEN "ok" ELSE "refused")
    /\ UNCHANGED <<settings, profiles, preferences, faults>>

(* Actor::save_profile: the receiver's own profile has to register.        *)
Savable(c) == settings.of = asks[c].of => asks[c].register
SavesProfile(c) ==
    LET new == [profiles EXCEPT ![asks[c].of] = [version |-> c, register |-> asks[c].register]]
        receiving == settings.of = asks[c].of
    IN /\ Savable(c)
       /\ profiles' = new
       /\ IF receiving THEN Refresh(settings, new, configuring)
                       ELSE UNCHANGED <<generation, configuring, installed, told, pool>>
       /\ Answer({c}, IF receiving /\ ~Refreshes(settings, configuring) THEN "refused" ELSE "ok")
       /\ UNCHANGED <<settings, preferences, faults>>

SavesOrRefuses(c) ==
    \/ SavesProfile(c)
    \/ ~Savable(c) /\ Refuses(c) /\ UNCHANGED faults
    \/ Savable(c) /\ Fault /\ Refuses(c)

SaveProfile(c) == Handles(c, "profile") /\ SavesOrRefuses(c)

(* save_profile_with_password, preview: the rest happens in the pool.      *)
Hands(c, what) ==
    /\ Handles(c, what)
    /\ IF Room THEN /\ pool' = Append(pool, [what |-> what, call |-> c])
                    /\ Answer({c}, "accepted")
                    /\ UNCHANGED <<receiver, preferences>>
               ELSE Refuses(c)
    /\ UNCHANGED faults

SavePassword(c) == Hands(c, "password")
Preview(c) == Hands(c, "preview")

(* Mutant: settings_saving stays set when the pool is full. *)
StartSettingsStuck(busy, waiting) ==
    /\ saving' = (busy \/ waiting # None)
    /\ pending' = IF busy THEN waiting ELSE None
    /\ pool' = IF ~busy /\ waiting # None /\ Room
                 THEN Append(pool, [what |-> "settings", value |-> waiting.value,
                                    replies |-> waiting.replies])
                 ELSE pool

(* start_settings, with the preferences that wait; at a full pool they are *)
(* lost, and whoever waits for them is told that the worker stopped.       *)
StartSettings(busy, waiting) ==
    /\ saving' = (busy \/ (waiting # None /\ Room))
    /\ pending' = IF busy THEN waiting ELSE None
    /\ pool' = IF ~busy /\ waiting # None /\ Room
                 THEN Append(pool, [what |-> "settings", value |-> waiting.value,
                                    replies |-> waiting.replies])
                 ELSE pool
Lost(busy, waiting) == IF ~busy /\ waiting # None /\ ~Room THEN waiting.replies ELSE {}

(* Mutant: the first value is kept, and only its callers grow. *)
QueuedFirst(c) ==
    [value |-> IF pending = None THEN c ELSE pending.value,
     replies |-> {c} \cup (IF pending = None THEN {} ELSE pending.replies)]

(* queue_settings: a later value replaces the one that waits.              *)
Queued(c) ==
    [value |-> c, replies |-> {c} \cup (IF pending = None THEN {} ELSE pending.replies)]
Full == pending # None /\ Cardinality(IF pending = None THEN {} ELSE pending.replies) >= MaxReplies

SaveSettings(c) ==
    /\ Handles(c, "settings")
    /\ IF Full
         THEN Refuses(c)
         ELSE /\ StartSettings(saving, Queued(c))
              /\ LET lost == Lost(saving, Queued(c))
                 IN call' = [d \in Calls |-> CASE d = c -> IF c \in lost THEN "refused" ELSE "accepted"
                                               [] d # c /\ d \in lost -> "stopped"
                                               [] OTHER -> call[d]]
              /\ accepted' = Append(accepted, c)
              /\ UNCHANGED receiver
    /\ UNCHANGED faults
-----------------------------------------------------------------------------
(* The pool's threads.  A piece of work succeeds, fails or panics.         *)

WorkerTakes(t) ==
    /\ io[t] = None /\ pool # <<>>
    /\ io' = [io EXCEPT ![t] = [work |-> Head(pool), result |-> None, password |-> None]]
    /\ pool' = Tail(pool)
    /\ UNCHANGED <<asks, call, inbox, receiver, preferences, stored, completed,
                   engine, faults>>

WorkerDoes(t) ==
    /\ io[t] # None /\ io[t].result = None
    /\ LET job == io[t].work
           of == CASE job.what = "credentials" -> job.settings.of
                   [] job.what = "password" -> asks[job.call].of
                   [] OTHER -> None
       IN \/ /\ keyring' = IF job.what = "password" THEN [keyring EXCEPT ![of] = job.call] ELSE keyring
             /\ file' = IF job.what = "settings" THEN job.value ELSE file
             /\ io' = [io EXCEPT ![t].result = "good",
                                 ![t].password = IF of # None THEN keyring[of] ELSE None]
             /\ UNCHANGED faults
          \/ /\ Fault
             /\ io' \in {[io EXCEPT ![t].result = how] : how \in {"bad", "panic"}}
             /\ UNCHANGED stored
    /\ UNCHANGED <<asks, call, inbox, receiver, preferences, pool, completed, engine>>

WorkerSends(t) ==
    /\ io[t] # None /\ io[t].result # None
    /\ completed' = Append(completed, io[t])
    /\ io' = [io EXCEPT ![t] = None]
    /\ UNCHANGED <<asks, call, inbox, receiver, preferences, stored, pool, engine, faults>>
-----------------------------------------------------------------------------
(* The completions.                                                        *)

Done == Head(completed)
Completes(what) ==
    /\ engine \in {"running", "stopping"} /\ completed # <<>>
    /\ Done.work.what = what /\ Done.result # "panic"
    /\ completed' = Tail(completed)
    /\ UNCHANGED <<asks, inbox, stored, io, engine>>
(* Mutant: whatever was read is installed. *)
CurrentAlways == TRUE

Current == Done.work.generation = generation

CredentialsStopping ==
    /\ Completes("credentials") /\ engine = "stopping"
    /\ configuring' = FALSE
    /\ UNCHANGED <<call, settings, profiles, generation, installed, told, preferences,
                   pool, faults>>

CredentialsStale ==
    /\ Completes("credentials") /\ engine = "running" /\ ~Current
    /\ Refresh(settings, profiles, FALSE)
    /\ UNCHANGED <<call, settings, profiles, preferences, faults>>

InstallReceiver ==
    /\ Completes("credentials") /\ engine = "running" /\ Current
    /\ configuring' = FALSE
    /\ IF Done.result = "good"
         THEN installed' = Receiver(Done.work.settings, Done.work.version, Done.password)
              /\ UNCHANGED told
         ELSE told' = TRUE /\ UNCHANGED installed
    /\ UNCHANGED <<call, settings, profiles, generation, preferences, pool, faults>>

PasswordSaved ==
    /\ Completes("password")
    /\ LET c == Done.work.call
       IN IF engine = "running" /\ Done.result = "good"
            THEN SavesOrRefuses(c)
            ELSE /\ Answer({c}, IF Done.result = "good" THEN "stopped" ELSE "refused")
                 /\ UNCHANGED <<receiver, preferences, pool, faults>>

SettingsSaved ==
    /\ Completes("settings")
    /\ LET lost == Lost(FALSE, pending)
           how == IF Done.result = "good" THEN "ok" ELSE "refused"
       IN call' = [c \in Calls |-> CASE c \in Done.work.replies -> how
                                     [] c \in lost \ Done.work.replies -> "stopped"
                                     [] OTHER -> call[c]]
    /\ StartSettings(FALSE, pending)
    /\ UNCHANGED <<receiver, accepted, faults>>

Previewed ==
    /\ Completes("preview")
    /\ Answer({Done.work.call}, IF Done.result = "good" THEN "ok" ELSE "refused")
    /\ UNCHANGED <<receiver, preferences, pool, faults>>

(* complete: a panic ends the engine; whoever waits is told so.            *)
Waiting(job) == CASE job.what = "settings" -> job.replies
                  [] job.what \in {"password", "preview"} -> {job.call}
                  [] OTHER -> {}

Panicked ==
    /\ engine \in {"running", "stopping"} /\ completed # <<>> /\ Done.result = "panic"
    /\ completed' = Tail(completed)
    /\ Answer(Waiting(Done.work), "stopped")
    /\ engine' = "stopping"
    /\ generation' = IF engine = "running" THEN generation + 1 ELSE generation
    /\ UNCHANGED <<asks, inbox, settings, profiles, configuring, installed, told,
                   preferences, stored, pool, io, faults>>

Stop ==
    /\ engine = "running"
    /\ engine' = "stopping" /\ generation' = generation + 1
    /\ UNCHANGED <<asks, call, inbox, settings, profiles, configuring, installed, told,
                   preferences, stored, work, faults>>

(* The actor leaves when no work is under way; its channels go with it.    *)
Stopped ==
    /\ engine = "stopping"
    /\ pool = <<>> /\ completed = <<>> /\ \A t \in Threads : io[t] = None
    /\ engine' = "stopped"
    /\ Answer({c \in Calls : call[c] \in {"sent", "accepted"}}, "stopped")
    /\ inbox' = <<>> /\ pending' = None
    /\ UNCHANGED <<asks, receiver, saving, accepted, stored, work, faults>>
-----------------------------------------------------------------------------
Request(c) == \/ ConfigureReceiver(c) \/ ReconnectReceiver(c) \/ SaveProfile(c)
              \/ SavePassword(c) \/ Preview(c) \/ SaveSettings(c)
Completion == \/ CredentialsStopping \/ CredentialsStale \/ InstallReceiver
              \/ PasswordSaved \/ SettingsSaved \/ Previewed \/ Panicked
Thread(t) == WorkerTakes(t) \/ WorkerDoes(t) \/ WorkerSends(t)
Next ==
    \/ Open \/ Stop \/ Stopped \/ Completion
    \/ \E c \in Calls : Submit(c) \/ Request(c)
    \/ \E t \in Threads : Thread(t)

Spec == Init /\ [][Next]_vars
FairSpec ==         \* the actor and the pool's threads run
    /\ Spec
    /\ WF_vars(Open) /\ WF_vars(Stopped) /\ WF_vars(Completion)
    /\ WF_vars(\E c \in Calls : Request(c))
    /\ \A t \in Threads : WF_vars(Thread(t))
-----------------------------------------------------------------------------
(* Every variable stays within its type.                                   *)
Works ==
    [what : {"credentials"}, generation : Nat, version : Calls \cup {None},
     settings : [of : Profiles, by : Calls \cup {None}]]
    \cup [what : {"password", "preview"}, call : Calls]
    \cup [what : {"settings"}, value : Calls, replies : SUBSET Calls]
Runs ==
    [work : Works, result : {None, "good", "bad", "panic"}, password : Calls \cup {None}]
TypeOK ==
    /\ asks \in [Calls -> Asks]
    /\ call \in [Calls -> {"idle", "sent", "accepted", "ok", "refused", "stopped"}]
    /\ inbox \in Seq(Calls) /\ accepted \in Seq(Calls)
    /\ settings \in [of : Targets, by : Calls \cup {None}]
    /\ profiles \in [Profiles -> [version : Calls \cup {None}, register : BOOLEAN]]
    /\ keyring \in [Profiles -> Calls \cup {None}]
    /\ generation \in Nat /\ configuring \in BOOLEAN /\ told \in BOOLEAN
    /\ saving \in BOOLEAN /\ faults \in Nat
    /\ pending \in [value : Calls, replies : SUBSET Calls] \cup {None}
    /\ file \in Calls \cup {None}
    /\ pool \in Seq(Works) /\ Len(pool) <= PoolSize
    /\ io \in [Threads -> Runs \cup {None}] /\ completed \in Seq(Runs)
    /\ engine \in {"opening", "running", "stopping", "stopped"}

(* refresh_receiver, install_receiver: when no password is being read and  *)
(* no error was shown, the service listens with the settings, the profile  *)
(* and the password that were saved last, whatever changed meanwhile.      *)
ReceiverIsCurrent ==
    /\ TypeOK
    /\ engine = "running" /\ ~configuring /\ ~told =>
          /\ installed.settings = settings
          /\ settings.of \in Profiles =>
                /\ profiles[settings.of].register
                /\ installed.version = profiles[settings.of].version
                /\ \/ installed.password = keyring[settings.of]
                   \/ \E c \in Calls : /\ asks[c].what = "password" /\ asks[c].of = settings.of
                                       /\ call[c] \in {"accepted", "refused", "stopped"}

(* queue_settings, start_settings: a caller who was told that preferences  *)
(* are saved finds them in the file, or others that were accepted later.   *)
LastSaveWins ==
    \A n \in DOMAIN accepted :
       call[accepted[n]] = "ok" => \E m \in n..Len(accepted) : file = accepted[m]

(* spawn, complete, stop: every call is answered, at a full pool, after a  *)
(* panic and when the engine stops as well.                                *)
CallsEnd ==
    \A c \in Calls : call[c] \in {"sent", "accepted"} ~> call[c] \in {"ok", "refused", "stopped"}
=============================================================================
