---------------------------- MODULE ConfigProofs ----------------------------
(***************************************************************************)
(* Theorems of the engine's configuration, for all calls, profiles, queue  *)
(* lengths and orders of work.                                             *)
(***************************************************************************)
EXTENDS Config, SequenceTheorems, TLAPS

(* The same piece of work: one password read, one write of preferences,    *)
(* and one piece for every other call are under way at most.               *)
Same(a, b) ==
    /\ a.what = b.what
    /\ a.what \in {"password", "preview"} => a.call = b.call

Distinct ==
    /\ \A i, j \in 1..Len(pool) : Same(pool[i], pool[j]) => i = j
    /\ \A i, j \in 1..Len(completed) : Same(completed[i].work, completed[j].work) => i = j
    /\ \A t, u \in Threads : io[t] # None /\ io[u] # None /\ Same(io[t].work, io[u].work) => t = u
    /\ \A i \in 1..Len(pool), t \in Threads : io[t] # None => ~Same(pool[i], io[t].work)
    /\ \A i \in 1..Len(pool), j \in 1..Len(completed) : ~Same(pool[i], completed[j].work)
    /\ \A t \in Threads, j \in 1..Len(completed) : io[t] # None => ~Same(io[t].work, completed[j].work)

(* Work under way, and what it goes by. *)
Fits(w) ==
    /\ w.what = "credentials" =>
          /\ configuring /\ w.generation <= generation
          /\ w.generation = generation =>
                w.settings = settings /\ w.version = profiles[settings.of].version
    /\ w.what \in {"password", "preview"} =>
          asks[w.call].what = w.what /\ call[w.call] = "accepted"
    /\ w.what = "settings" =>
          /\ saving
          /\ \A d \in w.replies : asks[d].what = "settings" /\ call[d] \notin {"idle", "sent"}

(* The preferences v are those of the n-th save, or of a later one.        *)
Newer(v, n) == \E m \in 1..Len(accepted) : n <= m /\ v = accepted[m]

(* Preferences that wait to be written are not older than those in the     *)
(* file that callers were told of, nor than those of their own callers.    *)
Ahead(w) ==
    w.what = "settings" =>
        \A n \in 1..Len(accepted) :
           call[accepted[n]] = "ok" \/ accepted[n] \in w.replies => Newer(w.value, n)

SavedIsKept == \A n \in 1..Len(accepted) : call[accepted[n]] = "ok" => Newer(file, n)

(* The password of the receiver's profile, unless a save of it has not     *)
(* been answered yet, or was answered with an error.                       *)
PasswordFits(password) ==
    \/ password = keyring[settings.of]
    \/ \E c \in Calls : /\ asks[c].what = "password" /\ asks[c].of = settings.of
                        /\ call[c] \in {"accepted", "refused", "stopped"}

(* What a piece of work came to. *)
Result(r) ==
    r.result = "good" =>
        /\ r.work.what = "settings" =>
              \A n \in 1..Len(accepted) : accepted[n] \in r.work.replies => Newer(file, n)
        /\ r.work.what = "credentials" /\ r.work.generation = generation =>
              PasswordFits(r.password)

Jobs ==
    /\ \A i \in 1..Len(pool) : Fits(pool[i]) /\ Ahead(pool[i])
    /\ \A t \in Threads : io[t] # None =>
          Fits(io[t].work) /\ Result(io[t]) /\ (io[t].result = None => Ahead(io[t].work))
    /\ \A j \in 1..Len(completed) : Fits(completed[j].work) /\ Result(completed[j])

(* The calls that wait for the actor, and the preferences it accepted. *)
Requests ==
    /\ \A m, n \in 1..Len(inbox) : inbox[m] = inbox[n] => m = n
    /\ \A n \in 1..Len(inbox) : call[inbox[n]] = "sent"
    /\ \A n \in 1..Len(accepted) :
          asks[accepted[n]].what = "settings" /\ call[accepted[n]] \notin {"idle", "sent"}
    /\ pending # None =>
          /\ saving
          /\ Len(accepted) > 0 /\ pending.value = accepted[Len(accepted)]
          /\ \A d \in pending.replies : asks[d].what = "settings" /\ call[d] \notin {"idle", "sent"}

Listens ==
    /\ settings.of \in Profiles => profiles[settings.of].register
    /\ engine = "opening" => ~configuring
    /\ engine = "running" /\ ~configuring /\ ~told =>
          /\ installed.settings = settings
          /\ settings.of \in Profiles =>
                /\ installed.version = profiles[settings.of].version
                /\ PasswordFits(installed.password)

Inv == TypeOK /\ Distinct /\ Jobs /\ Requests /\ SavedIsKept /\ Listens
-----------------------------------------------------------------------------
(* Sequences *)

LEMMA AppendAt ==
    ASSUME NEW S, NEW q \in Seq(S), NEW e \in S
    PROVE  /\ Append(q, e) \in Seq(S) /\ Len(Append(q, e)) = Len(q) + 1
           /\ Append(q, e)[Len(q) + 1] = e
           /\ \A i \in 1..Len(Append(q, e)) :
                 \/ i \in 1..Len(q) /\ Append(q, e)[i] = q[i]
                 \/ i = Len(q) + 1
  <1> DEFINE t == Append(q, e)
             n == Len(q)
  <1>1. n \in Nat
    BY LenProperties
  <1>2. /\ t \in Seq(S) /\ Len(t) = n + 1 /\ t[n + 1] = e
        /\ \A i \in 1..n : t[i] = q[i]
    BY AppendProperties
  <1> HIDE DEF t, n
  <1>3. \A i \in 1..(n + 1) : i \in 1..n \/ i = n + 1
    BY <1>1
  <1> QED
    BY <1>2, <1>3 DEF t, n

LEMMA TailAt ==
    ASSUME NEW S, NEW q \in Seq(S), q # <<>>
    PROVE  /\ Tail(q) \in Seq(S) /\ Head(q) \in S
           /\ 1 \in 1..Len(q) /\ Head(q) = q[1]
           /\ Len(Tail(q)) <= Len(q)
           /\ \A i \in 1..Len(Tail(q)) :
                 i + 1 \in 1..Len(q) /\ i + 1 # 1 /\ Tail(q)[i] = q[i + 1]
  <1> DEFINE t == Tail(q)
             n == Len(q)
  <1>1. n \in Nat /\ n # 0 /\ Head(q) = q[1]
    BY EmptySeq, LenProperties
  <1>2. /\ Head(q) \in S /\ t \in Seq(S) /\ Len(t) = n - 1
        /\ \A i \in 1..Len(t) : t[i] = q[i + 1]
    BY HeadTailProperties
  <1> HIDE DEF t, n
  <1>3. /\ 1 \in 1..n /\ n - 1 <= n
        /\ \A i \in 1..(n - 1) : i + 1 \in 1..n /\ i + 1 # 1
    BY <1>1
  <1> QED
    BY <1>1, <1>2, <1>3 DEF t, n

-----------------------------------------------------------------------------
(* Types *)

How == {"idle", "sent", "accepted", "ok", "refused", "stopped"}

LEMMA RefreshTypes ==
    ASSUME TypeOK,
           NEW s \in [of : Targets, by : Calls \cup {None}],
           NEW ps \in [Profiles -> [version : Calls \cup {None}, register : BOOLEAN]],
           NEW busy \in BOOLEAN, Refresh(s, ps, busy)
    PROVE  /\ generation' = generation + 1 /\ generation' \in Nat
           /\ configuring' \in BOOLEAN /\ told' \in BOOLEAN
           /\ pool' \in Seq(Works) /\ Len(pool') <= PoolSize
  <1>1. /\ generation' = generation + 1 /\ generation' \in Nat
        /\ told' \in BOOLEAN
    BY DEF Refresh, Refreshes, TypeOK
  <1>2. configuring' \in BOOLEAN
    BY DEF Refresh, Room
  <1>3. CASE pool' = pool
    BY <1>1, <1>2, <1>3 DEF TypeOK
  <1>4. CASE pool' # pool
    <2> DEFINE w == Credentials(s, ps[s.of].version)
    <2>1. s.of \in Profiles /\ Room /\ pool' = Append(pool, w)
      BY <1>4 DEF Refresh
    <2>2. s \in [of : Profiles, by : Calls \cup {None}] /\ ps[s.of].version \in Calls \cup {None}
      BY <2>1
    <2>3. w \in Works
      BY <1>1, <2>2 DEF Credentials, Works, Refresh
    <2> HIDE DEF w
    <2>4. pool' \in Seq(Works) /\ Len(pool') = Len(pool) + 1 /\ Len(pool) \in Nat
      BY <2>1, <2>3, AppendAt, LenProperties DEF TypeOK
    <2> QED
      BY <1>1, <1>2, <2>1, <2>4, ConfigAssumption DEF Room
  <1> QED
    BY <1>3, <1>4

LEMMA StartTypes ==
    ASSUME TypeOK, NEW busy \in BOOLEAN,
           NEW waiting \in [value : Calls, replies : SUBSET Calls] \cup {None},
           StartSettings(busy, waiting)
    PROVE  /\ saving' \in BOOLEAN
           /\ pending' \in [value : Calls, replies : SUBSET Calls] \cup {None}
           /\ pool' \in Seq(Works) /\ Len(pool') <= PoolSize
  <1>1. /\ saving' \in BOOLEAN
        /\ pending' \in [value : Calls, replies : SUBSET Calls] \cup {None}
    BY DEF StartSettings, Room
  <1>2. CASE pool' = pool
    BY <1>1, <1>2 DEF TypeOK
  <1>3. CASE pool' # pool
    <2> DEFINE w == [what |-> "settings", value |-> waiting.value, replies |-> waiting.replies]
    <2>1. waiting # None /\ Room /\ pool' = Append(pool, w)
      BY <1>3 DEF StartSettings
    <2>2. w \in Works
      BY <2>1 DEF Works
    <2> HIDE DEF w
    <2>3. pool' \in Seq(Works) /\ Len(pool') = Len(pool) + 1 /\ Len(pool) \in Nat
      BY <2>1, <2>2, AppendAt, LenProperties DEF TypeOK
    <2> QED
      BY <1>1, <2>1, <2>3, ConfigAssumption DEF Room
  <1> QED
    BY <1>2, <1>3

LEMMA AnswerTypes ==
    ASSUME TypeOK, NEW set, NEW how \in How, Answer(set, how)
    PROVE  call' \in [Calls -> How]
  BY DEF Answer, TypeOK, How

(* Whatever a call asks of a profile, it names one. *)
LEMMA AskedOf ==
    ASSUME TypeOK, NEW c \in Calls
    PROVE  /\ asks[c].what = "configure" => asks[c].of \in Targets
           /\ asks[c].what \in {"profile", "password"} =>
                 asks[c].of \in Profiles /\ asks[c].register \in BOOLEAN
  <1>1. asks[c] \in Asks
    BY DEF TypeOK
  <1> QED
    BY <1>1 DEF Asks

LEMMA SavesTypes ==
    ASSUME TypeOK, NEW c \in Calls, asks[c].what \in {"profile", "password"},
           SavesOrRefuses(c)
    PROVE  /\ call' \in [Calls -> How]
           /\ profiles' \in [Profiles -> [version : Calls \cup {None}, register : BOOLEAN]]
           /\ UNCHANGED <<settings, preferences>> /\ faults' \in Nat
           /\ generation' \in Nat /\ configuring' \in BOOLEAN /\ told' \in BOOLEAN
           /\ pool' \in Seq(Works) /\ Len(pool') <= PoolSize
  <1>1. CASE SavesProfile(c)
    <2> DEFINE new == [profiles EXCEPT ![asks[c].of] = [version |-> c, register |-> asks[c].register]]
    <2>1. new \in [Profiles -> [version : Calls \cup {None}, register : BOOLEAN]]
      BY AskedOf DEF TypeOK
    <2>2. profiles' = new
      BY <1>1 DEF SavesProfile
    <2>3. \/ Refresh(settings, new, configuring)
          \/ UNCHANGED <<generation, configuring, installed, told, pool>>
      BY <1>1 DEF SavesProfile
    <2> HIDE DEF new
    <2>4. /\ generation' \in Nat /\ configuring' \in BOOLEAN /\ told' \in BOOLEAN
          /\ pool' \in Seq(Works) /\ Len(pool') <= PoolSize
      BY <2>1, <2>3, RefreshTypes DEF TypeOK
    <2>5. call' \in [Calls -> How]
      BY <1>1, AnswerTypes DEF SavesProfile, How
    <2> QED
      BY <1>1, <2>1, <2>2, <2>4, <2>5 DEF SavesProfile, TypeOK
  <1>2. CASE Refuses(c) /\ (UNCHANGED faults \/ Fault)
    <2>1. call' \in [Calls -> How]
      BY <1>2, AnswerTypes DEF Refuses, How
    <2> QED
      BY <1>2, <2>1 DEF Refuses, Fault, TypeOK, receiver
  <1> QED
    BY <1>1, <1>2 DEF SavesOrRefuses

(* The actions of Next, without their grouping. *)
Actions ==
    \/ Open \/ Stop \/ Stopped
    \/ CredentialsStopping \/ CredentialsStale \/ InstallReceiver
    \/ PasswordSaved \/ SettingsSaved \/ Previewed \/ Panicked
    \/ \E c \in Calls : Submit(c)
    \/ \E c \in Calls : ConfigureReceiver(c)
    \/ \E c \in Calls : ReconnectReceiver(c)
    \/ \E c \in Calls : SaveProfile(c)
    \/ \E c \in Calls : SavePassword(c)
    \/ \E c \in Calls : Preview(c)
    \/ \E c \in Calls : SaveSettings(c)
    \/ \E t \in Threads : WorkerTakes(t)
    \/ \E t \in Threads : WorkerDoes(t)
    \/ \E t \in Threads : WorkerSends(t)

(* Every step of the configuration is one of the listed actions. *)
LEMMA NextIsActions == Next => Actions
  BY DEF Next, Actions, Completion, Request, Thread

(* The work that is handled next, and what a thread works on. *)
LEMMA DoneTypes ==
    ASSUME TypeOK, completed # <<>>
    PROVE  Done \in Runs /\ Done.work \in Works /\ Tail(completed) \in Seq(Runs)
  <1>1. Done \in Runs /\ Tail(completed) \in Seq(Runs)
    BY TailAt DEF Done, TypeOK
  <1> QED
    BY <1>1 DEF Runs

LEMMA HeadTypes ==
    ASSUME TypeOK, NEW c \in Calls, NEW what, Handles(c, what)
    PROVE  /\ inbox' \in Seq(Calls) /\ asks[c].what = what
           /\ UNCHANGED <<asks, stored, io, completed, engine>>
  <1>1. inbox \in Seq(Calls) /\ inbox # <<>> /\ inbox' = Tail(inbox)
    BY DEF Handles, TypeOK
  <1> QED
    BY <1>1, TailAt DEF Handles

LEMMA WorkFields ==
    ASSUME NEW w \in Works
    PROVE  /\ w.what \in {"credentials", "password", "preview", "settings"}
           /\ w.what = "credentials" =>
                 /\ w.generation \in Nat /\ w.version \in Calls \cup {None}
                 /\ w.settings \in [of : Profiles, by : Calls \cup {None}]
           /\ w.what \in {"password", "preview"} => w.call \in Calls
           /\ w.what = "settings" => w.value \in Calls /\ w.replies \subseteq Calls
  BY DEF Works

(* What a thread does with its work: it succeeds, or the work fails.       *)
Fails(t) ==
    /\ Fault
    /\ \E how \in {"bad", "panic"} : io' = [io EXCEPT ![t].result = how]
    /\ UNCHANGED stored

Succeeds(t, password) ==
    /\ keyring' = IF io[t].work.what = "password"
                    THEN [keyring EXCEPT ![asks[io[t].work.call].of] = io[t].work.call] ELSE keyring
    /\ file' = IF io[t].work.what = "settings" THEN io[t].work.value ELSE file
    /\ io' = [io EXCEPT ![t] = [io[t] EXCEPT !.result = "good", !.password = password]]
    /\ UNCHANGED faults

LEMMA DoesWhat ==
    ASSUME TypeOK, Jobs, NEW t \in Threads, WorkerDoes(t)
    PROVE  /\ io[t] # None /\ io[t].result = None
           /\ io[t] \in Runs /\ io[t].work \in Works /\ Fits(io[t].work)
           /\ \/ Fails(t)
              \/ \E password \in Calls \cup {None} :
                    /\ Succeeds(t, password)
                    /\ io[t].work.what = "credentials" =>
                          password = keyring[io[t].work.settings.of]
  <1> DEFINE w == io[t].work
             of == CASE w.what = "credentials" -> w.settings.of
                     [] w.what = "password" -> asks[w.call].of
                     [] OTHER -> None
             read == IF of # None THEN keyring[of] ELSE None
  <1>1. io[t] # None /\ io[t].result = None
    BY DEF WorkerDoes
  <1>2. io[t] \in Runs /\ w \in Works
    BY <1>1 DEF TypeOK, Runs
  <1>3. Fits(w)
    BY <1>1 DEF Jobs
  <1>4. CASE Fault /\ io' \in {[io EXCEPT ![t].result = how] : how \in {"bad", "panic"}} /\ UNCHANGED stored
    BY <1>1, <1>2, <1>3, <1>4 DEF Fails
  <1>5. CASE /\ keyring' = IF w.what = "password" THEN [keyring EXCEPT ![of] = w.call] ELSE keyring
             /\ file' = IF w.what = "settings" THEN w.value ELSE file
             /\ io' = [io EXCEPT ![t].result = "good", ![t].password = read]
             /\ UNCHANGED faults
    <2>1. w.what = "credentials" => of = w.settings.of /\ of \in Profiles
      BY <1>2, WorkFields
    <2>2. w.what = "password" => of = asks[w.call].of /\ of \in Profiles
      BY <1>2, <1>3, WorkFields, AskedOf DEF Fits
    <2>3. w.what \notin {"credentials", "password"} => of = None
      OBVIOUS
    <2> HIDE DEF of
    <2>4. w.what \in {"credentials", "password"} => of # None /\ read = keyring[of]
      BY <2>1, <2>2, ConfigAssumption
    <2>5. read \in Calls \cup {None}
      BY <2>1, <2>2, <2>3, <2>4 DEF TypeOK
    <2>6. w.what = "credentials" => read = keyring[w.settings.of]
      BY <2>1, <2>4
    <2> HIDE DEF read
    <2>7. io' = [io EXCEPT ![t] = [io[t] EXCEPT !.result = "good", !.password = read]]
      <3> DEFINE a == [io EXCEPT ![t].result = "good", ![t].password = read]
                 b == [io EXCEPT ![t] = [io[t] EXCEPT !.result = "good", !.password = read]]
      <3>1. a = b
        BY <1>2 DEF TypeOK, Runs
      <3> QED
        BY <1>5, <3>1
    <2>8. Succeeds(t, read)
      BY <1>5, <2>2, <2>7 DEF Succeeds
    <2> QED
      BY <1>1, <1>2, <1>3, <2>5, <2>6, <2>8
  <1> QED
    BY <1>4, <1>5 DEF WorkerDoes

LEMMA DoesTypes ==
    ASSUME TypeOK, Jobs, NEW t \in Threads, WorkerDoes(t)
    PROVE  /\ faults' \in Nat /\ io' \in [Threads -> Runs \cup {None}]
           /\ keyring' \in [Profiles -> Calls \cup {None}] /\ file' \in Calls \cup {None}
  <1>1. io[t] \in Runs /\ io[t].work \in Works /\ Fits(io[t].work)
    BY DoesWhat
  <1>2. CASE Fails(t)
    <2>1. \E how \in {"bad", "panic"} : [io[t] EXCEPT !.result = how] \in Runs /\ io' = [io EXCEPT ![t] = [io[t] EXCEPT !.result = how]]
      BY <1>1, <1>2 DEF Fails, Runs, TypeOK
    <2>2. io' \in [Threads -> Runs \cup {None}]
      BY <2>1 DEF TypeOK
    <2> QED
      BY <1>2, <2>2 DEF Fails, Fault, TypeOK, stored
  <1>3. ASSUME NEW password \in Calls \cup {None}, Succeeds(t, password)
        PROVE  /\ faults' \in Nat /\ io' \in [Threads -> Runs \cup {None}]
               /\ keyring' \in [Profiles -> Calls \cup {None}] /\ file' \in Calls \cup {None}
    <2>1. [io[t] EXCEPT !.result = "good", !.password = password] \in Runs
      BY <1>1 DEF Runs
    <2>2. io' \in [Threads -> Runs \cup {None}]
      BY <1>3, <2>1 DEF Succeeds, TypeOK
    <2>3. file' \in Calls \cup {None}
      BY <1>1, <1>3, WorkFields DEF Succeeds, TypeOK
    <2>4. io[t].work.what = "password" => io[t].work.call \in Calls
      BY <1>1, WorkFields
    <2>5. keyring' \in [Profiles -> Calls \cup {None}]
      BY <1>3, <2>4 DEF Succeeds, TypeOK
    <2> QED
      BY <1>3, <2>2, <2>3, <2>5 DEF Succeeds, TypeOK
  <1> QED
    BY <1>2, <1>3, DoesWhat

(* Every step keeps the shape of every variable. *)
LEMMA TypeNext == TypeOK /\ Jobs /\ [Next]_vars => TypeOK'
  <1> SUFFICES ASSUME TypeOK, Jobs, [Next]_vars PROVE TypeOK'
    OBVIOUS
  <1>f. ASSUME Fault PROVE faults' \in Nat
    BY <1>f DEF Fault, TypeOK
  <1>1. CASE Open
    <2>1. Refresh(settings, profiles, FALSE)
      BY <1>1 DEF Open
    <2>2. /\ generation' \in Nat /\ configuring' \in BOOLEAN /\ told' \in BOOLEAN
          /\ pool' \in Seq(Works) /\ Len(pool') <= PoolSize
      BY <2>1, RefreshTypes DEF TypeOK
    <2> QED
      BY <1>1, <2>2 DEF Open, TypeOK, preferences, stored
  <1>2. CASE Stop
    BY <1>2 DEF Stop, TypeOK, preferences, stored, work
  <1>3. CASE Stopped
    <2>1. call' \in [Calls -> How]
      BY <1>3, AnswerTypes DEF Stopped, How
    <2>2. inbox' \in Seq(Calls)
      BY <1>3 DEF Stopped
    <2> QED
      BY <1>3, <2>1, <2>2 DEF Stopped, TypeOK, receiver, stored, work, How
  <1>4. CASE CredentialsStopping
    <2>1. completed' \in Seq(Runs)
      BY <1>4, DoneTypes DEF CredentialsStopping, Completes
    <2> QED
      BY <1>4, <2>1 DEF CredentialsStopping, Completes, TypeOK, preferences, stored
  <1>5. CASE CredentialsStale
    <2>1. completed' \in Seq(Runs) /\ Refresh(settings, profiles, FALSE)
      BY <1>5, DoneTypes DEF CredentialsStale, Completes
    <2>2. /\ generation' \in Nat /\ configuring' \in BOOLEAN /\ told' \in BOOLEAN
          /\ pool' \in Seq(Works) /\ Len(pool') <= PoolSize
      BY <2>1, RefreshTypes DEF TypeOK
    <2> QED
      BY <1>5, <2>1, <2>2 DEF CredentialsStale, Completes, TypeOK, preferences, stored
  <1>6. CASE InstallReceiver
    <2>1. completed' \in Seq(Runs)
      BY <1>6, DoneTypes DEF InstallReceiver, Completes
    <2>2. told' \in BOOLEAN /\ configuring' \in BOOLEAN
      BY <1>6 DEF InstallReceiver, TypeOK
    <2> QED
      BY <1>6, <2>1, <2>2 DEF InstallReceiver, Completes, TypeOK, preferences, stored
  <1>7. CASE PasswordSaved
    <2> DEFINE c == Done.work.call
    <2>1. completed # <<>> /\ Done.work.what = "password" /\ completed' = Tail(completed)
          /\ UNCHANGED <<asks, inbox, stored, io, engine>>
      BY <1>7 DEF PasswordSaved, Completes
    <2>2. completed' \in Seq(Runs) /\ c \in Calls
      BY <2>1, DoneTypes, WorkFields
    <2>3. asks[c].what = "password"
      <3>1. 1 \in 1..Len(completed) /\ Done = completed[1]
        BY <2>1, TailAt DEF Done, TypeOK
      <3> QED
        BY <2>1, <3>1 DEF Jobs, Fits
    <2>4. \/ SavesOrRefuses(c)
          \/ /\ \E how \in {"stopped", "refused"} : Answer({c}, how)
             /\ UNCHANGED <<receiver, preferences, pool, faults>>
      BY <1>7 DEF PasswordSaved
    <2> HIDE DEF c
    <2>5. CASE SavesOrRefuses(c)
      BY <2>1, <2>2, <2>3, <2>5, SavesTypes DEF TypeOK, How, stored, preferences
    <2>6. CASE /\ \E how \in {"stopped", "refused"} : Answer({c}, how)
               /\ UNCHANGED <<receiver, preferences, pool, faults>>
      <3>1. call' \in [Calls -> How]
        BY <2>6, AnswerTypes DEF How
      <3> QED
        BY <2>1, <2>2, <2>6, <3>1 DEF TypeOK, How, stored, preferences, receiver
    <2> QED
      BY <2>4, <2>5, <2>6
  <1>8. CASE SettingsSaved
    <2>1. completed' \in Seq(Runs)
      BY <1>8, DoneTypes DEF SettingsSaved, Completes
    <2>2. call' \in [Calls -> How]
      BY <1>8 DEF SettingsSaved, TypeOK, How
    <2>3. StartSettings(FALSE, pending)
      BY <1>8 DEF SettingsSaved
    <2>4. /\ saving' \in BOOLEAN
          /\ pending' \in [value : Calls, replies : SUBSET Calls] \cup {None}
          /\ pool' \in Seq(Works) /\ Len(pool') <= PoolSize
      BY <2>3, StartTypes DEF TypeOK
    <2> QED
      BY <1>8, <2>1, <2>2, <2>4 DEF SettingsSaved, Completes, TypeOK, How, stored, receiver
  <1>9. CASE Previewed
    <2>1. completed' \in Seq(Runs)
      BY <1>9, DoneTypes DEF Previewed, Completes
    <2>2. call' \in [Calls -> How]
      BY <1>9, AnswerTypes DEF Previewed, How
    <2> QED
      BY <1>9, <2>1, <2>2 DEF Previewed, Completes, TypeOK, How, stored, receiver, preferences
  <1>10. CASE Panicked
    <2>1. completed' \in Seq(Runs)
      BY <1>10, DoneTypes DEF Panicked
    <2>2. call' \in [Calls -> How]
      BY <1>10, AnswerTypes DEF Panicked, How
    <2>3. generation' \in Nat
      BY <1>10 DEF Panicked, TypeOK
    <2> QED
      BY <1>10, <2>1, <2>2, <2>3 DEF Panicked, TypeOK, How, stored, preferences
  <1>11. ASSUME NEW c \in Calls, Submit(c) PROVE TypeOK'
    <2>1. call' \in [Calls -> How]
      BY <1>11, AnswerTypes DEF Submit, How
    <2>2. inbox' \in Seq(Calls)
      <3>1. inbox \in Seq(Calls) /\ (inbox' = inbox \/ inbox' = Append(inbox, c))
        BY <1>11 DEF Submit, TypeOK
      <3> QED
        BY <3>1, AppendAt
    <2> QED
      BY <1>11, <2>1, <2>2 DEF Submit, TypeOK, How, stored, receiver, preferences, work
  <1>12. ASSUME NEW c \in Calls, ConfigureReceiver(c) PROVE TypeOK'
    <2> DEFINE new == [of |-> asks[c].of, by |-> c]
    <2>1. inbox' \in Seq(Calls) /\ UNCHANGED <<asks, stored, io, completed, engine>>
          /\ asks[c].what = "configure"
      <3>1. Handles(c, "configure")
        BY <1>12 DEF ConfigureReceiver
      <3> QED
        BY <3>1, HeadTypes
    <2>2. new \in [of : Targets, by : Calls \cup {None}]
      BY <2>1, AskedOf
    <2>3. \/ /\ settings' = new /\ Refresh(new, profiles, configuring)
             /\ \E how \in {"ok", "refused"} : Answer({c}, how)
             /\ UNCHANGED <<profiles, preferences, faults>>
          \/ Refuses(c) /\ (UNCHANGED faults \/ Fault)
      BY <1>12 DEF ConfigureReceiver
    <2>4. call' \in [Calls -> How]
      BY <2>3, AnswerTypes DEF How, Refuses
    <2>5. CASE Refuses(c) /\ (UNCHANGED faults \/ Fault)
      BY <2>1, <2>4, <2>5, <1>f DEF Refuses, TypeOK, How, receiver, preferences, stored
    <2> HIDE DEF new
    <2>6. CASE /\ settings' = new /\ Refresh(new, profiles, configuring)
               /\ UNCHANGED <<profiles, preferences, faults>>
      <3>1. /\ generation' \in Nat /\ configuring' \in BOOLEAN /\ told' \in BOOLEAN
            /\ pool' \in Seq(Works) /\ Len(pool') <= PoolSize
        BY <2>2, <2>6, RefreshTypes DEF TypeOK
      <3> QED
        BY <2>1, <2>2, <2>4, <2>6, <3>1 DEF TypeOK, How, preferences, stored
    <2> QED
      BY <2>3, <2>5, <2>6
  <1>13. ASSUME NEW c \in Calls, ReconnectReceiver(c) PROVE TypeOK'
    <2>1. /\ inbox' \in Seq(Calls) /\ UNCHANGED <<asks, stored, io, completed, engine>>
          /\ Refresh(settings, profiles, configuring)
      BY <1>13, HeadTypes DEF ReconnectReceiver
    <2>2. /\ generation' \in Nat /\ configuring' \in BOOLEAN /\ told' \in BOOLEAN
          /\ pool' \in Seq(Works) /\ Len(pool') <= PoolSize
      <3>1. /\ settings \in [of : Targets, by : Calls \cup {None}] /\ configuring \in BOOLEAN
            /\ profiles \in [Profiles -> [version : Calls \cup {None}, register : BOOLEAN]]
        BY DEF TypeOK
      <3> QED
        BY <2>1, <3>1, RefreshTypes
    <2>3. call' \in [Calls -> How]
      BY <1>13, AnswerTypes DEF ReconnectReceiver, How
    <2> QED
      BY <1>13, <2>1, <2>2, <2>3 DEF ReconnectReceiver, TypeOK, How, preferences, stored
  <1>14. ASSUME NEW c \in Calls, SaveProfile(c) PROVE TypeOK'
    <2>1. /\ inbox' \in Seq(Calls) /\ UNCHANGED <<asks, stored, io, completed, engine>>
          /\ asks[c].what = "profile" /\ SavesOrRefuses(c)
      BY <1>14, HeadTypes DEF SaveProfile
    <2> QED
      BY <2>1, SavesTypes DEF TypeOK, How, preferences, stored
  <1>15. ASSUME NEW c \in Calls, NEW what \in {"password", "preview"}, Hands(c, what) PROVE TypeOK'
    <2>1. inbox' \in Seq(Calls) /\ UNCHANGED <<asks, stored, io, completed, engine>>
      BY <1>15, HeadTypes DEF Hands
    <2>2. call' \in [Calls -> How]
      BY <1>15, AnswerTypes DEF Hands, Refuses, How
    <2>3. UNCHANGED <<receiver, preferences, faults>>
      BY <1>15 DEF Hands, Refuses
    <2>4. pool' \in Seq(Works) /\ Len(pool') <= PoolSize
      <3> DEFINE w == [what |-> what, call |-> c]
      <3>1. pool' = pool \/ (Room /\ pool' = Append(pool, w))
        BY <1>15 DEF Hands, Refuses
      <3>2. w \in Works
        BY DEF Works
      <3> HIDE DEF w
      <3>3. CASE Room /\ pool' = Append(pool, w)
        <4>1. pool' \in Seq(Works) /\ Len(pool') = Len(pool) + 1 /\ Len(pool) \in Nat
          BY <3>2, <3>3, AppendAt, LenProperties DEF TypeOK
        <4> QED
          BY <3>3, <4>1, ConfigAssumption DEF Room
      <3> QED
        BY <3>1, <3>3 DEF TypeOK
    <2> QED
      BY <2>1, <2>2, <2>3, <2>4 DEF TypeOK, How, preferences, receiver, stored
  <1>16. ASSUME NEW c \in Calls, SaveSettings(c) PROVE TypeOK'
    <2>1. inbox' \in Seq(Calls) /\ UNCHANGED <<asks, stored, io, completed, engine, faults>>
      BY <1>16, HeadTypes DEF SaveSettings
    <2>2. CASE Full
      <3>1. Refuses(c)
        BY <1>16, <2>2 DEF SaveSettings
      <3>2. call' \in [Calls -> How]
        BY <3>1, AnswerTypes DEF Refuses, How
      <3> QED
        BY <2>1, <3>1, <3>2 DEF Refuses, TypeOK, How, preferences, receiver, stored
    <2>3. CASE ~Full
      <3>1. Queued(c) \in [value : Calls, replies : SUBSET Calls]
        BY DEF Queued, TypeOK
      <3>2. StartSettings(saving, Queued(c)) /\ accepted' = Append(accepted, c) /\ UNCHANGED receiver
        BY <1>16, <2>3 DEF SaveSettings
      <3>3. call' \in [Calls -> How]
        BY <1>16, <2>3 DEF SaveSettings, TypeOK, How
      <3>4. /\ saving' \in BOOLEAN
            /\ pending' \in [value : Calls, replies : SUBSET Calls] \cup {None}
            /\ pool' \in Seq(Works) /\ Len(pool') <= PoolSize
        BY <3>1, <3>2, StartTypes DEF TypeOK
      <3>5. accepted' \in Seq(Calls)
        BY <3>2, AppendAt DEF TypeOK
      <3> QED
        BY <2>1, <3>2, <3>3, <3>4, <3>5 DEF TypeOK, How, receiver, stored
    <2> QED
      BY <2>2, <2>3
  <1>17. ASSUME NEW t \in Threads, WorkerTakes(t) PROVE TypeOK'
    <2> DEFINE r == [work |-> Head(pool), result |-> None, password |-> None]
    <2>1. pool # <<>> /\ pool' = Tail(pool) /\ io' = [io EXCEPT ![t] = r]
      BY <1>17 DEF WorkerTakes
    <2>2. Head(pool) \in Works /\ pool' \in Seq(Works) /\ Len(pool') <= Len(pool)
          /\ Len(pool) \in Nat /\ Len(pool') \in Nat
      BY <2>1, TailAt, LenProperties DEF TypeOK
    <2>3. r \in Runs
      BY <2>2 DEF Runs
    <2> HIDE DEF r
    <2>4. Len(pool') <= PoolSize
      BY <2>2, ConfigAssumption DEF TypeOK
    <2>5. io' \in [Threads -> Runs \cup {None}]
      BY <2>1, <2>3 DEF TypeOK
    <2> QED
      BY <1>17, <2>2, <2>4, <2>5 DEF WorkerTakes, TypeOK, receiver, preferences, stored
  <1>18. ASSUME NEW t \in Threads, WorkerDoes(t) PROVE TypeOK'
    <2>1. /\ faults' \in Nat /\ io' \in [Threads -> Runs \cup {None}]
          /\ keyring' \in [Profiles -> Calls \cup {None}] /\ file' \in Calls \cup {None}
      BY <1>18, DoesTypes
    <2> QED
      BY <1>18, <2>1 DEF WorkerDoes, TypeOK, receiver, preferences
  <1>19. ASSUME NEW t \in Threads, WorkerSends(t) PROVE TypeOK'
    <2>1. io[t] \in Runs /\ completed' = Append(completed, io[t])
      BY <1>19 DEF WorkerSends, TypeOK
    <2>2. completed' \in Seq(Runs)
      BY <2>1, AppendAt DEF TypeOK
    <2> QED
      BY <1>19, <2>2 DEF WorkerSends, TypeOK, receiver, preferences, stored
  <1>20. CASE UNCHANGED vars
    BY <1>20 DEF vars, TypeOK, receiver, preferences, stored, work
  <1> QED
    BY <1>1, <1>2, <1>3, <1>4, <1>5, <1>6, <1>7, <1>8, <1>9, <1>10, <1>11, <1>12, <1>13, <1>14,
       <1>15, <1>16, <1>17, <1>18, <1>19, <1>20, NextIsActions
       DEF Actions, SavePassword, Preview

-----------------------------------------------------------------------------
(* Work under way stays apart *)

(* The completion that is handled leaves the actor's channel. *)
Drops == completed # <<>> /\ completed' = Tail(completed)

(* Work that is still under way after the step. *)
Left(w) ==
    \/ \E i \in 1..Len(pool) : pool[i] = w
    \/ \E t \in Threads : io[t] # None /\ io[t].work = w
    \/ \E j \in 1..Len(completed) : completed[j].work = w /\ (Drops => j # 1)

(* A step of the actor: it may take a completion and add a piece of work.  *)
Acts ==
    /\ io' = io
    /\ completed' = completed \/ Drops
    /\ \/ pool' = pool
       \/ \E w \in Works : pool' = Append(pool, w)

(* The positions of what is left. *)
LEMMA PoolAt ==
    ASSUME TypeOK, Acts
    PROVE  /\ pool' \in Seq(Works)
           /\ \A i \in 1..Len(pool') :
                 \/ i \in 1..Len(pool) /\ pool'[i] = pool[i]
                 \/ i = Len(pool) + 1 /\ pool' = Append(pool, pool'[i])
  <1>1. CASE pool' = pool
    BY <1>1 DEF TypeOK
  <1>2. ASSUME NEW w \in Works, pool' = Append(pool, w)
        PROVE  /\ pool' \in Seq(Works)
               /\ \A i \in 1..Len(pool') :
                     \/ i \in 1..Len(pool) /\ pool'[i] = pool[i]
                     \/ i = Len(pool) + 1 /\ pool' = Append(pool, pool'[i])
    <2>1. pool \in Seq(Works)
      BY DEF TypeOK
    <2> QED
      BY <1>2, <2>1, AppendAt
  <1> QED
    BY <1>1, <1>2 DEF Acts

(* Work that is somewhere is work. *)
LEMMA Placed ==
    ASSUME TypeOK
    PROVE  /\ \A i \in 1..Len(pool) : pool[i] \in Works
           /\ \A t \in Threads : io[t] # None => io[t] \in Runs /\ io[t].work \in Works
           /\ \A j \in 1..Len(completed) : completed[j] \in Runs /\ completed[j].work \in Works
  <1>1. \A i \in 1..Len(pool) : pool[i] \in Works
    BY DEF TypeOK
  <1>2. \A t \in Threads : io[t] # None => io[t] \in Runs
    BY DEF TypeOK
  <1>3. \A j \in 1..Len(completed) : completed[j] \in Runs
    BY DEF TypeOK
  <1>4. \A r \in Runs : r.work \in Works
    BY DEF Runs
  <1> QED
    BY <1>1, <1>2, <1>3, <1>4

LEMMA Positions ==
    ASSUME TypeOK, Acts
    PROVE  /\ \E shift \in {0, 1} :
                 /\ Drops => shift = 1
                 /\ \A j \in 1..Len(completed') :
                       /\ j + shift \in 1..Len(completed) /\ (Drops => j + shift # 1)
                       /\ completed'[j] = completed[j + shift]
           /\ \A i \in 1..Len(pool') :
                 \/ i \in 1..Len(pool) /\ pool'[i] = pool[i]
                 \/ i = Len(pool) + 1 /\ pool' = Append(pool, pool'[i])
  <1>1. CASE Drops
    <2>1. completed \in Seq(Runs) /\ completed # <<>> /\ completed' = Tail(completed)
      BY <1>1 DEF Drops, TypeOK
    <2>2. \A j \in 1..Len(completed') :
             j + 1 \in 1..Len(completed) /\ j + 1 # 1 /\ completed'[j] = completed[j + 1]
      BY <2>1, TailAt
    <2> QED
      BY <2>2, PoolAt
  <1>2. CASE ~Drops
    <2>1. completed' = completed
      BY <1>2 DEF Acts
    <2>2. \A j \in 1..Len(completed') :
             j + 0 \in 1..Len(completed) /\ completed'[j] = completed[j + 0]
      BY <2>1, LenProperties DEF TypeOK
    <2> QED
      BY <1>2, <2>2, PoolAt
  <1> QED
    BY <1>1, <1>2

LEMMA LeftFacts ==
    ASSUME TypeOK, Distinct, Jobs, NEW w \in Works, Left(w)
    PROVE  Fits(w) /\ (Drops => ~Same(w, Done.work))
  <1>1. Fits(w)
    BY DEF Left, Jobs
  <1>2. ASSUME Drops PROVE ~Same(w, Done.work)
    <2>1. 1 \in 1..Len(completed) /\ Done = completed[1]
      BY <1>2, TailAt DEF Drops, Done, TypeOK
    <2> QED
      BY <1>2, <2>1 DEF Left, Distinct
  <1> QED
    BY <1>1, <1>2

LEMMA ActsDistinct ==
    ASSUME TypeOK, Distinct, Acts,
           \A w, x \in Works : pool' = Append(pool, w) /\ Left(x) => ~Same(x, w)
    PROVE  Distinct'
  <1> DEFINE new == pool'
             rest == completed'
             n == Len(pool)
             N == Len(new)
             M == Len(rest)
  <1>1. PICK shift \in {0, 1} :
            /\ Drops => shift = 1
            /\ \A j \in 1..M :
                  /\ j + shift \in 1..Len(completed) /\ (Drops => j + shift # 1)
                  /\ rest[j] = completed[j + shift]
    BY Positions
  <1>2. \A i \in 1..N :
           \/ i \in 1..n /\ new[i] = pool[i]
           \/ i = n + 1 /\ pool' = Append(pool, new[i])
    BY Positions
  <1>3. io' = io
    BY DEF Acts
  <1>4. \A i \in 1..n : pool[i] \in Works
    BY Placed
  <1>5. \A t \in Threads : io[t] # None => io[t].work \in Works
    BY Placed
  <1>6. \A j \in 1..Len(completed) : completed[j].work \in Works
    BY Placed
  <1>7. \A i \in 1..N : i = n + 1 => new[i] \in Works
    <2>1. pool' \in Seq(Works)
      BY PoolAt
    <2> QED
      BY <2>1
  <1>8. /\ \A i \in 1..n : Left(pool[i])
        /\ \A t \in Threads : io[t] # None => Left(io[t].work)
        /\ \A j \in 1..M : Left(rest[j].work)
    BY <1>1 DEF Left
  <1> HIDE DEF new, rest, n, N, M
  <1>9. \A i, j \in 1..N : Same(new[i], new[j]) => i = j
    <2> SUFFICES ASSUME NEW i \in 1..N, NEW j \in 1..N, Same(new[i], new[j]) PROVE i = j
      OBVIOUS
    <2>1. CASE i \in 1..n /\ j \in 1..n /\ new[i] = pool[i] /\ new[j] = pool[j]
      BY <2>1 DEF Distinct, n
    <2>2. CASE i \in 1..n /\ new[i] = pool[i] /\ j = n + 1 /\ pool' = Append(pool, new[j])
      BY <2>2, <1>4, <1>7, <1>8
    <2>3. CASE j \in 1..n /\ new[j] = pool[j] /\ i = n + 1 /\ pool' = Append(pool, new[i])
      <3>1. Same(pool[j], new[i])
        BY <2>3 DEF Same
      <3> QED
        BY <2>3, <3>1, <1>4, <1>7, <1>8
    <2> QED
      BY <1>2, <2>1, <2>2, <2>3
  <1>10. \A i, j \in 1..M : Same(rest[i].work, rest[j].work) => i = j
    BY <1>1 DEF Distinct
  <1>11. \A i \in 1..N, t \in Threads : io[t] # None => ~Same(new[i], io[t].work)
    <2> SUFFICES ASSUME NEW i \in 1..N, NEW t \in Threads, io[t] # None, Same(new[i], io[t].work)
                 PROVE  FALSE
      OBVIOUS
    <2>1. CASE i \in 1..n /\ new[i] = pool[i]
      BY <2>1 DEF Distinct, n
    <2>2. CASE i = n + 1 /\ pool' = Append(pool, new[i])
      <3>1. Same(io[t].work, new[i])
        BY DEF Same
      <3> QED
        BY <2>2, <3>1, <1>5, <1>7, <1>8
    <2> QED
      BY <1>2, <2>1, <2>2
  <1>12. \A i \in 1..N, j \in 1..M : ~Same(new[i], rest[j].work)
    <2> SUFFICES ASSUME NEW i \in 1..N, NEW j \in 1..M, Same(new[i], rest[j].work) PROVE FALSE
      OBVIOUS
    <2>1. CASE i \in 1..n /\ new[i] = pool[i]
      BY <2>1, <1>1 DEF Distinct, n
    <2>2. CASE i = n + 1 /\ pool' = Append(pool, new[i])
      <3>1. Same(rest[j].work, new[i])
        BY DEF Same
      <3>2. rest[j].work \in Works
        BY <1>1, <1>6
      <3> QED
        BY <2>2, <3>1, <3>2, <1>7, <1>8
    <2> QED
      BY <1>2, <2>1, <2>2
  <1>13. \A t \in Threads, j \in 1..M : io[t] # None => ~Same(io[t].work, rest[j].work)
    BY <1>1 DEF Distinct
  <1> QED
    BY <1>3, <1>9, <1>10, <1>11, <1>12, <1>13 DEF Distinct, new, rest, N, M

(* The work of the pool, the threads and the channel still fits. *)
LEMMA ActsJobs ==
    ASSUME TypeOK, Jobs, Acts,
           \A w \in Works : Left(w) => Fits(w)' /\ (Ahead(w) => Ahead(w)'),
           \A r \in Runs : Left(r.work) /\ Result(r) => Result(r)',
           \A w \in Works : pool' = Append(pool, w) => Fits(w)' /\ Ahead(w)'
    PROVE  Jobs'
  <1> DEFINE new == pool'
             rest == completed'
             n == Len(pool)
             N == Len(new)
             M == Len(rest)
  <1>1. PICK shift \in {0, 1} :
            /\ Drops => shift = 1
            /\ \A j \in 1..M :
                  /\ j + shift \in 1..Len(completed) /\ (Drops => j + shift # 1)
                  /\ rest[j] = completed[j + shift]
    BY Positions
  <1>2. \A i \in 1..N :
           \/ i \in 1..n /\ new[i] = pool[i]
           \/ i = n + 1 /\ pool' = Append(pool, new[i])
    BY Positions
  <1>3. io' = io
    BY DEF Acts
  <1>4. /\ \A i \in 1..n : pool[i] \in Works /\ Left(pool[i])
        /\ \A t \in Threads : io[t] # None => io[t] \in Runs /\ io[t].work \in Works /\ Left(io[t].work)
        /\ \A j \in 1..M : rest[j] \in Runs /\ rest[j].work \in Works /\ Left(rest[j].work)
    BY <1>1, Placed DEF Left
  <1>5. \A i \in 1..N : new[i] \in Works
    BY PoolAt
  <1> HIDE DEF new, rest, n, N, M
  <1>6. ASSUME NEW i \in 1..N, NEW w, w = new[i] PROVE Fits(w)' /\ Ahead(w)'
    <2>1. w \in Works
      BY <1>5, <1>6
    <2>2. CASE i \in 1..n /\ new[i] = pool[i]
      <3>1. Left(w) /\ Fits(w) /\ Ahead(w)
        BY <1>4, <1>6, <2>2 DEF Jobs, n
      <3> QED
        BY <2>1, <3>1
    <2>3. CASE pool' = Append(pool, new[i])
      BY <1>6, <2>1, <2>3
    <2> QED
      BY <1>2, <2>2, <2>3
  <1>7. ASSUME NEW t \in Threads, NEW r, r = io[t], r # None
        PROVE  Fits(r.work)' /\ Result(r)' /\ (r.result = None => Ahead(r.work)')
    <2>1. r \in Runs /\ r.work \in Works /\ Left(r.work)
      BY <1>4, <1>7
    <2>2. Fits(r.work) /\ Result(r) /\ (r.result = None => Ahead(r.work))
      BY <1>7 DEF Jobs
    <2> QED
      BY <2>1, <2>2
  <1>8. ASSUME NEW j \in 1..M, NEW r, r = rest[j]
        PROVE  Fits(r.work)' /\ Result(r)'
    <2>1. r \in Runs /\ r.work \in Works /\ Left(r.work)
      BY <1>4, <1>8
    <2>2. Fits(r.work) /\ Result(r)
      BY <1>1, <1>8 DEF Jobs
    <2> QED
      BY <2>1, <2>2
  <1>9. \A i \in 1..Len(pool') : Fits(pool[i])' /\ Ahead(pool[i])'
    <2> SUFFICES ASSUME NEW i \in 1..Len(pool') PROVE Fits(pool[i])' /\ Ahead(pool[i])'
      OBVIOUS
    <2>1. PICK w : w = pool'[i]
      OBVIOUS
    <2>2. Fits(w)' /\ Ahead(w)'
      BY <1>6, <2>1 DEF N, new
    <2> QED
      BY <2>1, <2>2 DEF Fits, Ahead, Newer
  <1>10. \A t \in Threads : io'[t] # None =>
            Fits(io[t].work)' /\ Result(io[t])' /\ (io'[t].result = None => Ahead(io[t].work)')
    <2> SUFFICES ASSUME NEW t \in Threads, io'[t] # None
                 PROVE  Fits(io[t].work)' /\ Result(io[t])' /\ (io'[t].result = None => Ahead(io[t].work)')
      OBVIOUS
    <2>1. PICK r : r = io'[t]
      OBVIOUS
    <2>2. Fits(r.work)' /\ Result(r)' /\ (r.result = None => Ahead(r.work)')
      BY <1>3, <1>7, <2>1
    <2> QED
      BY <2>1, <2>2 DEF Fits, Ahead, Newer, Result, PasswordFits
  <1>11. \A j \in 1..Len(completed') : Fits(completed[j].work)' /\ Result(completed[j])'
    <2> SUFFICES ASSUME NEW j \in 1..Len(completed')
                 PROVE  Fits(completed[j].work)' /\ Result(completed[j])'
      OBVIOUS
    <2>1. PICK r : r = completed'[j]
      OBVIOUS
    <2>2. Fits(r.work)' /\ Result(r)'
      BY <1>8, <2>1 DEF M, rest
    <2> QED
      BY <2>1, <2>2 DEF Fits, Newer, Result, PasswordFits
  <1> QED
    BY <1>9, <1>10, <1>11 DEF Jobs

-----------------------------------------------------------------------------
(* What a step of the actor does to the work it leaves *)

Unheard == {"idle", "sent"}

(* A call that was taken up is never put back. *)
CallsStay == \A d \in Calls : call[d] \notin Unheard => call'[d] \notin Unheard

(* Nobody else is told that preferences are saved. *)
SavesStay == \A d \in Calls : asks[d].what = "settings" /\ call'[d] = "ok" => call[d] = "ok"

(* No save of the receiver's password is called saved. *)
PasswordsStay ==
    \A c \in Calls :
       asks[c].what = "password" /\ asks[c].of = settings.of /\ call[c] \in {"accepted", "refused", "stopped"}
          => call'[c] \in {"accepted", "refused", "stopped"}

(* At most one save of preferences is accepted. *)
Accepts(c) ==
    accepted' = Append(accepted, c) /\ asks[c].what = "settings"
    /\ call[c] = "sent" /\ call'[c] \notin {"idle", "sent", "ok"}
AcceptedStays == accepted' = accepted \/ \E c \in Calls : Accepts(c)

LEMMA PasswordStill ==
    ASSUME PasswordsStay, UNCHANGED <<asks, keyring, settings>>, NEW p, PasswordFits(p)
    PROVE  PasswordFits(p)'
  BY DEF PasswordsStay, PasswordFits

(* The saves that were accepted before keep their numbers. *)
LEMMA AcceptedAt ==
    ASSUME TypeOK, AcceptedStays
    PROVE  /\ Len(accepted) \in Nat
           /\ \A n \in 1..Len(accepted) : n \in 1..Len(accepted') /\ accepted'[n] = accepted[n]
           /\ \A n \in 1..Len(accepted') :
                 \/ n \in 1..Len(accepted) /\ accepted'[n] = accepted[n]
                 \/ \E c \in Calls : Accepts(c) /\ accepted'[n] = c
           /\ \A v, n : Newer(v, n) => \E m \in 1..Len(accepted') : n <= m /\ v = accepted'[m]
  <1>1. accepted \in Seq(Calls) /\ Len(accepted) \in Nat
    BY LenProperties DEF TypeOK
  <1>2. CASE accepted' = accepted
    BY <1>1, <1>2 DEF Newer
  <1>3. ASSUME NEW c \in Calls, Accepts(c)
        PROVE  /\ \A n \in 1..Len(accepted) : n \in 1..Len(accepted') /\ accepted'[n] = accepted[n]
               /\ \A n \in 1..Len(accepted') :
                     \/ n \in 1..Len(accepted) /\ accepted'[n] = accepted[n]
                     \/ \E d \in Calls : Accepts(d) /\ accepted'[n] = d
    <2> DEFINE a == accepted'
               k == Len(accepted)
    <2>1. /\ a = Append(accepted, c) /\ Len(a) = k + 1 /\ k \in Nat /\ a[k + 1] = c
          /\ \A n \in 1..k : a[n] = accepted[n]
      BY <1>1, <1>3, AppendProperties DEF Accepts
    <2> HIDE DEF a, k
    <2>2. /\ \A n \in 1..k : n \in 1..(k + 1)
          /\ \A n \in 1..(k + 1) : n \in 1..k \/ n = k + 1
      BY <2>1
    <2>3. \A n \in 1..Len(a) : (n \in 1..k /\ a[n] = accepted[n]) \/ a[n] = c
      BY <2>1, <2>2
    <2> QED
      BY <1>3, <2>1, <2>2, <2>3 DEF a, k
  <1>4. CASE \E c \in Calls : Accepts(c)
    BY <1>1, <1>3, <1>4 DEF Newer
  <1> QED
    BY <1>2, <1>4 DEF AcceptedStays

(* The preferences that wait or were written are as new as before. *)
LEMMA AheadStill ==
    ASSUME TypeOK, AcceptedStays, SavesStay, UNCHANGED asks, Requests,
           NEW w \in Works, Fits(w), Ahead(w)
    PROVE  Ahead(w)'
  <1> SUFFICES ASSUME w.what = "settings", NEW n \in 1..Len(accepted'),
                      call'[accepted'[n]] = "ok" \/ accepted'[n] \in w.replies
               PROVE  \E m \in 1..Len(accepted') : n <= m /\ w.value = accepted'[m]
    BY DEF Ahead, Newer
  <1>1. CASE n \in 1..Len(accepted) /\ accepted'[n] = accepted[n]
    <2>1. asks[accepted[n]].what = "settings" /\ accepted[n] \in Calls
      BY <1>1 DEF Requests, TypeOK
    <2>2. call[accepted[n]] = "ok" \/ accepted[n] \in w.replies
      BY <1>1, <2>1 DEF SavesStay
    <2>3. Newer(w.value, n)
      BY <1>1, <2>2 DEF Ahead
    <2> QED
      BY <2>3, AcceptedAt
  <1>2. CASE \E c \in Calls : Accepts(c) /\ accepted'[n] = c
    BY <1>2 DEF Accepts, Fits
  <1> QED
    BY <1>1, <1>2, AcceptedAt

LEMMA SavedStill ==
    ASSUME TypeOK, AcceptedStays, SavesStay, UNCHANGED <<asks, file>>, Requests, SavedIsKept
    PROVE  SavedIsKept'
  <1> SUFFICES ASSUME NEW n \in 1..Len(accepted'), call'[accepted'[n]] = "ok"
               PROVE  \E m \in 1..Len(accepted') : n <= m /\ file = accepted'[m]
    BY DEF SavedIsKept, Newer
  <1>1. CASE n \in 1..Len(accepted) /\ accepted'[n] = accepted[n]
    <2>1. asks[accepted[n]].what = "settings" /\ accepted[n] \in Calls
      BY <1>1 DEF Requests, TypeOK
    <2>2. call[accepted[n]] = "ok"
      BY <1>1, <2>1 DEF SavesStay
    <2>3. Newer(file, n)
      BY <1>1, <2>2 DEF SavedIsKept
    <2> QED
      BY <2>3, AcceptedAt
  <1>2. CASE \E c \in Calls : Accepts(c) /\ accepted'[n] = c
    BY <1>2 DEF Accepts
  <1> QED
    BY <1>1, <1>2, AcceptedAt

(* A receiver that was not configured anew, or one whose generation is     *)
(* over.                                                                   *)
ReceiverStays ==
    \/ generation' > generation
    \/ /\ generation' = generation /\ settings' = settings /\ PasswordsStay
       /\ settings.of \in Profiles =>
             profiles'[settings.of].version = profiles[settings.of].version

LEMMA ResultStill ==
    ASSUME TypeOK, TypeOK', AcceptedStays, UNCHANGED <<asks, stored>>, Requests,
           NEW r \in Runs, Fits(r.work), Result(r),
           r.work.what = "credentials" => ReceiverStays
    PROVE  Result(r)'
  <1> SUFFICES ASSUME r.result = "good" PROVE Result(r)'
    BY DEF Result
  <1>1. ASSUME r.work.what = "settings", NEW n \in 1..Len(accepted'), accepted'[n] \in r.work.replies
        PROVE  \E m \in 1..Len(accepted') : n <= m /\ file' = accepted'[m]
    <2>1. CASE n \in 1..Len(accepted) /\ accepted'[n] = accepted[n]
      <3>1. Newer(file, n)
        BY <1>1, <2>1 DEF Result
      <3> QED
        BY <3>1, AcceptedAt DEF stored
    <2>2. CASE \E c \in Calls : Accepts(c) /\ accepted'[n] = c
      BY <1>1, <2>2 DEF Accepts, Fits
    <2> QED
      BY <2>1, <2>2, AcceptedAt
  <1>2. ASSUME r.work.what = "credentials", r.work.generation = generation'
        PROVE  PasswordFits(r.password)'
    <2>1. r.work.generation <= generation /\ generation \in Nat /\ generation' \in Nat
      BY <1>2 DEF Fits, TypeOK
    <2>2. ~(generation' > generation)
      BY <1>2, <2>1
    <2>3. generation' = generation /\ settings' = settings /\ PasswordsStay
      BY <1>2, <2>2 DEF ReceiverStays
    <2>4. PasswordFits(r.password)
      BY <1>2, <2>3 DEF Result
    <2> QED
      BY <2>3, <2>4, PasswordStill DEF stored
  <1> QED
    BY <1>1, <1>2 DEF Result, Newer

LEMMA FitsStill ==
    ASSUME TypeOK, TypeOK', CallsStay, UNCHANGED asks,
           NEW w \in Works, Fits(w),
           w.what = "credentials" => configuring' /\ ReceiverStays,
           w.what \in {"password", "preview"} => call'[w.call] = "accepted",
           w.what = "settings" => saving'
    PROVE  Fits(w)'
  <1>1. CASE w.what = "credentials"
    <2>1. w.generation \in Nat /\ generation \in Nat /\ generation' \in Nat /\ w.generation <= generation
      BY <1>1, WorkFields DEF Fits, TypeOK
    <2>2. CASE generation' > generation
      BY <1>1, <2>1, <2>2 DEF Fits
    <2>3. CASE /\ generation' = generation /\ settings' = settings
               /\ settings.of \in Profiles =>
                     profiles'[settings.of].version = profiles[settings.of].version
      <3>1. w.settings.of \in Profiles
        BY <1>1, WorkFields
      <3> QED
        BY <1>1, <2>1, <2>3, <3>1 DEF Fits
    <2> QED
      BY <1>1, <2>2, <2>3 DEF ReceiverStays
  <1>2. CASE w.what \in {"password", "preview"}
    BY <1>2 DEF Fits
  <1>3. CASE w.what = "settings"
    <2>1. w.replies \subseteq Calls
      BY <1>3, WorkFields
    <2> QED
      BY <1>3, <2>1 DEF Fits, CallsStay, Unheard
  <1> QED
    BY <1>1, <1>2, <1>3, WorkFields

(* All of it for a step of the actor. *)
LEMMA ActsKeep ==
    ASSUME TypeOK, TypeOK', Distinct, Jobs, Requests, Acts, CallsStay, AcceptedStays,
           UNCHANGED <<asks, stored>>,
           \A w \in Works : Left(w) =>
              /\ w.what = "credentials" => configuring' /\ ReceiverStays
              /\ w.what \in {"password", "preview"} => call'[w.call] = "accepted"
              /\ w.what = "settings" => saving' /\ SavesStay,
           \A w \in Works : pool' = Append(pool, w) =>
              /\ Fits(w)' /\ Ahead(w)'
              /\ \A x \in Works : Left(x) => ~Same(x, w)
    PROVE  Distinct' /\ Jobs'
  <1>1. Distinct'
    BY ActsDistinct
  <1>2. ASSUME NEW w \in Works, Left(w) PROVE Fits(w)' /\ (Ahead(w) => Ahead(w)')
    <2>1. Fits(w)
      BY <1>2, LeftFacts
    <2>5. /\ w.what = "credentials" => configuring' /\ ReceiverStays
          /\ w.what \in {"password", "preview"} => call'[w.call] = "accepted"
          /\ w.what = "settings" => saving' /\ SavesStay
      BY <1>2
    <2>6. UNCHANGED asks
      OBVIOUS
    <2>2. Fits(w)'
      BY <2>5, <2>6, <2>1, FitsStill
    <2>3. CASE w.what = "settings"
      BY <2>5, <2>6, <2>1, <2>2, <2>3, AheadStill
    <2>4. CASE w.what # "settings"
      BY <2>2, <2>4 DEF Ahead
    <2> QED
      BY <2>3, <2>4
  <1>3. ASSUME NEW r \in Runs, Left(r.work), Result(r) PROVE Result(r)'
    <2>1. r.work \in Works
      BY DEF Runs
    <2>2. Fits(r.work)
      BY <1>3, <2>1, LeftFacts
    <2> QED
      BY <1>3, <2>1, <2>2, ResultStill
  <1> QED
    BY <1>1, <1>2, <1>3, ActsJobs

(* Work that fits is not that of a call which still waits for the actor.   *)
LEMMA DoneFacts ==
    ASSUME TypeOK, Jobs, completed # <<>>
    PROVE  /\ Done \in Runs /\ Done.work \in Works
           /\ Fits(Done.work) /\ Result(Done)
  <1>1. 1 \in 1..Len(completed) /\ Done = completed[1]
    BY TailAt DEF Done, TypeOK
  <1> QED
    BY <1>1, DoneTypes DEF Jobs

LEMMA ListensStill ==
    ASSUME TypeOK, Listens, PasswordsStay,
           UNCHANGED <<asks, keyring, settings, configuring, installed, told>>,
           settings.of \in Profiles => profiles'[settings.of] = profiles[settings.of],
           engine' \in {engine, "stopping", "stopped"}
    PROVE  Listens'
  <1>1. (settings.of \in Profiles => profiles[settings.of].register)'
    BY DEF Listens
  <1>2. (engine = "opening" => ~configuring)'
    BY DEF Listens
  <1>3. ASSUME (engine = "running" /\ ~configuring /\ ~told)'
        PROVE  (/\ installed.settings = settings
                /\ settings.of \in Profiles =>
                      /\ installed.version = profiles[settings.of].version
                      /\ PasswordFits(installed.password))'
    <2>1. /\ installed.settings = settings
          /\ settings.of \in Profiles =>
                /\ installed.version = profiles[settings.of].version
                /\ PasswordFits(installed.password)
      BY <1>3 DEF Listens
    <2>2. PICK p : p = installed.password
      OBVIOUS
    <2>3. settings.of \in Profiles => PasswordFits(p)'
      BY <2>1, <2>2, PasswordStill
    <2>4. (settings.of \in Profiles => PasswordFits(installed.password))'
      BY <2>2, <2>3 DEF PasswordFits
    <2> QED
      BY <2>1, <2>4
  <1> QED
    BY <1>1, <1>2, <1>3 DEF Listens

LEMMA RequestsStill ==
    ASSUME TypeOK, Requests, UNCHANGED <<asks, preferences>>, CallsStay,
           \/ inbox' = inbox
           \/ inbox # <<>> /\ inbox' = Tail(inbox),
           \A d \in Calls : call[d] = "sent" =>
              \/ call'[d] = "sent"
              \/ inbox # <<>> /\ inbox' = Tail(inbox) /\ d = Head(inbox)
    PROVE  Requests'
  <1>1. /\ \A n \in 1..Len(accepted) : accepted[n] \in Calls
        /\ \A n \in 1..Len(inbox) : inbox[n] \in Calls
        /\ pending # None => pending.replies \subseteq Calls
    BY DEF TypeOK
  <1>2. \A n \in 1..Len(accepted) :
           asks[accepted[n]].what = "settings" /\ call'[accepted[n]] \notin {"idle", "sent"}
    BY <1>1 DEF Requests, CallsStay, Unheard
  <1>3. pending # None =>
          /\ saving
          /\ Len(accepted) > 0 /\ pending.value = accepted[Len(accepted)]
          /\ \A d \in pending.replies : asks[d].what = "settings" /\ call'[d] \notin {"idle", "sent"}
    BY <1>1 DEF Requests, CallsStay, Unheard
  <1>4. CASE inbox # <<>> /\ inbox' = Tail(inbox)
    <2>1. /\ 1 \in 1..Len(inbox) /\ Head(inbox) = inbox[1]
          /\ \A i \in 1..Len(inbox') :
                i + 1 \in 1..Len(inbox) /\ i + 1 # 1 /\ inbox'[i] = inbox[i + 1]
      BY <1>4, TailAt DEF TypeOK
    <2>2. \A m, n \in 1..Len(inbox') : inbox'[m] = inbox'[n] => m = n
      <3> SUFFICES ASSUME NEW m \in 1..Len(inbox'), NEW n \in 1..Len(inbox'), inbox'[m] = inbox'[n]
                   PROVE  m = n
        OBVIOUS
      <3> DEFINE a == m + 1
                 b == n + 1
      <3>2. a \in 1..Len(inbox) /\ b \in 1..Len(inbox) /\ inbox[a] = inbox[b]
        BY <2>1
      <3> HIDE DEF a, b
      <3>3. a = b
        BY <3>2 DEF Requests
      <3>1. m + 1 = n + 1
        BY <3>3 DEF a, b
      <3> QED
        BY <3>1
    <2>3. \A n \in 1..Len(inbox') : inbox'[n] \in Calls /\ call[inbox'[n]] = "sent" /\ inbox'[n] # Head(inbox)
      BY <1>1, <2>1 DEF Requests
    <2> QED
      BY <1>2, <1>3, <2>2, <2>3 DEF Requests, preferences
  <1>5. CASE inbox' = inbox /\ \A d \in Calls : call[d] = "sent" => call'[d] = "sent"
    BY <1>1, <1>2, <1>3, <1>5 DEF Requests, preferences
  <1>6. CASE inbox' = inbox /\ ~(inbox # <<>> /\ inbox' = Tail(inbox))
    BY <1>5, <1>6
  <1> QED
    BY <1>4, <1>6

(* A step that leaves the receiver and the preferences alone. *)
LEMMA QuietKeeps ==
    ASSUME Inv, TypeOK', Acts, pool' = pool, UNCHANGED <<asks, stored, preferences, receiver>>,
           CallsStay, SavesStay, PasswordsStay,
           engine' \in {engine, "stopping", "stopped"},
           \A w \in Works : Left(w) /\ w.what \in {"password", "preview"} => call'[w.call] = "accepted"
    PROVE  Distinct' /\ Jobs' /\ SavedIsKept' /\ Listens'
  <1>1. ReceiverStays /\ AcceptedStays
    BY DEF ReceiverStays, receiver, AcceptedStays, preferences
  <1>2. \A w \in Works : Left(w) =>
           /\ w.what = "credentials" => configuring' /\ ReceiverStays
           /\ w.what \in {"password", "preview"} => call'[w.call] = "accepted"
           /\ w.what = "settings" => saving' /\ SavesStay
    BY <1>1, LeftFacts DEF Fits, receiver, preferences, Inv
  <1>3. \A w \in Works : pool' # Append(pool, w)
    <2>1. \A w \in Works : Len(Append(pool, w)) = Len(pool) + 1 /\ Len(pool) \in Nat
      BY AppendAt, LenProperties DEF Inv, TypeOK
    <2> QED
      BY <2>1
  <1>4. Distinct' /\ Jobs'
    BY <1>1, <1>2, <1>3, ActsKeep DEF Inv
  <1>5. SavedIsKept'
    BY <1>1, SavedStill DEF stored, Inv
  <1>6. Listens'
    BY ListensStill DEF Inv, receiver, stored
  <1> QED
    BY <1>4, <1>5, <1>6

(* refresh_receiver makes what was read before out of date, and reads the  *)
(* password of the new receiver, or will when the present read is done.    *)
LEMMA RefreshKeeps ==
    ASSUME TypeOK, TypeOK', Distinct, Jobs, Requests,
           NEW s \in [of : Targets, by : Calls \cup {None}],
           NEW ps \in [Profiles -> [version : Calls \cup {None}, register : BOOLEAN]],
           NEW busy \in BOOLEAN, Refresh(s, ps, busy),
           settings' = s, profiles' = ps, s.of \in Profiles => ps[s.of].register,
           io' = io, completed' = completed \/ Drops,
           UNCHANGED <<asks, stored, preferences>>, engine' # "opening",
           CallsStay, SavesStay,
           \A w \in Works : Left(w) =>
              /\ w.what = "credentials" => busy
              /\ w.what \in {"password", "preview"} => call'[w.call] = "accepted"
    PROVE  Distinct' /\ Jobs' /\ Listens'
  <1> DEFINE new == Credentials(s, ps[s.of].version)
  <1>1. generation' = generation + 1 /\ generation \in Nat /\ ReceiverStays
    <2>1. generation' = generation + 1 /\ generation \in Nat
      BY DEF Refresh, TypeOK
    <2>2. generation' > generation
      BY <2>1
    <2> QED
      BY <2>1, <2>2 DEF ReceiverStays
  <1>2. AcceptedStays /\ saving' = saving
    BY DEF AcceptedStays, preferences
  <1>3. \/ pool' = pool
        \/ s.of \in Profiles /\ ~busy /\ Room /\ pool' = Append(pool, new)
    BY DEF Refresh
  <1>4. s.of \in Profiles => new \in Works
    <2>1. s.of \in Profiles => s \in [of : Profiles, by : Calls \cup {None}] /\ ps[s.of].version \in Calls \cup {None}
      OBVIOUS
    <2> QED
      BY <1>1, <2>1 DEF Credentials, Works
  <1>5. Acts
    BY <1>3, <1>4 DEF Acts
  <1>6. busy => configuring'
    BY DEF Refresh
  <1>7. \A w \in Works : Left(w) =>
           /\ w.what = "credentials" => configuring' /\ ReceiverStays
           /\ w.what \in {"password", "preview"} => call'[w.call] = "accepted"
           /\ w.what = "settings" => saving' /\ SavesStay
    BY <1>1, <1>2, <1>6, LeftFacts DEF Fits
  <1>8. ASSUME NEW w \in Works, pool' = Append(pool, w)
        PROVE  /\ Fits(w)' /\ Ahead(w)'
               /\ \A x \in Works : Left(x) => ~Same(x, w)
    <2>1. /\ Len(pool') = Len(pool) + 1 /\ Len(pool) \in Nat /\ pool'[Len(pool) + 1] = w
      BY <1>8, AppendAt, LenProperties DEF TypeOK
    <2>2. pool' # pool
      BY <2>1
    <2>3. s.of \in Profiles /\ ~busy /\ Room /\ pool' = Append(pool, new) /\ new \in Works
      BY <1>3, <1>4, <2>2
    <2>4. w = new
      <3> HIDE DEF new
      <3>1. pool'[Len(pool) + 1] = new
        BY <2>3, AppendAt DEF TypeOK
      <3> QED
        BY <2>1, <3>1
    <2>5. configuring'
      BY <2>3 DEF Refresh
    <2>6. /\ w.what = "credentials" /\ w.generation = generation' /\ w.settings = settings'
          /\ w.version = profiles'[settings'.of].version
      BY <1>1, <2>4 DEF Credentials
    <2>7. w.generation <= generation'
      BY <1>1, <2>6
    <2> QED
      BY <2>3, <2>5, <2>6, <2>7 DEF Fits, Ahead, Same
  <1>9. Distinct' /\ Jobs'
    BY <1>2, <1>5, <1>7, <1>8, ActsKeep
  <1>10. Listens'
    <2>1. CASE s.of \in Profiles
      BY <2>1 DEF Listens, Refresh, Refreshes
    <2>2. CASE s.of \notin Profiles
      BY <2>2 DEF Listens, Refresh, Receiver
    <2> QED
      BY <2>1, <2>2
  <1> QED
    BY <1>9, <1>10

-----------------------------------------------------------------------------
(* The steps of the actor *)

(* The actor answers a call that waited for it. *)
LEMMA HandledCall ==
    ASSUME Inv, NEW c \in Calls, NEW what, Handles(c, what)
    PROVE  /\ inbox # <<>> /\ inbox' = Tail(inbox) /\ c = Head(inbox)
           /\ call[c] = "sent" /\ asks[c].what = what
           /\ UNCHANGED <<asks, stored, io, completed, engine>> /\ engine = "running"
           /\ ~Drops
           /\ \A w \in Works : Fits(w) /\ w.what \in {"password", "preview"} => w.call # c
  <1>1. inbox \in Seq(Calls) /\ inbox # <<>>
    BY DEF Handles, Inv, TypeOK
  <1>2. 1 \in 1..Len(inbox) /\ Head(inbox) = inbox[1]
    BY <1>1, TailAt
  <1>3. call[c] = "sent"
    BY <1>2 DEF Handles, Inv, Requests
  <1>4. ~Drops
    <2> SUFFICES ASSUME Drops PROVE FALSE
      OBVIOUS
    <2>1. completed \in Seq(Runs) /\ completed # <<>> /\ Tail(completed) = completed
      BY DEF Drops, Handles, Inv, TypeOK
    <2>2. Len(Tail(completed)) = Len(completed) - 1 /\ Len(completed) \in Nat
      BY <2>1, HeadTailProperties, LenProperties
    <2> QED
      BY <2>1, <2>2
  <1> QED
    BY <1>1, <1>3, <1>4 DEF Handles, Fits

LEMMA AnswerStays ==
    ASSUME TypeOK, NEW c \in Calls, NEW how \in {"accepted", "ok", "refused", "stopped"},
           Answer({c}, how)
    PROVE  /\ CallsStay /\ call'[c] = how /\ \A d \in Calls : d # c => call'[d] = call[d]
           /\ how # "ok" \/ asks[c].what # "settings" => SavesStay
           /\ how # "ok" \/ asks[c].what # "password" => PasswordsStay
  BY DEF Answer, CallsStay, Unheard, SavesStay, PasswordsStay

(* A request that is refused, or answered by a step that changes nothing.  *)
LEMMA AnswerKeeps ==
    ASSUME Inv, TypeOK', NEW c \in Calls, NEW what, Handles(c, what),
           NEW how \in {"accepted", "ok", "refused", "stopped"}, Answer({c}, how),
           how = "ok" => what \notin {"settings", "password"},
           UNCHANGED <<receiver, preferences, pool>>
    PROVE  Inv'
  <1>1. /\ inbox # <<>> /\ inbox' = Tail(inbox) /\ c = Head(inbox)
        /\ call[c] = "sent" /\ asks[c].what = what
        /\ UNCHANGED <<asks, stored, io, completed, engine>>
        /\ \A w \in Works : Fits(w) /\ w.what \in {"password", "preview"} => w.call # c
    BY HandledCall
  <1>2. /\ CallsStay /\ SavesStay /\ PasswordsStay
        /\ \A d \in Calls : d # c => call'[d] = call[d]
    BY <1>1, AnswerStays DEF Inv
  <1>3. Acts
    BY <1>1 DEF Acts
  <1>4. \A w \in Works : Left(w) /\ w.what \in {"password", "preview"} => call'[w.call] = "accepted"
    BY <1>1, <1>2, LeftFacts, WorkFields DEF Fits, Inv
  <1>5. Distinct' /\ Jobs' /\ SavedIsKept' /\ Listens'
    BY <1>1, <1>2, <1>3, <1>4, QuietKeeps
  <1>6. Requests'
    BY <1>1, <1>2, RequestsStill DEF Inv
  <1> QED
    BY <1>5, <1>6 DEF Inv

LEMMA OpenKeeps == Inv /\ TypeOK' /\ Open => Inv'
  <1> SUFFICES ASSUME Inv, TypeOK', Open PROVE Inv'
    OBVIOUS
  <1>1. /\ Refresh(settings, profiles, FALSE) /\ engine' # "opening"
        /\ UNCHANGED <<asks, call, inbox, settings, profiles, preferences, stored, io, completed>>
    BY DEF Open
  <1>2. CallsStay /\ SavesStay
    BY <1>1 DEF CallsStay, SavesStay
  <1>3. \A w \in Works : Left(w) =>
           /\ w.what = "credentials" => FALSE
           /\ w.what \in {"password", "preview"} => call'[w.call] = "accepted"
    BY <1>1, LeftFacts DEF Inv, Fits, Listens, Open
  <1>4. /\ settings \in [of : Targets, by : Calls \cup {None}] /\ FALSE \in BOOLEAN
        /\ profiles \in [Profiles -> [version : Calls \cup {None}, register : BOOLEAN]]
        /\ settings.of \in Profiles => profiles[settings.of].register
    BY DEF Inv, TypeOK, Listens
  <1>5. settings' = settings /\ profiles' = profiles /\ io' = io /\ completed' = completed
    BY <1>1
  <1>6. Distinct' /\ Jobs' /\ Listens'
    BY <1>1, <1>2, <1>3, <1>4, <1>5, RefreshKeeps DEF Inv
  <1>7. Requests'
    BY <1>1, <1>2, RequestsStill DEF Inv
  <1>8. SavedIsKept'
    BY <1>1, <1>2, SavedStill DEF Inv, AcceptedStays, preferences, stored
  <1> QED
    BY <1>6, <1>7, <1>8 DEF Inv

LEMMA StopKeeps == Inv /\ TypeOK' /\ Stop => Inv'
  <1> SUFFICES ASSUME Inv, TypeOK', Stop PROVE Inv'
    OBVIOUS
  <1>1. /\ engine' = "stopping" /\ generation' = generation + 1 /\ generation \in Nat
        /\ UNCHANGED <<asks, call, inbox, settings, profiles, configuring, installed, told,
                       preferences, stored, work>>
    BY DEF Stop, Inv, TypeOK
  <1>2. generation' > generation
    BY <1>1
  <1>3. CallsStay /\ SavesStay /\ PasswordsStay /\ AcceptedStays /\ ReceiverStays /\ Acts
    BY <1>1, <1>2 DEF CallsStay, SavesStay, PasswordsStay, AcceptedStays, ReceiverStays, Acts, work, preferences
  <1>4. \A w \in Works : Left(w) =>
           /\ w.what = "credentials" => configuring' /\ ReceiverStays
           /\ w.what \in {"password", "preview"} => call'[w.call] = "accepted"
           /\ w.what = "settings" => saving' /\ SavesStay
    BY <1>1, <1>3, LeftFacts DEF Inv, Fits, preferences
  <1>5. \A w \in Works : pool' # Append(pool, w)
    <2>1. \A w \in Works : Len(Append(pool, w)) = Len(pool) + 1 /\ Len(pool) \in Nat
      BY AppendAt, LenProperties DEF Inv, TypeOK
    <2> QED
      BY <1>1, <2>1 DEF work
  <1>6. Distinct' /\ Jobs'
    BY <1>1, <1>3, <1>4, <1>5, ActsKeep DEF Inv
  <1>7. Requests'
    BY <1>1, <1>3, RequestsStill DEF Inv
  <1>8. SavedIsKept'
    BY <1>1, <1>3, SavedStill DEF Inv, stored
  <1>9. Listens'
    BY <1>1, <1>3, ListensStill DEF Inv, stored
  <1> QED
    BY <1>6, <1>7, <1>8, <1>9 DEF Inv

LEMMA StoppedKeeps == Inv /\ TypeOK' /\ Stopped => Inv'
  <1> SUFFICES ASSUME Inv, TypeOK', Stopped PROVE Inv'
    OBVIOUS
  <1>1. /\ engine' = "stopped" /\ inbox' = <<>> /\ pending' = None
        /\ pool' = <<>> /\ completed' = <<>> /\ \A t \in Threads : io'[t] = None
        /\ UNCHANGED <<asks, receiver, saving, accepted, stored>>
    BY DEF Stopped, work
  <1>2. /\ \A d \in Calls : call'[d] = call[d] \/ call'[d] = "stopped"
    BY DEF Stopped, Answer
  <1>3. CallsStay /\ SavesStay /\ PasswordsStay /\ AcceptedStays
    BY <1>1, <1>2 DEF CallsStay, Unheard, SavesStay, PasswordsStay, AcceptedStays
  <1>4. Distinct' /\ Jobs'
    BY <1>1 DEF Distinct, Jobs
  <1>5. Requests'
    <2>1. \A n \in 1..Len(accepted) : accepted[n] \in Calls
      BY DEF Inv, TypeOK
    <2>2. \A n \in 1..Len(accepted) :
             asks[accepted[n]].what = "settings" /\ call'[accepted[n]] \notin {"idle", "sent"}
      BY <1>3, <2>1 DEF Inv, Requests, CallsStay, Unheard
    <2> QED
      BY <1>1, <2>2 DEF Requests
  <1>6. SavedIsKept'
    BY <1>1, <1>3, SavedStill DEF Inv, stored
  <1>7. Listens'
    BY <1>1, <1>3, ListensStill DEF Inv, receiver, stored
  <1> QED
    BY <1>4, <1>5, <1>6, <1>7 DEF Inv

LEMMA SubmitKeeps ==
    ASSUME Inv, TypeOK', NEW c \in Calls, Submit(c) PROVE Inv'
  <1>1. /\ call[c] = "idle" /\ UNCHANGED <<asks, receiver, preferences, stored, work, engine>>
        /\ \/ call'[c] = "sent" /\ inbox' = Append(inbox, c)
           \/ call'[c] = "stopped" /\ inbox' = inbox
        /\ \A d \in Calls : d # c => call'[d] = call[d]
    BY DEF Submit, Answer
  <1>2. CallsStay /\ SavesStay /\ PasswordsStay /\ Acts /\ pool' = pool
    BY <1>1 DEF CallsStay, Unheard, SavesStay, PasswordsStay, Acts, work
  <1>3. \A w \in Works : Left(w) /\ w.what \in {"password", "preview"} => call'[w.call] = "accepted"
    BY <1>1, LeftFacts, WorkFields DEF Fits, Inv
  <1>4. Distinct' /\ Jobs' /\ SavedIsKept' /\ Listens'
    BY <1>1, <1>2, <1>3, QuietKeeps
  <1>5. Requests'
    <2>1. /\ \A n \in 1..Len(accepted) : accepted[n] \in Calls
          /\ \A n \in 1..Len(inbox) : inbox[n] \in Calls
          /\ pending # None => pending.replies \subseteq Calls
          /\ inbox \in Seq(Calls)
      BY DEF Inv, TypeOK
    <2>2. \A n \in 1..Len(accepted) :
             asks[accepted[n]].what = "settings" /\ call'[accepted[n]] \notin {"idle", "sent"}
      BY <1>2, <2>1 DEF Inv, Requests, CallsStay, Unheard
    <2>3. pending # None =>
            /\ saving
            /\ Len(accepted) > 0 /\ pending.value = accepted[Len(accepted)]
            /\ \A d \in pending.replies : asks[d].what = "settings" /\ call'[d] \notin {"idle", "sent"}
      BY <1>2, <2>1 DEF Inv, Requests, CallsStay, Unheard
    <2>4. \A n \in 1..Len(inbox) : inbox[n] # c /\ call'[inbox[n]] = "sent"
      BY <1>1, <2>1 DEF Inv, Requests
    <2>5. CASE inbox' = inbox
      BY <1>1, <2>2, <2>3, <2>4, <2>5 DEF Inv, Requests, preferences
    <2>6. CASE call'[c] = "sent" /\ inbox' = Append(inbox, c)
      <3>1. \A i \in 1..Len(inbox') :
               \/ i \in 1..Len(inbox) /\ inbox'[i] = inbox[i]
               \/ i = Len(inbox) + 1 /\ inbox'[i] = c
        BY <2>1, <2>6, AppendAt
      <3>2. \A m, n \in 1..Len(inbox') : inbox'[m] = inbox'[n] => m = n
        BY <2>4, <3>1 DEF Inv, Requests
      <3>3. \A n \in 1..Len(inbox') : call'[inbox'[n]] = "sent"
        BY <2>4, <2>6, <3>1
      <3> QED
        BY <1>1, <2>2, <2>3, <3>2, <3>3 DEF Requests, preferences
    <2> QED
      BY <1>1, <2>5, <2>6
  <1> QED
    BY <1>4, <1>5 DEF Inv

(* A request that configures the receiver anew. *)
LEMMA RequestRefreshes ==
    ASSUME Inv, TypeOK', NEW c \in Calls, NEW what, Handles(c, what), what # "settings",
           NEW s \in [of : Targets, by : Calls \cup {None}],
           NEW ps \in [Profiles -> [version : Calls \cup {None}, register : BOOLEAN]],
           Refresh(s, ps, configuring),
           settings' = s, profiles' = ps, s.of \in Profiles => ps[s.of].register,
           NEW how \in {"ok", "refused"}, Answer({c}, how),
           UNCHANGED preferences
    PROVE  Inv'
  <1>1. /\ inbox # <<>> /\ inbox' = Tail(inbox) /\ c = Head(inbox)
        /\ call[c] = "sent" /\ asks[c].what = what
        /\ UNCHANGED <<asks, stored, io, completed, engine>> /\ engine = "running" /\ ~Drops
        /\ \A w \in Works : Fits(w) /\ w.what \in {"password", "preview"} => w.call # c
    BY HandledCall
  <1>2. /\ CallsStay /\ SavesStay
        /\ \A d \in Calls : d # c => call'[d] = call[d]
    BY <1>1, AnswerStays DEF Inv
  <1>3. \A w \in Works : Left(w) =>
           /\ w.what = "credentials" => configuring
           /\ w.what \in {"password", "preview"} => call'[w.call] = "accepted"
    BY <1>1, <1>2, LeftFacts, WorkFields DEF Fits, Inv
  <1>4. configuring \in BOOLEAN
    BY DEF Inv, TypeOK
  <1>5. Distinct' /\ Jobs' /\ Listens'
    BY <1>1, <1>2, <1>3, <1>4, RefreshKeeps DEF Inv
  <1>6. Requests'
    BY <1>1, <1>2, RequestsStill DEF Inv
  <1>7. SavedIsKept'
    BY <1>1, <1>2, SavedStill DEF Inv, AcceptedStays, preferences, stored
  <1> QED
    BY <1>5, <1>6, <1>7 DEF Inv

LEMMA ConfigureKeeps ==
    ASSUME Inv, TypeOK', NEW c \in Calls, ConfigureReceiver(c) PROVE Inv'
  <1> DEFINE new == [of |-> asks[c].of, by |-> c]
  <1>1. Handles(c, "configure")
    BY DEF ConfigureReceiver
  <1>2. \/ Refuses(c)
        \/ /\ Receivable(new.of) /\ settings' = new /\ Refresh(new, profiles, configuring)
           /\ \E how \in {"ok", "refused"} : Answer({c}, how)
           /\ UNCHANGED <<profiles, preferences>>
    BY DEF ConfigureReceiver
  <1>3. CASE Refuses(c)
    <2>1. Answer({c}, "refused") /\ UNCHANGED <<receiver, preferences, pool>>
      BY <1>3 DEF Refuses
    <2> QED
      BY <1>1, <2>1, AnswerKeeps
  <1>4. asks[c].what = "configure"
    BY <1>1 DEF Handles
  <1>5. new \in [of : Targets, by : Calls \cup {None}]
    BY <1>4, AskedOf DEF Inv
  <1> HIDE DEF new
  <1>6. CASE /\ Receivable(new.of) /\ settings' = new /\ Refresh(new, profiles, configuring)
             /\ \E how \in {"ok", "refused"} : Answer({c}, how)
             /\ UNCHANGED <<profiles, preferences>>
    <2>1. profiles \in [Profiles -> [version : Calls \cup {None}, register : BOOLEAN]]
      BY DEF Inv, TypeOK
    <2>2. new.of \in Profiles => profiles[new.of].register
      BY <1>6 DEF Receivable
    <2>3. profiles' = profiles
      BY <1>6
    <2> QED
      BY <1>1, <1>5, <1>6, <2>1, <2>2, <2>3, RequestRefreshes
  <1> QED
    BY <1>2, <1>3, <1>6

LEMMA ReconnectKeeps ==
    ASSUME Inv, TypeOK', NEW c \in Calls, ReconnectReceiver(c) PROVE Inv'
  <1>1. /\ Handles(c, "reconnect") /\ Refresh(settings, profiles, configuring)
        /\ \E how \in {"ok", "refused"} : Answer({c}, how)
        /\ settings' = settings /\ profiles' = profiles /\ UNCHANGED preferences
    BY DEF ReconnectReceiver
  <1>2. /\ settings \in [of : Targets, by : Calls \cup {None}]
        /\ profiles \in [Profiles -> [version : Calls \cup {None}, register : BOOLEAN]]
        /\ settings.of \in Profiles => profiles[settings.of].register
    BY DEF Inv, TypeOK, Listens
  <1> QED
    BY <1>1, <1>2, RequestRefreshes

(* save_profile of another profile than the receiver's: nothing that is    *)
(* read or installed depends on it.                                        *)
OtherProfile(c) ==
    /\ settings.of # asks[c].of
    /\ profiles' = [profiles EXCEPT ![asks[c].of] = [version |-> c, register |-> asks[c].register]]
    /\ Answer({c}, "ok")
    /\ UNCHANGED <<settings, generation, configuring, installed, told, pool, preferences>>

(* save_profile of the receiver's profile. *)
OwnProfile(c, ps) ==
    /\ settings.of = asks[c].of /\ ps[settings.of].register
    /\ profiles' = ps /\ settings' = settings /\ Refresh(settings, ps, configuring)
    /\ \E how \in {"ok", "refused"} :
          /\ Answer({c}, how)
          /\ how = "ok" => Refreshes(settings, configuring)
    /\ UNCHANGED preferences

LEMMA SavesEither ==
    ASSUME TypeOK, NEW c \in Calls, asks[c].what \in {"profile", "password"}, SavesProfile(c)
    PROVE  \/ OtherProfile(c)
           \/ \E ps \in [Profiles -> [version : Calls \cup {None}, register : BOOLEAN]] : OwnProfile(c, ps)
  <1> DEFINE new == [profiles EXCEPT ![asks[c].of] = [version |-> c, register |-> asks[c].register]]
  <1>1. asks[c].of \in Profiles /\ asks[c].register \in BOOLEAN
    BY AskedOf
  <1>2. new \in [Profiles -> [version : Calls \cup {None}, register : BOOLEAN]]
    BY <1>1 DEF TypeOK
  <1>3. new[asks[c].of].register = asks[c].register
    BY <1>1 DEF TypeOK
  <1>4. CASE settings.of = asks[c].of
    <2>1. /\ asks[c].register /\ profiles' = new /\ settings' = settings
          /\ Refresh(settings, new, configuring) /\ UNCHANGED preferences
          /\ Answer({c}, IF ~Refreshes(settings, configuring) THEN "refused" ELSE "ok")
      BY <1>4 DEF SavesProfile, Savable
    <2> HIDE DEF new
    <2>2. \E how \in {"ok", "refused"} :
             /\ Answer({c}, how)
             /\ how = "ok" => Refreshes(settings, configuring)
      <3>1. CASE Refreshes(settings, configuring)
        BY <2>1, <3>1
      <3>2. CASE ~Refreshes(settings, configuring)
        BY <2>1, <3>2
      <3> QED
        BY <3>1, <3>2
    <2>3. OwnProfile(c, new)
      BY <1>3, <1>4, <2>1, <2>2 DEF OwnProfile
    <2> QED
      BY <1>2, <2>3
  <1>5. CASE settings.of # asks[c].of
    BY <1>5 DEF SavesProfile, OtherProfile
  <1> QED
    BY <1>4, <1>5

(* The profile of another line, with or without its password. *)
LEMMA OtherProfileKeeps ==
    ASSUME TypeOK, TypeOK', Inv, NEW c \in Calls, OtherProfile(c), Acts,
           UNCHANGED <<asks, stored, engine>>,
           asks[c].what \in {"profile", "password"},
           \A w \in Works : Left(w) /\ w.what \in {"password", "preview"} => w.call # c
    PROVE  /\ Distinct' /\ Jobs' /\ SavedIsKept' /\ Listens'
           /\ CallsStay /\ call'[c] = "ok" /\ \A d \in Calls : d # c => call'[d] = call[d]
  <1>1. /\ CallsStay /\ SavesStay /\ call'[c] = "ok"
        /\ \A d \in Calls : d # c => call'[d] = call[d]
    BY AnswerStays DEF OtherProfile
  <1>2. PasswordsStay
    BY <1>1 DEF PasswordsStay, OtherProfile
  <1>3. settings.of \in Profiles => profiles'[settings.of] = profiles[settings.of]
    BY AskedOf DEF OtherProfile, TypeOK
  <1>4. AcceptedStays /\ saving' = saving /\ pool' = pool
    BY DEF AcceptedStays, OtherProfile, preferences
  <1>5. \A w \in Works : Left(w) =>
           /\ w.what = "credentials" => configuring' /\ ReceiverStays
           /\ w.what \in {"password", "preview"} => call'[w.call] = "accepted"
           /\ w.what = "settings" => saving' /\ SavesStay
    <2> SUFFICES ASSUME NEW w \in Works, Left(w)
                 PROVE  /\ w.what = "credentials" => configuring' /\ ReceiverStays
                        /\ w.what \in {"password", "preview"} => call'[w.call] = "accepted"
                        /\ w.what = "settings" => saving' /\ SavesStay
      OBVIOUS
    <2>1. Fits(w)
      BY LeftFacts DEF Inv
    <2>2. w.what = "credentials" => configuring'
      BY <2>1 DEF Fits, OtherProfile
    <2>3. ReceiverStays
      BY <1>2, <1>3 DEF ReceiverStays, OtherProfile
    <2> QED
      BY <1>1, <1>4, <2>1, <2>2, <2>3, WorkFields DEF Fits
  <1>6. \A w \in Works : pool' # Append(pool, w)
    <2>1. \A w \in Works : Len(Append(pool, w)) = Len(pool) + 1 /\ Len(pool) \in Nat
      BY AppendAt, LenProperties DEF TypeOK
    <2> QED
      BY <1>4, <2>1
  <1>7. Distinct' /\ Jobs'
    BY <1>1, <1>4, <1>5, <1>6, ActsKeep DEF Inv
  <1>8. SavedIsKept'
    BY <1>1, <1>4, SavedStill DEF Inv, stored
  <1>9. Listens'
    BY <1>2, <1>3, ListensStill DEF Inv, stored, OtherProfile
  <1> QED
    BY <1>1, <1>7, <1>8, <1>9

LEMMA SaveProfileKeeps ==
    ASSUME Inv, TypeOK', NEW c \in Calls, SaveProfile(c) PROVE Inv'
  <1>1. Handles(c, "profile") /\ SavesOrRefuses(c)
    BY DEF SaveProfile
  <1>2. /\ inbox # <<>> /\ inbox' = Tail(inbox) /\ c = Head(inbox)
        /\ call[c] = "sent" /\ asks[c].what = "profile"
        /\ UNCHANGED <<asks, stored, io, completed, engine>>
        /\ \A w \in Works : Fits(w) /\ w.what \in {"password", "preview"} => w.call # c
    BY <1>1, HandledCall
  <1>3. CASE Refuses(c)
    <2>1. Answer({c}, "refused") /\ UNCHANGED <<receiver, preferences, pool>>
      BY <1>3 DEF Refuses
    <2> QED
      BY <1>1, <2>1, AnswerKeeps
  <1>4. CASE OtherProfile(c)
    <2>1. Acts /\ \A w \in Works : Left(w) /\ w.what \in {"password", "preview"} => w.call # c
      BY <1>2, <1>4, LeftFacts DEF Acts, OtherProfile, Inv
    <2>2. /\ Distinct' /\ Jobs' /\ SavedIsKept' /\ Listens'
          /\ CallsStay /\ call'[c] = "ok" /\ \A d \in Calls : d # c => call'[d] = call[d]
      BY <1>2, <1>4, <2>1, OtherProfileKeeps DEF Inv
    <2>3. UNCHANGED preferences
      BY <1>4 DEF OtherProfile
    <2>4. Requests'
      BY <1>2, <2>2, <2>3, RequestsStill DEF Inv
    <2> QED
      BY <2>2, <2>4 DEF Inv
  <1>5. ASSUME NEW ps \in [Profiles -> [version : Calls \cup {None}, register : BOOLEAN]], OwnProfile(c, ps)
        PROVE  Inv'
    <2>1. /\ Refresh(settings, ps, configuring) /\ settings' = settings /\ profiles' = ps
          /\ settings.of \in Profiles => ps[settings.of].register
          /\ \E how \in {"ok", "refused"} : Answer({c}, how)
          /\ UNCHANGED preferences
      BY <1>5 DEF OwnProfile
    <2>2. settings \in [of : Targets, by : Calls \cup {None}]
      BY DEF Inv, TypeOK
    <2> QED
      BY <1>1, <2>1, <2>2, RequestRefreshes
  <1>6. TypeOK
    BY DEF Inv
  <1> QED
    BY <1>1, <1>2, <1>3, <1>4, <1>5, <1>6, SavesEither DEF SavesOrRefuses

LEMMA HandsKeeps ==
    ASSUME Inv, TypeOK', NEW c \in Calls, NEW what \in {"password", "preview"}, Hands(c, what)
    PROVE  Inv'
  <1> DEFINE new == [what |-> what, call |-> c]
  <1>1. Handles(c, what)
    BY DEF Hands
  <1>2. /\ inbox # <<>> /\ inbox' = Tail(inbox) /\ c = Head(inbox)
        /\ call[c] = "sent" /\ asks[c].what = what
        /\ UNCHANGED <<asks, stored, io, completed, engine>>
        /\ \A w \in Works : Fits(w) /\ w.what \in {"password", "preview"} => w.call # c
    BY <1>1, HandledCall
  <1>3. CASE Refuses(c)
    <2>1. Answer({c}, "refused") /\ UNCHANGED <<receiver, preferences, pool>>
      BY <1>3 DEF Refuses
    <2> QED
      BY <1>1, <2>1, AnswerKeeps
  <1>4. CASE Room
    <2>1. pool' = Append(pool, new) /\ Answer({c}, "accepted") /\ UNCHANGED <<receiver, preferences>>
      BY <1>4 DEF Hands
    <2>2. new \in Works /\ new.what = what /\ new.call = c
      BY DEF Works
    <2> HIDE DEF new
    <2>3. /\ CallsStay /\ SavesStay /\ PasswordsStay /\ call'[c] = "accepted"
          /\ \A d \in Calls : d # c => call'[d] = call[d]
      BY <2>1, AnswerStays DEF Inv
    <2>4. Acts /\ AcceptedStays /\ ReceiverStays
      BY <1>2, <2>1, <2>2, <2>3 DEF Acts, AcceptedStays, ReceiverStays, receiver, preferences
    <2>5. \A w \in Works : Left(w) =>
             /\ w.what = "credentials" => configuring' /\ ReceiverStays
             /\ w.what \in {"password", "preview"} => call'[w.call] = "accepted"
             /\ w.what = "settings" => saving' /\ SavesStay
      BY <1>2, <2>1, <2>3, <2>4, LeftFacts, WorkFields DEF Fits, Inv, receiver, preferences
    <2>6. ASSUME NEW w \in Works, pool' = Append(pool, w)
          PROVE  /\ Fits(w)' /\ Ahead(w)'
                 /\ \A x \in Works : Left(x) => ~Same(x, w)
      <3>1. w = new
        <4>1. pool \in Seq(Works)
          BY DEF Inv, TypeOK
        <4>2. pool'[Len(pool) + 1] = new
          BY <2>1, <2>2, <4>1, AppendAt
        <4>3. pool'[Len(pool) + 1] = w
          BY <2>6, <4>1, AppendAt
        <4> QED
          BY <4>2, <4>3
      <3>2. Fits(w)' /\ Ahead(w)'
        BY <1>2, <2>2, <2>3, <3>1 DEF Fits, Ahead
      <3>3. \A x \in Works : Left(x) => ~Same(x, w)
        BY <1>2, <2>2, <3>1, LeftFacts DEF Same, Inv
      <3> QED
        BY <3>2, <3>3
    <2>7. Distinct' /\ Jobs'
      BY <1>2, <2>3, <2>4, <2>5, <2>6, ActsKeep DEF Inv
    <2>8. Requests'
      BY <1>2, <2>1, <2>3, RequestsStill DEF Inv
    <2>9. SavedIsKept'
      BY <1>2, <2>3, <2>4, SavedStill DEF Inv, stored
    <2>10. Listens'
      BY <1>2, <2>1, <2>3, ListensStill DEF Inv, stored, receiver
    <2> QED
      BY <2>7, <2>8, <2>9, <2>10 DEF Inv
  <1> QED
    BY <1>3, <1>4 DEF Hands

(* The preferences of a call, accepted: they wait, go to the pool, or are  *)
(* lost at a full pool.                                                    *)
LEMMA SaveSettingsDoes ==
    ASSUME Inv, NEW c \in Calls, SaveSettings(c), ~Full
    PROVE  /\ accepted' = Append(accepted, c) /\ UNCHANGED receiver
           /\ \E how \in {"accepted", "refused"} :
                 call'[c] = how /\ \A d \in Calls : d # c => call'[d] = call[d]
           /\ \/ /\ saving /\ saving' /\ pool' = pool /\ pending' = Queued(c)
              \/ /\ ~saving /\ pending' = None
                 /\ \/ pool' = pool
                    \/ /\ saving'
                       /\ pool' = Append(pool, [what |-> "settings", value |-> c, replies |-> {c}])
  <1>1. /\ StartSettings(saving, Queued(c)) /\ accepted' = Append(accepted, c) /\ UNCHANGED receiver
        /\ call' = [d \in Calls |-> CASE d = c -> IF c \in Lost(saving, Queued(c)) THEN "refused" ELSE "accepted"
                                      [] d # c /\ d \in Lost(saving, Queued(c)) -> "stopped"
                                      [] OTHER -> call[d]]
    BY DEF SaveSettings
  <1>2. ~saving => pending = None
    BY DEF Inv, Requests
  <1>3. ~saving => Queued(c).value = c /\ Queued(c).replies = {c}
    BY <1>2 DEF Queued
  <1>4. \A d \in Calls : d # c => d \notin Lost(saving, Queued(c))
    BY <1>3 DEF Lost
  <1>5. \E how \in {"accepted", "refused"} :
           call'[c] = how /\ \A d \in Calls : d # c => call'[d] = call[d]
    <2>1. call'[c] \in {"accepted", "refused"}
      BY <1>1
    <2>2. \A d \in Calls : d # c => call'[d] = call[d]
      BY <1>1, <1>4
    <2> QED
      BY <2>1, <2>2
  <1>6. saving \in BOOLEAN
    BY DEF Inv, TypeOK
  <1>7. CASE saving
    <2>1. saving' /\ pool' = pool /\ pending' = Queued(c)
      BY <1>1, <1>7 DEF StartSettings
    <2> QED
      BY <1>1, <1>5, <1>7, <2>1
  <1>8. CASE ~saving
    <2>1. /\ pending' = None
          /\ \/ pool' = pool
             \/ saving' /\ pool' = Append(pool, [what |-> "settings", value |-> Queued(c).value,
                                                 replies |-> Queued(c).replies])
      BY <1>1, <1>8 DEF StartSettings
    <2> QED
      BY <1>1, <1>3, <1>5, <1>8, <2>1
  <1> QED
    BY <1>6, <1>7, <1>8

LEMMA SaveSettingsKeeps ==
    ASSUME Inv, TypeOK', NEW c \in Calls, SaveSettings(c) PROVE Inv'
  <1>1. Handles(c, "settings")
    BY DEF SaveSettings
  <1>2. /\ inbox # <<>> /\ inbox' = Tail(inbox) /\ c = Head(inbox)
        /\ call[c] = "sent" /\ asks[c].what = "settings"
        /\ UNCHANGED <<asks, stored, io, completed, engine>>
        /\ \A w \in Works : Fits(w) /\ w.what \in {"password", "preview"} => w.call # c
    BY <1>1, HandledCall
  <1>3. CASE Full
    <2>1. Answer({c}, "refused") /\ UNCHANGED <<receiver, preferences, pool>>
      BY <1>3 DEF SaveSettings, Refuses
    <2> QED
      BY <1>1, <2>1, AnswerKeeps
  <1>4. CASE ~Full
    <2> DEFINE new == [what |-> "settings", value |-> c, replies |-> {c}]
    <2>1. /\ accepted' = Append(accepted, c) /\ UNCHANGED receiver
          /\ call'[c] \in {"accepted", "refused"} /\ \A d \in Calls : d # c => call'[d] = call[d]
      BY <1>4, SaveSettingsDoes
    <2>2. \/ saving /\ saving' /\ pool' = pool /\ pending' = Queued(c)
          \/ ~saving /\ pending' = None /\ pool' = pool
          \/ ~saving /\ pending' = None /\ saving' /\ pool' = Append(pool, new)
      BY <1>4, SaveSettingsDoes
    <2>3. new \in Works /\ new.what = "settings" /\ new.value = c /\ new.replies = {c}
      BY DEF Works
    <2> HIDE DEF new
    <2>4. CallsStay /\ SavesStay /\ PasswordsStay /\ AcceptedStays /\ ReceiverStays
      BY <1>2, <2>1 DEF CallsStay, Unheard, SavesStay, PasswordsStay, AcceptedStays, Accepts, ReceiverStays, receiver
    <2>5. Acts
      BY <1>2, <2>2, <2>3 DEF Acts
    <2>6. \A w \in Works : Left(w) =>
             /\ w.what = "credentials" => configuring' /\ ReceiverStays
             /\ w.what \in {"password", "preview"} => call'[w.call] = "accepted"
             /\ w.what = "settings" => saving /\ saving' /\ SavesStay
      BY <1>2, <2>1, <2>2, <2>4, LeftFacts, WorkFields DEF Fits, Inv, receiver
    <2>7. accepted \in Seq(Calls) /\ Len(accepted) \in Nat
      BY LenProperties DEF Inv, TypeOK
    <2>8. /\ Len(accepted') = Len(accepted) + 1 /\ accepted'[Len(accepted')] = c
          /\ Len(accepted') \in 1..Len(accepted') /\ Len(accepted') > 0
          /\ \A n \in 1..Len(accepted') : n <= Len(accepted')
      BY <2>1, <2>7, AppendAt
    <2>9. ASSUME NEW w \in Works, pool' = Append(pool, w)
          PROVE  /\ Fits(w)' /\ Ahead(w)'
                 /\ \A x \in Works : Left(x) => ~Same(x, w)
      <3>1. pool'[Len(pool) + 1] = w /\ Len(pool') = Len(pool) + 1 /\ Len(pool) \in Nat
        BY <2>9, AppendAt, LenProperties DEF Inv, TypeOK
      <3>2. ~saving /\ saving' /\ pool' = Append(pool, new)
        BY <2>2, <3>1
      <3>3. w = new
        <4>1. pool'[Len(pool) + 1] = new
          BY <2>3, <3>2, AppendAt DEF Inv, TypeOK
        <4> QED
          BY <3>1, <4>1
      <3>4. Fits(w)'
        BY <1>2, <2>1, <2>3, <3>2, <3>3 DEF Fits
      <3>5. Ahead(w)'
        BY <2>3, <2>8, <3>3 DEF Ahead, Newer
      <3>6. \A x \in Works : Left(x) => ~Same(x, w)
        BY <2>3, <2>6, <3>2, <3>3 DEF Same
      <3> QED
        BY <3>4, <3>5, <3>6
    <2>10. Distinct' /\ Jobs'
      BY <1>2, <2>4, <2>5, <2>6, <2>9, ActsKeep DEF Inv
    <2>11. SavedIsKept'
      BY <1>2, <2>4, SavedStill DEF Inv, stored
    <2>12. Listens'
      BY <1>2, <2>1, <2>4, ListensStill DEF Inv, stored, receiver
    <2>13. Requests'
      <3>1. /\ \A m, n \in 1..Len(inbox') : inbox'[m] = inbox'[n] => m = n
            /\ \A n \in 1..Len(inbox') : call'[inbox'[n]] = "sent"
        <4>1. /\ 1 \in 1..Len(inbox) /\ c = inbox[1]
              /\ \A i \in 1..Len(inbox') :
                    i + 1 \in 1..Len(inbox) /\ i + 1 # 1 /\ inbox'[i] = inbox[i + 1]
          BY <1>2, TailAt DEF Inv, TypeOK
        <4>2. \A n \in 1..Len(inbox) : inbox[n] \in Calls
          BY DEF Inv, TypeOK
        <4>3. \A n \in 1..Len(inbox') : inbox'[n] # c /\ inbox'[n] \in Calls /\ call[inbox'[n]] = "sent"
          BY <4>1, <4>2 DEF Inv, Requests
        <4>4. ASSUME NEW m \in 1..Len(inbox'), NEW n \in 1..Len(inbox'), inbox'[m] = inbox'[n]
              PROVE  m = n
          <5>1. m + 1 = n + 1
            BY <4>1, <4>4 DEF Inv, Requests
          <5> QED
            BY <5>1
        <4> QED
          BY <2>1, <4>3, <4>4
      <3>2. \A n \in 1..Len(accepted') :
              asks[accepted'[n]].what = "settings" /\ call'[accepted'[n]] \notin {"idle", "sent"}
        <4>1. \A n \in 1..Len(accepted) : accepted[n] \in Calls
          BY <2>7
        <4>2. \A n \in 1..Len(accepted') : (n \in 1..Len(accepted) /\ accepted'[n] = accepted[n]) \/ accepted'[n] = c
          BY <2>1, <2>7, <2>8, AppendAt
        <4> QED
          BY <1>2, <2>1, <2>4, <4>1, <4>2 DEF Inv, Requests, CallsStay, Unheard
      <3>3. pending' # None => saving' /\ pending' = Queued(c)
        BY <2>2
      <3>4. ASSUME NEW d \in Queued(c).replies
            PROVE  asks[d].what = "settings" /\ call'[d] \notin {"idle", "sent"}
        <4>1. d = c \/ (pending # None /\ d \in pending.replies)
          BY DEF Queued
        <4>2. pending # None => pending.replies \subseteq Calls
          BY DEF Inv, TypeOK
        <4> QED
          BY <1>2, <2>1, <2>4, <4>1, <4>2 DEF Inv, Requests, CallsStay, Unheard
      <3>5. Queued(c).value = c
        BY DEF Queued
      <3>6. asks' = asks
        BY <1>2
      <3> QED
        BY <2>8, <3>1, <3>2, <3>3, <3>4, <3>5, <3>6 DEF Requests
    <2> QED
      BY <2>10, <2>11, <2>12, <2>13 DEF Inv
  <1> QED
    BY <1>3, <1>4

-----------------------------------------------------------------------------
(* The completions *)

LEMMA CompletesFacts ==
    ASSUME Inv, NEW what, Completes(what)
    PROVE  /\ Drops /\ engine \in {"running", "stopping"}
           /\ UNCHANGED <<asks, inbox, stored, io, engine>>
           /\ Done \in Runs /\ Done.work \in Works /\ Done.work.what = what
           /\ Fits(Done.work) /\ Result(Done)
           /\ \A w \in Works : Left(w) => Fits(w) /\ ~Same(w, Done.work)
  BY DoneFacts, LeftFacts DEF Completes, Drops, Inv

(* A completion that answers its call and changes nothing else. *)
LEMMA CompletionKeeps ==
    ASSUME Inv, TypeOK', Drops, UNCHANGED <<asks, inbox, stored, io, receiver, preferences, pool>>,
           engine' \in {engine, "stopping", "stopped"},
           CallsStay, SavesStay, PasswordsStay,
           \A d \in Calls : call[d] = "sent" => call'[d] = "sent",
           \A w \in Works : Left(w) /\ w.what \in {"password", "preview"} => call'[w.call] = "accepted"
    PROVE  Inv'
  <1>1. Acts
    BY DEF Acts
  <1>2. Distinct' /\ Jobs' /\ SavedIsKept' /\ Listens'
    BY <1>1, QuietKeeps
  <1>3. Requests'
    BY RequestsStill DEF Inv
  <1> QED
    BY <1>2, <1>3 DEF Inv

(* The call of a piece of work, answered by it. *)
LEMMA AnswersDone ==
    ASSUME Inv, NEW what \in {"password", "preview"}, Completes(what),
           NEW how \in {"ok", "refused", "stopped"}, Answer({Done.work.call}, how)
    PROVE  /\ Done.work.call \in Calls /\ asks[Done.work.call].what = what
           /\ call[Done.work.call] = "accepted"
           /\ CallsStay /\ SavesStay /\ (how # "ok" \/ what = "preview" => PasswordsStay)
           /\ \A d \in Calls : d # Done.work.call => call'[d] = call[d]
           /\ \A d \in Calls : call[d] = "sent" => call'[d] = "sent"
           /\ \A w \in Works : Left(w) /\ w.what \in {"password", "preview"} =>
                 w.call # Done.work.call /\ call'[w.call] = "accepted"
  <1> DEFINE c == Done.work.call
  <1>1. c \in Calls /\ asks[c].what = what /\ call[c] = "accepted"
    BY CompletesFacts, WorkFields DEF Fits
  <1> HIDE DEF c
  <1>2. Answer({c}, how)
    BY DEF c
  <1>3. /\ CallsStay /\ SavesStay /\ (how # "ok" \/ what = "preview" => PasswordsStay)
        /\ \A d \in Calls : d # c => call'[d] = call[d]
    BY <1>1, <1>2, AnswerStays DEF Inv
  <1>4. ASSUME NEW w \in Works, Left(w), w.what \in {"password", "preview"}
        PROVE  w.call # c /\ call'[w.call] = "accepted"
    <2>1. Fits(w) /\ ~Same(w, Done.work) /\ Done.work.what = what /\ w.call \in Calls
      BY <1>4, CompletesFacts, WorkFields
    <2>2. w.call # c
      BY <1>1, <1>4, <2>1 DEF Same, Fits, c
    <2> QED
      BY <1>3, <1>4, <2>1, <2>2 DEF Fits
  <1> QED
    BY <1>1, <1>3, <1>4 DEF c

LEMMA PreviewedKeeps == Inv /\ TypeOK' /\ Previewed => Inv'
  <1> SUFFICES ASSUME Inv, TypeOK', Previewed PROVE Inv'
    OBVIOUS
  <1>1. /\ Completes("preview") /\ UNCHANGED <<receiver, preferences, pool>>
        /\ \E how \in {"ok", "refused", "stopped"} : Answer({Done.work.call}, how)
    BY DEF Previewed
  <1>2. Drops /\ UNCHANGED <<asks, inbox, stored, io, engine>>
    BY <1>1, CompletesFacts
  <1> QED
    BY <1>1, <1>2, AnswersDone, CompletionKeeps

LEMMA StoppingKeeps == Inv /\ TypeOK' /\ CredentialsStopping => Inv'
  <1> SUFFICES ASSUME Inv, TypeOK', CredentialsStopping PROVE Inv'
    OBVIOUS
  <1>1. /\ Completes("credentials") /\ engine = "stopping" /\ configuring' = FALSE
        /\ UNCHANGED <<call, settings, profiles, generation, installed, told, preferences, pool>>
    BY DEF CredentialsStopping
  <1>2. /\ Drops /\ UNCHANGED <<asks, inbox, stored, io, engine>>
        /\ Done.work.what = "credentials"
        /\ \A w \in Works : Left(w) => Fits(w) /\ ~Same(w, Done.work)
    BY <1>1, CompletesFacts
  <1>3. CallsStay /\ SavesStay /\ AcceptedStays /\ Acts
    BY <1>1, <1>2 DEF CallsStay, SavesStay, AcceptedStays, Acts, preferences
  <1>4. \A w \in Works : Left(w) =>
           /\ w.what = "credentials" => configuring' /\ ReceiverStays
           /\ w.what \in {"password", "preview"} => call'[w.call] = "accepted"
           /\ w.what = "settings" => saving' /\ SavesStay
    BY <1>1, <1>2, <1>3 DEF Fits, Same, preferences
  <1>5. \A w \in Works : pool' # Append(pool, w)
    <2>1. \A w \in Works : Len(Append(pool, w)) = Len(pool) + 1 /\ Len(pool) \in Nat
      BY AppendAt, LenProperties DEF Inv, TypeOK
    <2> QED
      BY <1>1, <2>1
  <1>6. Distinct' /\ Jobs'
    BY <1>2, <1>3, <1>4, <1>5, ActsKeep DEF Inv
  <1>7. Requests'
    BY <1>1, <1>2, <1>3, RequestsStill DEF Inv
  <1>8. SavedIsKept'
    BY <1>2, <1>3, SavedStill DEF Inv, stored
  <1>9. Listens'
    BY <1>1, <1>2 DEF Inv, Listens
  <1> QED
    BY <1>6, <1>7, <1>8, <1>9 DEF Inv

LEMMA StaleKeeps == Inv /\ TypeOK' /\ CredentialsStale => Inv'
  <1> SUFFICES ASSUME Inv, TypeOK', CredentialsStale PROVE Inv'
    OBVIOUS
  <1>1. /\ Completes("credentials") /\ engine = "running" /\ Refresh(settings, profiles, FALSE)
        /\ UNCHANGED <<call, settings, profiles, preferences>>
    BY DEF CredentialsStale
  <1>2. /\ Drops /\ UNCHANGED <<asks, inbox, stored, io, engine>>
        /\ Done.work.what = "credentials"
        /\ \A w \in Works : Left(w) => Fits(w) /\ ~Same(w, Done.work)
    BY <1>1, CompletesFacts
  <1>3. CallsStay /\ SavesStay /\ AcceptedStays
    BY <1>1, <1>2 DEF CallsStay, SavesStay, AcceptedStays, preferences
  <1>4. \A w \in Works : Left(w) =>
           /\ w.what = "credentials" => FALSE
           /\ w.what \in {"password", "preview"} => call'[w.call] = "accepted"
    BY <1>1, <1>2 DEF Fits, Same
  <1>5. /\ settings \in [of : Targets, by : Calls \cup {None}] /\ FALSE \in BOOLEAN
        /\ profiles \in [Profiles -> [version : Calls \cup {None}, register : BOOLEAN]]
        /\ settings.of \in Profiles => profiles[settings.of].register
    BY DEF Inv, TypeOK, Listens
  <1>6. settings' = settings /\ profiles' = profiles /\ io' = io /\ engine' # "opening"
    BY <1>1, <1>2
  <1>7. Distinct' /\ Jobs' /\ Listens'
    BY <1>1, <1>2, <1>3, <1>4, <1>5, <1>6, RefreshKeeps DEF Inv
  <1>8. Requests'
    BY <1>1, <1>2, <1>3, RequestsStill DEF Inv
  <1>9. SavedIsKept'
    BY <1>2, <1>3, SavedStill DEF Inv, stored
  <1> QED
    BY <1>7, <1>8, <1>9 DEF Inv

(* install_receiver: the password that was read is that of the receiver,   *)
(* for its generation is the present one.                                  *)
LEMMA InstallKeeps == Inv /\ TypeOK' /\ InstallReceiver => Inv'
  <1> SUFFICES ASSUME Inv, TypeOK', InstallReceiver PROVE Inv'
    OBVIOUS
  <1>1. /\ Completes("credentials") /\ engine = "running" /\ Current /\ configuring' = FALSE
        /\ UNCHANGED <<call, settings, profiles, generation, preferences, pool>>
        /\ \/ /\ Done.result = "good"
              /\ installed' = Receiver(Done.work.settings, Done.work.version, Done.password)
           \/ told' = TRUE
    BY DEF InstallReceiver
  <1>2. /\ Drops /\ UNCHANGED <<asks, inbox, stored, io, engine>>
        /\ Done.work \in Works /\ Done.work.what = "credentials" /\ Fits(Done.work) /\ Result(Done)
        /\ \A w \in Works : Left(w) => Fits(w) /\ ~Same(w, Done.work)
    BY <1>1, CompletesFacts
  <1>3. CallsStay /\ SavesStay /\ PasswordsStay /\ AcceptedStays /\ Acts
    BY <1>1, <1>2 DEF CallsStay, SavesStay, PasswordsStay, AcceptedStays, Acts, preferences
  <1>4. \A w \in Works : Left(w) =>
           /\ w.what = "credentials" => configuring' /\ ReceiverStays
           /\ w.what \in {"password", "preview"} => call'[w.call] = "accepted"
           /\ w.what = "settings" => saving' /\ SavesStay
    BY <1>1, <1>2, <1>3 DEF Fits, Same, preferences
  <1>5. \A w \in Works : pool' # Append(pool, w)
    <2>1. \A w \in Works : Len(Append(pool, w)) = Len(pool) + 1 /\ Len(pool) \in Nat
      BY AppendAt, LenProperties DEF Inv, TypeOK
    <2> QED
      BY <1>1, <2>1
  <1>6. Distinct' /\ Jobs'
    BY <1>2, <1>3, <1>4, <1>5, ActsKeep DEF Inv
  <1>7. Requests'
    BY <1>1, <1>2, <1>3, RequestsStill DEF Inv
  <1>8. SavedIsKept'
    BY <1>2, <1>3, SavedStill DEF Inv, stored
  <1>9. Listens'
    <2>1. CASE told' = TRUE
      BY <1>1, <1>2, <2>1 DEF Inv, Listens
    <2>2. CASE /\ Done.result = "good"
               /\ installed' = Receiver(Done.work.settings, Done.work.version, Done.password)
      <3> DEFINE p == Done.password
      <3>1. /\ Done.work.settings = settings
            /\ Done.work.version = profiles[settings.of].version
            /\ PasswordFits(p)
        BY <1>1, <1>2, <2>2 DEF Current, Fits, Result
      <3>2. /\ installed'.settings = settings /\ installed'.version = profiles[settings.of].version
            /\ installed'.password = p
        BY <2>2, <3>1 DEF Receiver
      <3> HIDE DEF p
      <3>3. PasswordFits(installed.password)'
        BY <1>1, <1>2, <3>1, <3>2 DEF PasswordFits, stored
      <3> QED
        BY <1>1, <1>2, <3>2, <3>3 DEF Inv, Listens
    <2> QED
      BY <1>1, <2>1, <2>2
  <1> QED
    BY <1>6, <1>7, <1>8, <1>9 DEF Inv

LEMMA PanickedKeeps == Inv /\ TypeOK' /\ Panicked => Inv'
  <1> SUFFICES ASSUME Inv, TypeOK', Panicked PROVE Inv'
    OBVIOUS
  <1>1. /\ engine \in {"running", "stopping"} /\ engine' = "stopping" /\ Drops
        /\ Answer(Waiting(Done.work), "stopped") /\ generation \in Nat
        /\ generation' = IF engine = "running" THEN generation + 1 ELSE generation
        /\ UNCHANGED <<asks, inbox, settings, profiles, configuring, installed, told,
                       preferences, stored, pool, io>>
    BY DEF Panicked, Drops, Inv, TypeOK
  <1>2. /\ Done.work \in Works /\ Fits(Done.work)
        /\ \A w \in Works : Left(w) => Fits(w) /\ ~Same(w, Done.work)
    BY <1>1, DoneFacts, LeftFacts DEF Drops, Inv
  <1>3. \A d \in Waiting(Done.work) :
           /\ d \in Calls /\ call[d] \notin {"idle", "sent"}
           /\ asks[d].what = Done.work.what
           /\ Done.work.what \in {"password", "preview"} => d = Done.work.call
    BY <1>2, WorkFields DEF Waiting, Fits
  <1>4. \A d \in Calls : IF d \in Waiting(Done.work) THEN call'[d] = "stopped" ELSE call'[d] = call[d]
    BY <1>1 DEF Answer
  <1>5. CallsStay /\ SavesStay /\ PasswordsStay /\ AcceptedStays /\ Acts
    BY <1>1, <1>4 DEF CallsStay, Unheard, SavesStay, PasswordsStay, AcceptedStays, Acts, preferences
  <1>6. ReceiverStays
    <2>1. CASE engine = "running"
      <3>1. generation' > generation
        BY <1>1, <2>1
      <3> QED
        BY <3>1 DEF ReceiverStays
    <2>2. CASE engine # "running"
      BY <1>1, <1>5, <2>2 DEF ReceiverStays
    <2> QED
      BY <2>1, <2>2
  <1>7. ASSUME NEW w \in Works, Left(w), w.what \in {"password", "preview"}
        PROVE  call'[w.call] = "accepted"
    <2>1. Fits(w) /\ ~Same(w, Done.work) /\ w.call \in Calls
      BY <1>2, <1>7, WorkFields
    <2>2. w.call \notin Waiting(Done.work)
      BY <1>3, <1>7, <2>1 DEF Same, Fits
    <2> QED
      BY <1>4, <1>7, <2>1, <2>2 DEF Fits
  <1>8. \A w \in Works : Left(w) =>
           /\ w.what = "credentials" => configuring' /\ ReceiverStays
           /\ w.what \in {"password", "preview"} => call'[w.call] = "accepted"
           /\ w.what = "settings" => saving' /\ SavesStay
    BY <1>1, <1>2, <1>5, <1>6, <1>7 DEF Fits, preferences
  <1>9. \A w \in Works : pool' # Append(pool, w)
    <2>1. \A w \in Works : Len(Append(pool, w)) = Len(pool) + 1 /\ Len(pool) \in Nat
      BY AppendAt, LenProperties DEF Inv, TypeOK
    <2> QED
      BY <1>1, <2>1
  <1>10. Distinct' /\ Jobs'
    BY <1>1, <1>5, <1>8, <1>9, ActsKeep DEF Inv
  <1>11. Requests'
    <2>1. \A d \in Calls : call[d] = "sent" => call'[d] = "sent"
      BY <1>3, <1>4
    <2> QED
      BY <1>1, <1>5, <2>1, RequestsStill DEF Inv
  <1>12. SavedIsKept'
    BY <1>1, <1>5, SavedStill DEF Inv, stored
  <1>13. Listens'
    BY <1>1, <1>5, ListensStill DEF Inv, stored
  <1> QED
    BY <1>10, <1>11, <1>12, <1>13 DEF Inv

LEMMA PasswordSavedKeeps == Inv /\ TypeOK' /\ PasswordSaved => Inv'
  <1> SUFFICES ASSUME Inv, TypeOK', PasswordSaved PROVE Inv'
    OBVIOUS
  <1> DEFINE c == Done.work.call
  <1>1. Completes("password")
    BY DEF PasswordSaved
  <1>2. /\ Drops /\ UNCHANGED <<asks, inbox, stored, io, engine>>
        /\ engine \in {"running", "stopping"}
    BY <1>1, CompletesFacts
  <1>3. \/ SavesProfile(c)
        \/ /\ \E how \in {"ok", "refused", "stopped"} : how # "ok" /\ Answer({c}, how)
           /\ UNCHANGED <<receiver, preferences, pool>>
    BY DEF PasswordSaved, SavesOrRefuses, Refuses
  <1>4. c \in Calls /\ asks[c].what = "password" /\ TypeOK
    BY <1>1, CompletesFacts, WorkFields DEF Fits, Inv
  <1>5. CASE /\ \E how \in {"ok", "refused", "stopped"} : how # "ok" /\ Answer({c}, how)
             /\ UNCHANGED <<receiver, preferences, pool>>
    BY <1>1, <1>2, <1>5, AnswersDone, CompletionKeeps
  <1>6. CASE OtherProfile(c)
    <2>1. Answer({c}, "ok") /\ UNCHANGED preferences /\ pool' = pool
      BY <1>6 DEF OtherProfile
    <2>2. \A w \in Works : Left(w) /\ w.what \in {"password", "preview"} => w.call # c
      BY <1>1, <2>1, AnswersDone
    <2>3. \A d \in Calls : call[d] = "sent" => call'[d] = "sent"
      BY <1>1, <2>1, AnswersDone
    <2>4. Acts
      BY <1>2, <2>1 DEF Acts
    <2> HIDE DEF c
    <2>5. /\ Distinct' /\ Jobs' /\ SavedIsKept' /\ Listens' /\ CallsStay
      BY <1>2, <1>4, <1>6, <2>2, <2>4, OtherProfileKeeps DEF Inv
    <2>6. Requests'
      BY <1>2, <2>1, <2>3, <2>5, RequestsStill DEF Inv
    <2> QED
      BY <2>5, <2>6 DEF Inv
  <1>7. ASSUME NEW ps \in [Profiles -> [version : Calls \cup {None}, register : BOOLEAN]], OwnProfile(c, ps)
        PROVE  Inv'
    <2>1. /\ Refresh(settings, ps, configuring) /\ settings' = settings /\ profiles' = ps
          /\ settings.of \in Profiles => ps[settings.of].register
          /\ UNCHANGED preferences
      BY <1>7 DEF OwnProfile
    <2>2. PICK how \in {"ok", "refused", "stopped"} : Answer({c}, how)
      BY <1>7 DEF OwnProfile
    <2>3. /\ settings \in [of : Targets, by : Calls \cup {None}] /\ configuring \in BOOLEAN
      BY DEF Inv, TypeOK
    <2>4. /\ CallsStay /\ SavesStay
          /\ \A d \in Calls : call[d] = "sent" => call'[d] = "sent"
          /\ \A w \in Works : Left(w) /\ w.what \in {"password", "preview"} => call'[w.call] = "accepted"
      BY <1>1, <2>2, AnswersDone
    <2>5. \A w \in Works : Left(w) =>
             /\ w.what = "credentials" => configuring
             /\ w.what \in {"password", "preview"} => call'[w.call] = "accepted"
      BY <2>4, LeftFacts DEF Fits, Inv
    <2>6. Distinct' /\ Jobs' /\ Listens'
      BY <1>2, <2>1, <2>3, <2>4, <2>5, RefreshKeeps DEF Inv
    <2>7. Requests'
      BY <1>2, <2>1, <2>4, RequestsStill DEF Inv
    <2>8. SavedIsKept'
      BY <1>2, <2>1, <2>4, SavedStill DEF Inv, AcceptedStays, preferences, stored
    <2> QED
      BY <2>6, <2>7, <2>8 DEF Inv
  <1> HIDE DEF c
  <1> QED
    BY <1>3, <1>4, <1>5, <1>6, <1>7, SavesEither

(* The preferences are written, or are not; those that wait come next.     *)
LEMMA SettingsSavedKeeps == Inv /\ TypeOK' /\ SettingsSaved => Inv'
  <1> SUFFICES ASSUME Inv, TypeOK', SettingsSaved PROVE Inv'
    OBVIOUS
  <1> DEFINE R == Done.work.replies
             lost == Lost(FALSE, pending)
             how == IF Done.result = "good" THEN "ok" ELSE "refused"
             new == [what |-> "settings", value |-> pending.value, replies |-> pending.replies]
  <1>1. /\ Completes("settings") /\ StartSettings(FALSE, pending) /\ UNCHANGED <<receiver, accepted>>
        /\ call' = [c \in Calls |-> CASE c \in R -> how
                                      [] c \in lost \ R -> "stopped"
                                      [] OTHER -> call[c]]
    BY DEF SettingsSaved
  <1>2. /\ Drops /\ UNCHANGED <<asks, inbox, stored, io, engine>>
        /\ Done.work \in Works /\ Done.work.what = "settings" /\ Fits(Done.work) /\ Result(Done)
        /\ \A w \in Works : Left(w) => Fits(w) /\ ~Same(w, Done.work)
    BY <1>1, CompletesFacts
  <1>3. \A d \in R \cup lost : asks[d].what = "settings" /\ call[d] \notin {"idle", "sent"}
    BY <1>2 DEF Fits, Lost, Inv, Requests
  <1>4. how \in {"ok", "refused"} /\ (how = "ok" => Done.result = "good")
    OBVIOUS
  <1>5. \A d \in Calls : \/ d \in R /\ call'[d] = how
                         \/ d \in lost /\ call'[d] = "stopped"
                         \/ d \notin R \cup lost /\ call'[d] = call[d]
    BY <1>1
  <1>6. /\ pending' = None
        /\ \/ pool' = pool
           \/ saving' /\ pending # None /\ pool' = Append(pool, new)
    BY <1>1 DEF StartSettings
  <1>7. pending # None => pending.value \in Calls /\ pending.replies \subseteq Calls
    BY DEF Inv, TypeOK
  <1>8. pending # None => new \in Works
    BY <1>7 DEF Works
  <1>9. new.what = "settings" /\ new.value = pending.value /\ new.replies = pending.replies
    OBVIOUS
  <1> HIDE DEF R, lost, how, new
  <1>10. CallsStay /\ PasswordsStay
    BY <1>3, <1>4, <1>5 DEF CallsStay, Unheard, PasswordsStay
  <1>11. AcceptedStays /\ Acts /\ ReceiverStays
    BY <1>1, <1>2, <1>6, <1>8, <1>10 DEF AcceptedStays, Acts, ReceiverStays, receiver
  <1>12. ASSUME NEW w \in Works, Left(w)
         PROVE  /\ w.what = "credentials" => configuring' /\ ReceiverStays
                /\ w.what \in {"password", "preview"} => call'[w.call] = "accepted"
                /\ w.what # "settings"
    <2>1. Fits(w) /\ ~Same(w, Done.work)
      BY <1>2, <1>12
    <2>2. w.what # "settings"
      BY <1>2, <2>1 DEF Same
    <2>3. w.what = "credentials" => configuring' /\ ReceiverStays
      BY <1>1, <1>11, <2>1 DEF Fits, receiver
    <2>4. w.what \in {"password", "preview"} => call'[w.call] = "accepted"
      BY <1>3, <1>5, <2>1, WorkFields DEF Fits
    <2> QED
      BY <2>2, <2>3, <2>4
  <1>13. ASSUME NEW w \in Works, pool' = Append(pool, w)
         PROVE  /\ Fits(w)' /\ Ahead(w)'
                /\ \A x \in Works : Left(x) => ~Same(x, w)
    <2>1. pool \in Seq(Works) /\ Len(pool) \in Nat
      BY LenProperties DEF Inv, TypeOK
    <2>2. pool'[Len(pool) + 1] = w /\ Len(pool') = Len(pool) + 1
      BY <1>13, <2>1, AppendAt
    <2>3. saving' /\ pending # None /\ pool' = Append(pool, new)
      BY <1>6, <2>1, <2>2
    <2>4. w = new
      <3>1. pool'[Len(pool) + 1] = new
        BY <1>8, <2>1, <2>3, AppendAt
      <3> QED
        BY <2>2, <3>1
    <2>5. Fits(w)'
      BY <1>2, <1>7, <1>9, <1>10, <2>3, <2>4 DEF Fits, Inv, Requests, CallsStay, Unheard
    <2>6. Ahead(w)'
      <3>1. /\ Len(accepted) > 0 /\ pending.value = accepted[Len(accepted)]
            /\ Len(accepted) \in Nat
        BY <2>3, LenProperties DEF Inv, Requests, TypeOK
      <3>2. Len(accepted) \in 1..Len(accepted) /\ \A n \in 1..Len(accepted) : n <= Len(accepted)
        BY <3>1
      <3> QED
        BY <1>1, <1>9, <2>4, <3>1, <3>2 DEF Ahead, Newer
    <2>7. \A x \in Works : Left(x) => ~Same(x, w)
      BY <1>9, <1>12, <2>4 DEF Same
    <2> QED
      BY <2>5, <2>6, <2>7
  <1>14. Distinct' /\ Jobs'
    <2>1. \A w \in Works : Left(w) =>
             /\ w.what = "credentials" => configuring' /\ ReceiverStays
             /\ w.what \in {"password", "preview"} => call'[w.call] = "accepted"
             /\ w.what = "settings" => saving' /\ SavesStay
      BY <1>12
    <2> QED
      BY <1>2, <1>10, <1>11, <1>13, <2>1, ActsKeep DEF Inv
  <1>15. Requests'
    <2>1. \A d \in Calls : call[d] = "sent" => call'[d] = "sent"
      BY <1>3, <1>5
    <2>2. \A n \in 1..Len(accepted) : accepted[n] \in Calls
      BY DEF Inv, TypeOK
    <2>3. \A n \in 1..Len(accepted) :
             asks[accepted[n]].what = "settings" /\ call'[accepted[n]] \notin {"idle", "sent"}
      BY <1>10, <2>2 DEF Inv, Requests, CallsStay, Unheard
    <2>4. \A n \in 1..Len(inbox) : inbox[n] \in Calls /\ call'[inbox[n]] = "sent"
      BY <2>1 DEF Inv, Requests, TypeOK
    <2> QED
      BY <1>1, <1>2, <1>6, <2>3, <2>4 DEF Inv, Requests
  <1>16. SavedIsKept'
    <2> SUFFICES ASSUME NEW n \in 1..Len(accepted), call'[accepted[n]] = "ok"
                 PROVE  Newer(file, n)
      BY <1>1, <1>2 DEF SavedIsKept, Newer, stored
    <2>1. accepted[n] \in Calls
      BY DEF Inv, TypeOK
    <2>2. CASE call[accepted[n]] = "ok"
      BY <2>2 DEF Inv, SavedIsKept
    <2>3. CASE accepted[n] \in R /\ how = "ok"
      BY <1>2, <1>4, <2>3 DEF Result, R
    <2> QED
      BY <1>5, <2>1, <2>2, <2>3
  <1>17. Listens'
    BY <1>1, <1>2, <1>10, ListensStill DEF Inv, stored, receiver
  <1> QED
    BY <1>14, <1>15, <1>16, <1>17 DEF Inv

-----------------------------------------------------------------------------
(* The threads of the pool *)

LEMMA TakesKeeps ==
    ASSUME Inv, TypeOK', NEW t \in Threads, WorkerTakes(t) PROVE Inv'
  <1> DEFINE r == [work |-> Head(pool), result |-> None, password |-> None]
  <1>1. /\ io[t] = None /\ pool # <<>> /\ pool' = Tail(pool) /\ io' = [io EXCEPT ![t] = r]
        /\ UNCHANGED <<asks, call, inbox, receiver, preferences, stored, completed, engine>>
    BY DEF WorkerTakes
  <1>2. /\ 1 \in 1..Len(pool) /\ Head(pool) = pool[1]
        /\ \A i \in 1..Len(pool') : i + 1 \in 1..Len(pool) /\ i + 1 # 1 /\ pool'[i] = pool[i + 1]
    BY <1>1, TailAt DEF Inv, TypeOK
  <1>3. r.work = pool[1] /\ r.result = None /\ r.result # "good"
    BY <1>2, ConfigAssumption
  <1> HIDE DEF r
  <1>4. io'[t] = r /\ \A u \in Threads : u # t => io'[u] = io[u]
    BY <1>1 DEF Inv, TypeOK
  <1>5. Distinct'
    <2>1. \A i, j \in 1..Len(pool') : Same(pool'[i], pool'[j]) => i = j
      <3> SUFFICES ASSUME NEW i \in 1..Len(pool'), NEW j \in 1..Len(pool'), Same(pool'[i], pool'[j])
                   PROVE  i = j
        OBVIOUS
      <3>1. i + 1 = j + 1
        BY <1>2 DEF Inv, Distinct
      <3> QED
        BY <3>1
    <2>2. \A u, v \in Threads : io'[u] # None /\ io'[v] # None /\ Same(io'[u].work, io'[v].work) => u = v
      <3> SUFFICES ASSUME NEW u \in Threads, NEW v \in Threads, io'[u] # None, io'[v] # None,
                          Same(io'[u].work, io'[v].work), u # v
                   PROVE  FALSE
        OBVIOUS
      <3>1. CASE u # t /\ v # t
        BY <1>4, <3>1 DEF Inv, Distinct
      <3>2. CASE u = t
        <4>1. Same(pool[1], io[v].work) /\ io[v] # None
          BY <1>3, <1>4, <3>2
        <4> QED
          BY <1>2, <4>1 DEF Inv, Distinct
      <3>3. CASE v = t
        <4>1. Same(pool[1], io[u].work) /\ io[u] # None
          BY <1>3, <1>4, <3>3 DEF Same
        <4> QED
          BY <1>2, <4>1 DEF Inv, Distinct
      <3> QED
        BY <3>1, <3>2, <3>3
    <2>3. \A i \in 1..Len(pool'), u \in Threads : io'[u] # None => ~Same(pool'[i], io'[u].work)
      <3> SUFFICES ASSUME NEW i \in 1..Len(pool'), NEW u \in Threads, io'[u] # None,
                          Same(pool'[i], io'[u].work)
                   PROVE  FALSE
        OBVIOUS
      <3>1. CASE u # t
        BY <1>2, <1>4, <3>1 DEF Inv, Distinct
      <3>2. CASE u = t
        BY <1>2, <1>3, <1>4, <3>2 DEF Inv, Distinct
      <3> QED
        BY <3>1, <3>2
    <2>4. \A i \in 1..Len(pool'), j \in 1..Len(completed) : ~Same(pool'[i], completed[j].work)
      BY <1>2 DEF Inv, Distinct
    <2>5. \A u \in Threads, j \in 1..Len(completed) : io'[u] # None => ~Same(io'[u].work, completed[j].work)
      BY <1>2, <1>3, <1>4 DEF Inv, Distinct
    <2>6. \A i, j \in 1..Len(completed) : Same(completed[i].work, completed[j].work) => i = j
      BY DEF Inv, Distinct
    <2> QED
      BY <1>1, <2>1, <2>2, <2>3, <2>4, <2>5, <2>6 DEF Distinct
  <1>6. Jobs'
    <2>1. \A i \in 1..Len(pool') : Fits(pool'[i]) /\ Ahead(pool'[i])
      BY <1>2 DEF Inv, Jobs
    <2>2. \A u \in Threads : io'[u] # None =>
             Fits(io'[u].work) /\ Result(io'[u]) /\ (io'[u].result = None => Ahead(io'[u].work))
      <3>1. Fits(r.work) /\ Result(r) /\ Ahead(r.work)
        BY <1>2, <1>3 DEF Inv, Jobs, Result
      <3> QED
        BY <1>4, <3>1 DEF Inv, Jobs
    <2>3. \A j \in 1..Len(completed) : Fits(completed[j].work) /\ Result(completed[j])
      BY DEF Inv, Jobs
    <2>4. UNCHANGED <<asks, call, settings, profiles, generation, configuring, saving, accepted,
                      keyring, file>>
      BY <1>1 DEF receiver, preferences, stored
    <2> QED
      BY <1>1, <2>1, <2>2, <2>3, <2>4 DEF Jobs, Fits, Ahead, Result, Newer, PasswordFits
  <1>7. Requests' /\ SavedIsKept' /\ Listens'
    BY <1>1 DEF Inv, Requests, SavedIsKept, Newer, Listens, PasswordFits, receiver, preferences, stored
  <1> QED
    BY <1>5, <1>6, <1>7 DEF Inv

LEMMA SendsKeeps ==
    ASSUME Inv, TypeOK', NEW t \in Threads, WorkerSends(t) PROVE Inv'
  <1>1. /\ io[t] # None /\ completed' = Append(completed, io[t]) /\ io' = [io EXCEPT ![t] = None]
        /\ UNCHANGED <<asks, call, inbox, receiver, preferences, stored, pool, engine>>
    BY DEF WorkerSends
  <1>2. io'[t] = None /\ \A u \in Threads : u # t => io'[u] = io[u]
    BY <1>1 DEF Inv, TypeOK
  <1>3. \A j \in 1..Len(completed') :
           \/ j \in 1..Len(completed) /\ completed'[j] = completed[j]
           \/ j = Len(completed) + 1 /\ completed'[j] = io[t]
    <2>1. completed \in Seq(Runs) /\ io[t] \in Runs
      BY <1>1 DEF Inv, TypeOK
    <2> QED
      BY <1>1, <2>1, AppendAt
  <1>4. Distinct'
    <2>1. \A i, j \in 1..Len(completed') : Same(completed'[i].work, completed'[j].work) => i = j
      <3> SUFFICES ASSUME NEW i \in 1..Len(completed'), NEW j \in 1..Len(completed'),
                          Same(completed'[i].work, completed'[j].work), i # j
                   PROVE  FALSE
        OBVIOUS
      <3>1. CASE i \in 1..Len(completed) /\ completed'[i] = completed[i] /\ j \in 1..Len(completed) /\ completed'[j] = completed[j]
        BY <3>1 DEF Inv, Distinct
      <3>2. CASE i \in 1..Len(completed) /\ completed'[i] = completed[i] /\ completed'[j] = io[t]
        <4>1. Same(io[t].work, completed[i].work)
          BY <3>2 DEF Same
        <4> QED
          BY <1>1, <3>2, <4>1 DEF Inv, Distinct
      <3>3. CASE j \in 1..Len(completed) /\ completed'[j] = completed[j] /\ completed'[i] = io[t]
        BY <1>1, <3>3 DEF Inv, Distinct
      <3> QED
        BY <1>3, <3>1, <3>2, <3>3
    <2>2. \A u, v \in Threads : io'[u] # None /\ io'[v] # None /\ Same(io'[u].work, io'[v].work) => u = v
      BY <1>2 DEF Inv, Distinct
    <2>3. \A i \in 1..Len(pool), u \in Threads : io'[u] # None => ~Same(pool[i], io'[u].work)
      BY <1>2 DEF Inv, Distinct
    <2>4. \A i \in 1..Len(pool), j \in 1..Len(completed') : ~Same(pool[i], completed'[j].work)
      BY <1>1, <1>3 DEF Inv, Distinct
    <2>5. \A u \in Threads, j \in 1..Len(completed') : io'[u] # None => ~Same(io'[u].work, completed'[j].work)
      BY <1>1, <1>2, <1>3 DEF Inv, Distinct
    <2>6. \A i, j \in 1..Len(pool) : Same(pool[i], pool[j]) => i = j
      BY DEF Inv, Distinct
    <2> QED
      BY <1>1, <2>1, <2>2, <2>3, <2>4, <2>5, <2>6 DEF Distinct
  <1>5. Jobs'
    <2>1. \A i \in 1..Len(pool) : Fits(pool[i]) /\ Ahead(pool[i])
      BY DEF Inv, Jobs
    <2>2. \A u \in Threads : io'[u] # None =>
             Fits(io'[u].work) /\ Result(io'[u]) /\ (io'[u].result = None => Ahead(io'[u].work))
      BY <1>2 DEF Inv, Jobs
    <2>3. \A j \in 1..Len(completed') : Fits(completed'[j].work) /\ Result(completed'[j])
      BY <1>1, <1>3 DEF Inv, Jobs
    <2>4. UNCHANGED <<asks, call, settings, profiles, generation, configuring, saving, accepted,
                      keyring, file>>
      BY <1>1 DEF receiver, preferences, stored
    <2> QED
      BY <1>1, <2>1, <2>2, <2>3, <2>4 DEF Jobs, Fits, Ahead, Result, Newer, PasswordFits
  <1>6. Requests' /\ SavedIsKept' /\ Listens'
    BY <1>1 DEF Inv, Requests, SavedIsKept, Newer, Listens, PasswordFits, receiver, preferences, stored
  <1> QED
    BY <1>4, <1>5, <1>6 DEF Inv

(* What a thread does keeps what every result stands for: a password that  *)
(* is written is that of a call which was not answered yet, and no other   *)
(* preferences are being written.                                          *)
LEMMA ResultsStand ==
    ASSUME Inv, NEW t \in Threads, io[t] # None, io[t] \in Runs, io[t].work \in Works,
           Fits(io[t].work), Ahead(io[t].work), NEW password, Succeeds(t, password),
           UNCHANGED <<asks, call, settings, generation, accepted>>,
           NEW r \in Runs, Result(r), Fits(r.work), ~Same(r.work, io[t].work)
    PROVE  Result(r)'
  <1> DEFINE w == io[t].work
  <1>1. r.work \in Works /\ w \in Works
    BY DEF Runs
  <1>2. CASE w.what \in {"preview", "credentials"}
    BY <1>2 DEF Succeeds, Result, Newer, PasswordFits
  <1>3. CASE w.what = "settings"
    <2>1. r.work.what # "settings" /\ keyring' = keyring
      BY <1>3 DEF Same, Succeeds
    <2> QED
      BY <2>1 DEF Result, PasswordFits
  <1>4. CASE w.what = "password"
    <2>1. /\ w.call \in Calls /\ asks[w.call].what = "password" /\ call[w.call] = "accepted"
          /\ keyring' = [keyring EXCEPT ![asks[w.call].of] = w.call] /\ file' = file
      BY <1>1, <1>4, WorkFields DEF Succeeds, Fits
    <2>2. ASSUME r.result = "good", r.work.what = "credentials", r.work.generation = generation
          PROVE  PasswordFits(r.password)'
      <3>1. settings.of \in Profiles /\ PasswordFits(r.password)
        BY <1>1, <2>2, WorkFields DEF Fits, Result
      <3>2. CASE asks[w.call].of = settings.of
        BY <2>1, <3>2 DEF PasswordFits
      <3>3. CASE asks[w.call].of # settings.of
        <4>1. keyring'[settings.of] = keyring[settings.of]
          BY <2>1, <3>1, <3>3 DEF Inv, TypeOK
        <4> QED
          BY <3>1, <4>1 DEF PasswordFits
      <3> QED
        BY <3>2, <3>3
    <2> QED
      BY <2>1, <2>2 DEF Result, Newer
  <1> QED
    BY <1>1, <1>2, <1>3, <1>4, WorkFields

LEMMA DoesKeeps ==
    ASSUME Inv, TypeOK', NEW t \in Threads, WorkerDoes(t) PROVE Inv'
  <1> DEFINE w == io[t].work
  <1>1. UNCHANGED <<asks, call, inbox, receiver, preferences, pool, completed, engine>>
    BY DEF WorkerDoes
  <1>2. /\ io[t] # None /\ io[t].result = None
        /\ io[t] \in Runs /\ w \in Works /\ Fits(w)
        /\ \/ Fails(t)
           \/ \E password \in Calls \cup {None} :
                 /\ Succeeds(t, password)
                 /\ w.what = "credentials" => password = keyring[w.settings.of]
    BY DoesWhat DEF Inv
  <1>3. Ahead(w)
    BY <1>2 DEF Inv, Jobs
  <1>4. io'[t].work = w /\ \A u \in Threads : u # t => io'[u] = io[u]
    <2>1. io \in [Threads -> Runs \cup {None}]
      BY DEF Inv, TypeOK
    <2>2. CASE Fails(t)
      <3>1. PICK how \in {"bad", "panic"} : io' = [io EXCEPT ![t].result = how]
        BY <2>2 DEF Fails
      <3>2. io'[t] = [io[t] EXCEPT !.result = how]
        BY <2>1, <3>1
      <3> QED
        BY <1>2, <2>1, <3>1, <3>2 DEF Runs
    <2>3. ASSUME NEW password, Succeeds(t, password)
          PROVE  io'[t].work = w /\ \A u \in Threads : u # t => io'[u] = io[u]
      <3>1. io'[t] = [io[t] EXCEPT !.result = "good", !.password = password]
        BY <2>1, <2>3 DEF Succeeds
      <3> QED
        BY <1>2, <2>1, <2>3, <3>1 DEF Runs, Succeeds
    <2> QED
      BY <1>2, <2>2, <2>3
  <1>5. Distinct'
    <2>1. \A u \in Threads : io'[u] # None => io[u] # None /\ io'[u].work = io[u].work
      BY <1>2, <1>4
    <2>2. \A u, v \in Threads : io'[u] # None /\ io'[v] # None /\ Same(io'[u].work, io'[v].work) => u = v
      BY <2>1 DEF Inv, Distinct
    <2>3. \A i \in 1..Len(pool), u \in Threads : io'[u] # None => ~Same(pool[i], io'[u].work)
      BY <2>1 DEF Inv, Distinct
    <2>4. \A u \in Threads, j \in 1..Len(completed) : io'[u] # None => ~Same(io'[u].work, completed[j].work)
      BY <2>1 DEF Inv, Distinct
    <2> QED
      BY <1>1, <2>2, <2>3, <2>4 DEF Inv, Distinct
  <1>6. UNCHANGED <<settings, profiles, generation, configuring, installed, told, saving, pending, accepted>>
    BY <1>1 DEF receiver, preferences
  <1>7. Requests'
    BY <1>1, <1>6 DEF Inv, Requests
  <1>8. \A x \in Works : Fits(x) => Fits(x)'
    BY <1>1, <1>6 DEF Fits
  <1>9. \A x \in Works : Ahead(x) => Ahead(x)'
    BY <1>1, <1>6 DEF Ahead, Newer
  <1>10. CASE Fails(t)
    <2>1. keyring' = keyring /\ file' = file
      BY <1>10 DEF Fails, stored
    <2>2. io'[t].result # "good"
      BY <1>2, <1>10 DEF Fails, Inv, TypeOK, Runs
    <2>3. \A i \in 1..Len(pool) : Fits(pool[i]) /\ Ahead(pool[i])
      BY DEF Inv, Jobs
    <2>4. \A u \in Threads : io'[u] # None =>
             Fits(io'[u].work) /\ Result(io'[u]) /\ (io'[u].result = None => Ahead(io'[u].work))
      <3>1. Result(io'[t])
        BY <2>2 DEF Result
      <3> QED
        BY <1>2, <1>3, <1>4, <3>1 DEF Inv, Jobs
    <2>5. \A j \in 1..Len(completed) : Fits(completed[j].work) /\ Result(completed[j])
      BY DEF Inv, Jobs
    <2>6. Jobs'
      BY <1>1, <1>6, <2>1, <2>3, <2>4, <2>5 DEF Jobs, Fits, Ahead, Result, Newer, PasswordFits
    <2>7. SavedIsKept' /\ Listens'
      BY <1>1, <1>6, <2>1 DEF Inv, SavedIsKept, Newer, Listens, PasswordFits
    <2> QED
      BY <1>5, <1>7, <2>6, <2>7 DEF Inv
  <1>11. ASSUME NEW password \in Calls \cup {None}, Succeeds(t, password),
                w.what = "credentials" => password = keyring[w.settings.of]
         PROVE  Inv'
    <2>1. /\ io'[t].result = "good" /\ io'[t].password = password
      BY <1>2, <1>11 DEF Succeeds, Inv, TypeOK, Runs
    <2>2. ASSUME NEW r, r = io'[t] PROVE Result(r)'
      <3>1. r.result = "good" /\ r.work = w /\ r.password = password
        BY <1>4, <2>1, <2>2
      <3>2. ASSUME w.what = "settings", NEW n \in 1..Len(accepted), accepted[n] \in w.replies
            PROVE  \E m \in 1..Len(accepted) : n <= m /\ file' = accepted[m]
        BY <1>3, <1>11, <3>2 DEF Ahead, Succeeds, Newer
      <3>3. ASSUME w.what = "credentials", w.generation = generation
            PROVE  password = keyring'[settings.of]
        BY <1>2, <1>11, <3>3 DEF Fits, Succeeds
      <3> QED
        BY <1>6, <3>1, <3>2, <3>3 DEF Result, Newer, PasswordFits
    <2>3. ASSUME NEW r \in Runs, Result(r), Fits(r.work), ~Same(r.work, w) PROVE Result(r)'
      BY <1>1, <1>2, <1>3, <1>6, <1>11, <2>3, ResultsStand
    <2>4. ASSUME NEW u \in Threads, NEW r, r = io'[u], r # None
          PROVE  Fits(r.work)' /\ Result(r)' /\ (r.result = None => Ahead(r.work)')
      <3>1. CASE u = t
        BY <1>2, <1>3, <1>4, <1>8, <1>9, <2>2, <2>4, <3>1
      <3>2. CASE u # t
        <4>1. /\ r \in Runs /\ r.work \in Works /\ Fits(r.work) /\ Result(r)
              /\ r.result = None => Ahead(r.work)
          BY <1>4, <2>4, <3>2, Placed DEF Inv, Jobs
        <4>2. ~Same(r.work, w)
          BY <1>2, <1>4, <2>4, <3>2 DEF Inv, Distinct
        <4> QED
          BY <1>8, <1>9, <2>3, <4>1, <4>2
      <3> QED
        BY <3>1, <3>2
    <2>5. ASSUME NEW j \in 1..Len(completed), NEW r, r = completed[j]
          PROVE  Fits(r.work)' /\ Result(r)'
      <3>1. r \in Runs /\ r.work \in Works /\ Fits(r.work) /\ Result(r)
        BY <2>5, Placed DEF Inv, Jobs
      <3>2. ~Same(r.work, w)
        BY <1>2, <2>5 DEF Inv, Distinct, Same
      <3> QED
        BY <1>8, <2>3, <3>1, <3>2
    <2>6. Jobs'
      <3>1. \A i \in 1..Len(pool') : Fits(pool[i])' /\ Ahead(pool[i])'
        <4> SUFFICES ASSUME NEW i \in 1..Len(pool') PROVE Fits(pool[i])' /\ Ahead(pool[i])'
          OBVIOUS
        <4>1. PICK x : x = pool'[i]
          OBVIOUS
        <4>2. x \in Works /\ Fits(x) /\ Ahead(x)
          BY <1>1, <4>1, Placed DEF Inv, Jobs
        <4>3. Fits(x)' /\ Ahead(x)'
          BY <1>8, <1>9, <4>2
        <4> QED
          BY <4>1, <4>3 DEF Fits, Ahead, Newer
      <3>2. \A u \in Threads : io'[u] # None =>
               Fits(io[u].work)' /\ Result(io[u])' /\ (io'[u].result = None => Ahead(io[u].work)')
        <4> SUFFICES ASSUME NEW u \in Threads, io'[u] # None
                     PROVE  Fits(io[u].work)' /\ Result(io[u])' /\ (io'[u].result = None => Ahead(io[u].work)')
          OBVIOUS
        <4>1. PICK r : r = io'[u]
          OBVIOUS
        <4>2. Fits(r.work)' /\ Result(r)' /\ (r.result = None => Ahead(r.work)')
          BY <2>4, <4>1
        <4> QED
          BY <4>1, <4>2 DEF Fits, Ahead, Newer, Result, PasswordFits
      <3>3. \A j \in 1..Len(completed') : Fits(completed[j].work)' /\ Result(completed[j])'
        <4> SUFFICES ASSUME NEW j \in 1..Len(completed')
                     PROVE  Fits(completed[j].work)' /\ Result(completed[j])'
          OBVIOUS
        <4>1. PICK r : r = completed'[j]
          OBVIOUS
        <4>2. Fits(r.work)' /\ Result(r)'
          BY <1>1, <2>5, <4>1
        <4> QED
          BY <4>1, <4>2 DEF Fits, Newer, Result, PasswordFits
      <3> QED
        BY <3>1, <3>2, <3>3 DEF Jobs
    <2>7. SavedIsKept'
      <3>1. CASE w.what = "settings"
        BY <1>1, <1>3, <1>6, <1>11, <3>1 DEF SavedIsKept, Newer, Ahead, Succeeds
      <3>2. CASE w.what # "settings"
        BY <1>1, <1>6, <1>11, <3>2 DEF Inv, SavedIsKept, Newer, Succeeds
      <3> QED
        BY <3>1, <3>2
    <2>8. Listens'
      <3>1. ASSUME NEW p, PasswordFits(p), settings.of \in Profiles PROVE PasswordFits(p)'
        <4>1. CASE w.what = "password"
          <5>1. /\ w.call \in Calls /\ asks[w.call].what = "password" /\ call[w.call] = "accepted"
                /\ keyring' = [keyring EXCEPT ![asks[w.call].of] = w.call]
            BY <1>2, <1>11, <4>1, WorkFields DEF Succeeds, Fits
          <5>2. CASE asks[w.call].of = settings.of
            BY <1>1, <1>6, <5>1, <5>2 DEF PasswordFits
          <5>3. CASE asks[w.call].of # settings.of
            <6>1. keyring'[settings.of] = keyring[settings.of]
              BY <3>1, <5>1, <5>3 DEF Inv, TypeOK
            <6> QED
              BY <1>1, <1>6, <3>1, <6>1 DEF PasswordFits
          <5> QED
            BY <5>2, <5>3
        <4>2. CASE w.what # "password"
          BY <1>1, <1>6, <1>11, <3>1, <4>2 DEF PasswordFits, Succeeds
        <4> QED
          BY <4>1, <4>2
      <3>2. PICK p : p = installed.password
        OBVIOUS
      <3>3. ASSUME engine = "running", ~configuring, ~told, settings.of \in Profiles
            PROVE  PasswordFits(p)'
        BY <3>1, <3>2, <3>3 DEF Inv, Listens
      <3>4. ASSUME engine = "running", ~configuring, ~told, settings.of \in Profiles
            PROVE  PasswordFits(installed.password)'
        BY <1>6, <3>2, <3>3, <3>4 DEF PasswordFits
      <3> QED
        BY <1>1, <1>6, <3>4 DEF Inv, Listens
    <2> QED
      BY <1>5, <1>7, <2>6, <2>7, <2>8 DEF Inv
  <1> QED
    BY <1>2, <1>10, <1>11

-----------------------------------------------------------------------------
(* The theorems *)

LEMMA InitInv == Init => Inv
  <1> SUFFICES ASSUME Init PROVE Inv
    OBVIOUS
  <1>1. PICK c \in Cases : /\ asks = c.asks /\ faults = c.faults
                           /\ settings = [of |-> c.receiver, by |-> None]
    BY DEF Init
  <1>2. c.receiver \in Targets /\ c.faults \in Nat /\ c.asks \in [Calls -> Asks]
    BY ConfigAssumption
  <1>3. TypeOK
    <2>1. /\ asks \in [Calls -> Asks] /\ faults \in Nat
          /\ settings \in [of : Targets, by : Calls \cup {None}]
      BY <1>1, <1>2
    <2>2. call \in [Calls -> {"idle", "sent", "accepted", "ok", "refused", "stopped"}]
      BY DEF Init
    <2>3. /\ profiles \in [Profiles -> [version : Calls \cup {None}, register : BOOLEAN]]
          /\ keyring \in [Profiles -> Calls \cup {None}]
          /\ io \in [Threads -> Runs \cup {None}]
      BY DEF Init
    <2>4. /\ inbox \in Seq(Calls) /\ accepted \in Seq(Calls)
          /\ pool \in Seq(Works) /\ completed \in Seq(Runs) /\ Len(pool) = 0
      BY DEF Init
    <2>5. /\ generation \in Nat /\ configuring \in BOOLEAN /\ told \in BOOLEAN
          /\ saving \in BOOLEAN /\ pending = None /\ file = None /\ engine = "opening"
      BY DEF Init
    <2> QED
      BY <2>1, <2>2, <2>3, <2>4, <2>5, ConfigAssumption DEF TypeOK
  <1>4. Distinct /\ Jobs
    BY DEF Init, Distinct, Jobs, Threads
  <1>5. Requests /\ SavedIsKept
    BY DEF Init, Requests, SavedIsKept
  <1>6. Listens
    BY DEF Init, Listens
  <1> QED
    BY <1>3, <1>4, <1>5, <1>6 DEF Inv

(* Every step keeps the invariant. *)
LEMMA NextInv == Inv /\ [Next]_vars => Inv'
  <1> SUFFICES ASSUME Inv, [Next]_vars PROVE Inv'
    OBVIOUS
  <1>1. TypeOK'
    BY TypeNext DEF Inv
  <1>2. CASE UNCHANGED vars
    BY <1>1, <1>2 DEF vars, receiver, preferences, stored, work, Inv, Distinct, Jobs, Fits, Ahead, Result,
                      Requests, SavedIsKept, Listens, Newer, PasswordFits
  <1>3. CASE Next
    BY <1>1, <1>3, NextIsActions, OpenKeeps, StopKeeps, StoppedKeeps, StoppingKeeps, StaleKeeps,
       InstallKeeps, PasswordSavedKeeps, SettingsSavedKeeps, PreviewedKeeps, PanickedKeeps,
       SubmitKeeps, ConfigureKeeps, ReconnectKeeps, SaveProfileKeeps, HandsKeeps, SaveSettingsKeeps,
       TakesKeeps, DoesKeeps, SendsKeeps
       DEF Actions, SavePassword, Preview
  <1> QED
    BY <1>2, <1>3

(* Work under way stays apart and up to date: the invariant that the       *)
(* theorems below rest on.                                                 *)
THEOREM Invariant == Spec => []Inv
  <1>1. Init => Inv
    BY InitInv
  <1>2. Inv /\ [Next]_vars => Inv'
    BY NextInv
  <1> QED
    BY <1>1, <1>2, PTL DEF Spec

(* Every variable keeps its shape; in particular the pool's queue is never *)
(* longer than its bound, and only works it can hold are in it.            *)
THEOREM TypeCorrect == Spec => []TypeOK
  <1>1. Inv => TypeOK
    BY DEF Inv
  <1> QED
    BY <1>1, Invariant, PTL

(* queue_settings, start_settings: whatever order the calls, the failures, *)
(* panics and the stop come in, a caller who was told that preferences are *)
(* saved finds them in the file, or others that were accepted later.       *)
THEOREM SavedPreferencesLast == Spec => []LastSaveWins
  <1>1. Inv => LastSaveWins
    <2> SUFFICES ASSUME Inv, NEW n \in DOMAIN accepted, call[accepted[n]] = "ok"
                 PROVE  \E m \in n..Len(accepted) : file = accepted[m]
      BY DEF LastSaveWins
    <2>1. DOMAIN accepted = 1..Len(accepted) /\ Len(accepted) \in Nat
      BY LenProperties DEF Inv, TypeOK
    <2>2. PICK m \in 1..Len(accepted) : n <= m /\ file = accepted[m]
      BY <2>1 DEF Inv, SavedIsKept, Newer
    <2>3. m \in n..Len(accepted)
      BY <2>1, <2>2
    <2> QED
      BY <2>2, <2>3
  <1> QED
    BY <1>1, Invariant, PTL

(* refresh_receiver, install_receiver: the receiver of an engine that      *)
(* reads no password and shows no error is the one that was saved last,    *)
(* for any number of calls, profiles and places in the pool's queue.       *)
THEOREM ReceiverSettles == Spec => []ReceiverIsCurrent
  <1>1. Inv => ReceiverIsCurrent
    BY DEF Inv, Listens, ReceiverIsCurrent, PasswordFits
  <1> QED
    BY <1>1, Invariant, PTL
=============================================================================
