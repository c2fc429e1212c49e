-------------------------------- MODULE Export --------------------------------
(***************************************************************************)
(* How faxe-engine publishes received faxes as PDF files: the actor's      *)
(* queue of exports, the one faxe-export thread, the journal it keeps in   *)
(* the received_faxes table, and the user's folder, across crashes of the  *)
(* process or of the machine between any two steps.                        *)
(*                                                                         *)
(* All receptions have the same filename_stem, as two that arrive in one   *)
(* second do: they compete for the same names <stem>.pdf, <stem>-2.pdf,    *)
(* ...  A file is told apart only by whose it is: a rendered PDF ends with *)
(* a marker of its reception, so same_file_content is equality of owners.  *)
(***************************************************************************)
EXTENDS Naturals, Sequences, FiniteSets

CONSTANTS Faxes,        \* the identities of receptions
          Suffixes,     \* bound: how many names are tried (100 000 in the code)
          MaxFiles,     \* bound: files other programs put into the folder
          MaxRestarts,  \* bound: how often the data directory is reopened
          MaxFaults     \* bound: failed writes, renderings, spawns, panics,
                        \* on each platform

Platforms == {"unix", "windows"}

ASSUME ExportAssumption ==
    /\ IsFiniteSet(Faxes)
    /\ Suffixes \in Nat \ {0}
    /\ MaxFiles \in Nat
    /\ MaxRestarts \in Nat
    /\ MaxFaults \in [Platforms -> Nat]
    /\ {"none", "free", "other"} \cap Faxes = {}

VARIABLES
    row,        \* the received_faxes table: outcome and export status
    tiff,       \* receptions whose spool holds image data
    pdf,        \* receptions with a rendered received.pdf in their spool
    folder,     \* what each name of the receive folder holds
    staging,    \* receptions with a file .faxe-<id>.pdf in that folder
    unsynced,   \* names linked since the directory was last synced
    redrawn,    \* receptions whose received.pdf was lost: it is rendered again
    exports,    \* Actor.exports: receptions waiting for the exporter
    exporting,  \* Actor.exporting: none or one reception
    step,       \* where the faxe-export thread is in export()
    copy,       \* the thread's own ExportStatus of the reception
    phase,      \* the life of the process and of its actor
    opened,     \* history: ReceivedPdfReady effects sent for each reception
    taken,      \* history: receptions whose published file the user removed
    files, restarts, faults,
    platform    \* what the code was built for; never changes

disk    == <<row, tiff, pdf, folder, staging, unsynced, redrawn>>
thread  == <<exporting, step, copy>>
history == <<opened, taken, files, restarts, faults, platform>>
vars == <<disk, exports, thread, phase, history>>

Names == 1 .. Suffixes
NoFax == "none"

-----------------------------------------------------------------------------
(* A reception that is being received has no export status yet that counts *)
(* (outcome Receiving); afterwards its ExportStatus decides.  dest is 0    *)
(* where the status names no file.                                         *)
Status(kind, dest, error) == [kind |-> kind, dest |-> dest, error |-> error]
Plain(kind) == Status(kind, 0, FALSE)
Absent == Plain("Absent")
Publishing(dest) == Status("Publishing", dest, FALSE)

Kinds == {"Absent", "Receiving", "Pending", "Publishing", "Published", "Failed", "NoContent"}

(* ReceivedFax::is_finished *)
IsFinished(status) ==
    \/ status.kind \in {"Published", "Failed", "NoContent"}
    \/ status.kind = "Publishing" /\ status.error

(* What Actor::open queues for export. *)
Unfinished(status) == status.kind \in {"Pending", "Publishing", "Failed"}

Init ==
    /\ row = [f \in Faxes |-> Absent]
    /\ tiff = {}
    /\ pdf = {}
    /\ folder = [n \in Names |-> "free"]
    /\ staging = {}
    /\ unsynced = {}
    /\ redrawn = {}
    /\ exports = <<>>
    /\ exporting = NoFax
    /\ step = "idle"
    /\ copy = Absent
    /\ phase = "Running"
    /\ opened = [f \in Faxes |-> 0]
    /\ taken = {}
    /\ files = 0
    /\ restarts = 0
    /\ faults = 0
    /\ platform \in Platforms

Fault == faults < MaxFaults[platform] /\ faults' = faults + 1 /\ UNCHANGED platform
Queued == {exports[i] : i \in DOMAIN exports}

(* save_received and received_changed: the PDF is announced when a         *)
(* reception that was shown as not published becomes published.            *)
Save(f, status) ==
    /\ row' = [row EXCEPT ![f] = status]
    /\ opened' = IF status.kind = "Published" /\ row[f].kind # "Published"
                   THEN [opened EXCEPT ![f] = @ + 1] ELSE opened

-----------------------------------------------------------------------------
(* The actor *)

(* reserve_incoming; the call may leave image data in the spool or not. *)
Reserve(f) ==
    /\ phase = "Running"
    /\ row[f] = Absent
    /\ row' = [row EXCEPT ![f] = Plain("Receiving")]
    /\ tiff' \in {tiff, tiff \cup {f}}
    /\ UNCHANGED <<pdf, folder, staging, unsynced, redrawn, exports, thread, phase, history>>

(* Mutant: a reception is queued without a look at the queue and the exporter. *)
PushAlways(f) == exports' = IF Unfinished(row'[f]) THEN Append(exports, f) ELSE exports

(* retry_export *)
Push(f) ==
    exports' = IF ~Unfinished(row'[f]) \/ exporting = f \/ f \in Queued
                 THEN exports ELSE Append(exports, f)

(* received(Finished) ends the transfer and asks for the first export. *)
Finished(f) ==
    /\ phase \in {"Running", "Stopping"}
    /\ row[f].kind = "Receiving"
    /\ row' = [row EXCEPT ![f] = Plain("Pending")]
    /\ Push(f)
    /\ UNCHANGED <<tiff, pdf, folder, staging, unsynced, redrawn, thread, phase, history>>

RetryExport(f) ==
    /\ phase = "Running"
    /\ Unfinished(row[f])
    /\ UNCHANGED row
    /\ Push(f)
    /\ UNCHANGED <<tiff, pdf, folder, staging, unsynced, redrawn, thread, phase, history>>

(* start_export *)
CanStart == phase = "Running" /\ exporting = NoFax /\ exports # <<>>

StartExport ==
    /\ CanStart
    /\ exports' = Tail(exports)
    /\ exporting' = Head(exports)
    /\ copy' = row[Head(exports)]
    /\ step' = "begin"
    /\ UNCHANGED <<disk, phase, history>>

(* The row cannot be read or the thread cannot start: the reception has    *)
(* left the queue.                                                         *)
StartFails ==
    /\ CanStart
    /\ Fault
    /\ exports' = Tail(exports)
    /\ UNCHANGED <<disk, thread, phase, opened, taken, files, restarts>>

Stop ==
    /\ phase = "Running"
    /\ phase' = "Stopping"
    /\ UNCHANGED <<disk, exports, thread, history>>

Stopped ==
    /\ phase = "Stopping"
    /\ step = "idle"
    /\ phase' = "Stopped"
    /\ UNCHANGED <<disk, exports, thread, history>>

-----------------------------------------------------------------------------
(* The thread in export(), one action for what happens between two writes. *)
(* Journalling is done by the actor while the thread waits for its answer. *)

Goto(place) ==
    /\ step' = place
    /\ UNCHANGED <<exporting, exports, phase>>

(* Any call of the thread may fail with an error, which ends export().     *)
ThreadFails ==
    /\ step \notin {"idle", "failed", "done", "clean"}
    /\ Fault
    /\ copy' = IF step = "publish" THEN Status("Published", copy.dest, FALSE) ELSE copy
    /\ Goto("failed")
    /\ UNCHANGED <<disk, opened, taken, files, restarts>>

(* A Publishing reception whose file is already there was linked before.   *)
AlreadyLinked ==
    /\ copy.kind = "Publishing"
    /\ exporting \in pdf
    /\ folder[copy.dest] = exporting

(* A PDF that was rendered again need not repeat the bytes of the first.   *)
SameContent == IF exporting \in redrawn THEN BOOLEAN ELSE {TRUE}

Begin ==
    /\ step = "begin"
    /\ \E same \in SameContent :
          Goto(IF copy.kind \in {"Published", "NoContent"} THEN "done"
               ELSE IF AlreadyLinked /\ same THEN "sync"
               ELSE IF exporting \in pdf THEN "stage"
               ELSE "render")
    /\ UNCHANGED <<disk, copy, history>>

Render ==
    /\ step = "render"
    /\ IF exporting \in tiff
         THEN pdf' = pdf \cup {exporting} /\ Goto("stage") /\ UNCHANGED copy
         ELSE copy' = Plain("NoContent") /\ Goto("nothing") /\ UNCHANGED pdf
    /\ UNCHANGED <<row, tiff, folder, staging, unsynced, redrawn, history>>

JournalNoContent ==
    /\ step = "nothing"
    /\ Save(exporting, copy)
    /\ Goto("done")
    /\ UNCHANGED <<tiff, pdf, folder, staging, unsynced, redrawn, copy, taken, files, restarts, faults, platform>>

(* sync_directory is empty but for cfg(unix).                              *)
Unix == platform = "unix"

SyncDirectory == unsynced' = IF Unix THEN {} ELSE unsynced

(* Mutant: the file is linked before its destination is journalled. *)
StageThenLink ==
    /\ step = "stage"
    /\ staging' = staging \cup {exporting}
    /\ copy' = Publishing(1)
    /\ IF exporting \in staging THEN UNCHANGED unsynced ELSE SyncDirectory
    /\ Goto("link")
    /\ UNCHANGED <<row, tiff, pdf, folder, redrawn, history>>

(* The staging file is complete and synced when it gets its name; a staged *)
(* file of an earlier attempt is used as it is.                            *)
Stage ==
    /\ step = "stage"
    /\ staging' = staging \cup {exporting}
    /\ copy' = Publishing(1)
    /\ IF exporting \in staging THEN UNCHANGED unsynced ELSE SyncDirectory
    /\ Goto("journal")
    /\ UNCHANGED <<row, tiff, pdf, folder, redrawn, history>>

(* The staging file does not hold what the spool holds. *)
StagingChanged ==
    /\ step = "stage"
    /\ exporting \in staging \cap redrawn
    /\ Goto("failed")
    /\ UNCHANGED <<disk, copy, history>>

(* The destination is journalled before the link is made. *)
JournalPublishing ==
    /\ step = "journal"
    /\ Save(exporting, copy)
    /\ Goto("link")
    /\ UNCHANGED <<tiff, pdf, folder, staging, unsynced, redrawn, copy, taken, files, restarts, faults, platform>>

(* Mutant: the folder is not synced before the publication is journalled. *)
LinkWithoutSync ==
    /\ step = "link"
    /\ folder[copy.dest] = "free"
    /\ folder' = [folder EXCEPT ![copy.dest] = exporting]
    /\ unsynced' = unsynced \cup {copy.dest}
    /\ Goto("publish")
    /\ UNCHANGED <<row, tiff, pdf, staging, redrawn, copy, history>>

Link ==
    /\ step = "link"
    /\ folder[copy.dest] = "free"
    /\ folder' = [folder EXCEPT ![copy.dest] = exporting]
    /\ unsynced' = unsynced \cup {copy.dest}
    /\ Goto("sync")
    /\ UNCHANGED <<row, tiff, pdf, staging, redrawn, copy, history>>

Collision ==
    /\ step = "link"
    /\ folder[copy.dest] # "free"
    /\ IF copy.dest = Suffixes
         THEN Goto("failed") /\ UNCHANGED copy
         ELSE Goto("journal") /\ copy' = Publishing(copy.dest + 1)
    /\ UNCHANGED <<disk, history>>

Sync ==
    /\ step = "sync"
    /\ SyncDirectory
    /\ Goto("publish")
    /\ UNCHANGED <<row, tiff, pdf, folder, staging, redrawn, copy, history>>

JournalPublished ==
    /\ step = "publish"
    /\ copy' = Status("Published", copy.dest, FALSE)
    /\ Save(exporting, copy')
    /\ Goto("clean")
    /\ UNCHANGED <<tiff, pdf, folder, staging, unsynced, redrawn, taken, files, restarts, faults, platform>>

(* Removing the staging file may fail unnoticed. *)
Clean ==
    /\ step = "clean"
    /\ staging' \in {staging, staging \ {exporting}}
    /\ Goto("done")
    /\ UNCHANGED <<row, tiff, pdf, folder, unsynced, redrawn, copy, history>>

(* The thread's completion: a Publishing status keeps its destination, any *)
(* other becomes Failed.                                                   *)
Outcome ==
    IF copy.kind = "Publishing"
      THEN Status("Publishing", copy.dest, TRUE) ELSE Plain("Failed")

Leave ==
    /\ exporting' = NoFax
    /\ step' = "idle"
    /\ copy' = Absent

(* Mutant: a completed export does not free the exporter. *)
ExportDoneKeepsThread ==
    /\ step = "done"
    /\ step' = "idle"
    /\ copy' = Absent
    /\ UNCHANGED <<disk, exports, exporting, phase, history>>

ExportDone ==
    /\ step = "done"
    /\ Leave
    /\ UNCHANGED <<disk, exports, phase, history>>

ExportFailed ==
    /\ step = "failed"
    /\ Leave
    /\ Save(exporting, Outcome)
    /\ UNCHANGED <<tiff, pdf, folder, staging, unsynced, redrawn, exports, phase, taken, files, restarts, faults, platform>>

(* The last save fails too: the row keeps what was journalled. *)
ExportFailedUnsaved ==
    /\ step = "failed"
    /\ Fault
    /\ Leave
    /\ UNCHANGED <<disk, exports, phase, opened, taken, files, restarts>>

(* A panic stops the engine; Actor.exporting is not reset. *)
ExportPanics ==
    /\ step \notin {"idle", "done", "failed"}
    /\ Fault
    /\ step' = "idle"
    /\ phase' = "Stopping"
    /\ UNCHANGED <<disk, exports, exporting, copy, opened, taken, files, restarts>>

-----------------------------------------------------------------------------
(* Other users of the folder *)

OtherFile(n) ==
    /\ files < MaxFiles
    /\ folder[n] = "free"
    /\ folder' = [folder EXCEPT ![n] = "other"]
    /\ files' = files + 1
    /\ UNCHANGED <<row, tiff, pdf, staging, unsynced, redrawn, exports, thread, phase, opened, taken, restarts, faults, platform>>

(* The user moves a published fax elsewhere; its name is free again. *)
TakeFile(f) ==
    /\ row[f].kind = "Published"
    /\ folder[row[f].dest] = f
    /\ folder' = [folder EXCEPT ![row[f].dest] = "free"]
    /\ taken' = taken \cup {f}
    /\ UNCHANGED <<row, tiff, pdf, staging, unsynced, redrawn, exports, thread, phase, opened, files, restarts, faults, platform>>

-----------------------------------------------------------------------------
(* Crash and restart *)

Dies ==
    /\ phase # "Down"
    /\ phase' = "Down"
    /\ exports' = <<>>
    /\ Leave
    /\ UNCHANGED <<row, tiff, history>>

Unlink(lost) == folder' = [n \in Names |-> IF n \in lost THEN "free" ELSE folder[n]]

(* The memory of the process is lost. *)
Crash ==
    /\ Dies
    /\ UNCHANGED <<pdf, folder, staging, unsynced, redrawn>>

(* A crash of the machine may also lose what was given a name in a         *)
(* directory that was not synced since.  On unix that can be links only:   *)
(* the spool and the staging file are synced in the steps that write them. *)
MachineCrash ==
    /\ Dies
    /\ \E lost \in SUBSET unsynced : Unlink(lost)
    /\ unsynced' = {}
    /\ IF Unix
         THEN UNCHANGED <<pdf, staging, redrawn>>
         ELSE /\ staging' \in SUBSET staging
              /\ pdf' \in SUBSET pdf
              /\ redrawn' = redrawn \cup (pdf \ pdf')

(* Store::open ends the receptions that were active. *)
Recovered(f) == IF row[f].kind = "Receiving" THEN Plain("Pending") ELSE row[f]

(* Actor::open queues what is not exported.  (Newest first in the code:    *)
(* here in any order.)                                                     *)
Orders(set) ==
    {q \in [1 .. Cardinality(set) -> set] :
        /\ \A f \in set : \E i \in DOMAIN q : q[i] = f
        /\ \A i, k \in DOMAIN q : q[i] = q[k] => i = k}

Reopen ==
    /\ phase \in {"Down", "Stopped"}
    /\ restarts < MaxRestarts
    /\ restarts' = restarts + 1
    /\ phase' = "Running"
    /\ row' = [f \in Faxes |-> Recovered(f)]
    /\ exports' \in Orders({f \in Faxes : Unfinished(row'[f])})
    /\ Leave
    /\ UNCHANGED <<tiff, pdf, folder, staging, unsynced, redrawn, opened, taken, files, faults, platform>>

-----------------------------------------------------------------------------
Reception(f) == Reserve(f) \/ Finished(f) \/ RetryExport(f)

Attempt ==
    \/ Begin
    \/ Render
    \/ JournalNoContent
    \/ Stage
    \/ StagingChanged
    \/ JournalPublishing
    \/ Link
    \/ Collision
    \/ Sync
    \/ JournalPublished
    \/ Clean
    \/ ExportDone
    \/ ExportFailed

Failure == StartFails \/ ThreadFails \/ ExportFailedUnsaved \/ ExportPanics

Next ==
    \/ \E f \in Faxes : Reception(f)
    \/ StartExport
    \/ Attempt
    \/ Failure
    \/ \E n \in Names : OtherFile(n)
    \/ \E f \in Faxes : TakeFile(f)
    \/ Stop
    \/ Stopped
    \/ Crash
    \/ MachineCrash
    \/ Reopen

Spec == Init /\ [][Next]_vars

(* The actor's loop starts an export whenever the exporter is free, and    *)
(* the thread runs and is answered.  Requests, faults and crashes need not *)
(* happen.                                                                 *)
FairSpec == Spec /\ WF_vars(StartExport) /\ WF_vars(Attempt)

-----------------------------------------------------------------------------
(* Properties *)

(* The shape of every variable.  What the types say of the system: a       *)
(* status names a file when and only when it is Publishing or Published.   *)
Statuses ==
    {s \in [kind : Kinds, dest : 0 .. Suffixes, error : BOOLEAN] :
        /\ s.dest # 0 <=> s.kind \in {"Publishing", "Published"}
        /\ s.error => s.kind = "Publishing"}

TypeOK ==
    /\ row \in [Faxes -> Statuses]
    /\ tiff \subseteq Faxes /\ pdf \subseteq tiff /\ staging \subseteq tiff
    /\ folder \in [Names -> {"free", "other"} \cup Faxes]
    /\ unsynced \subseteq Names
    /\ redrawn \subseteq Faxes /\ (Unix => redrawn = {})
    /\ exports \in Seq(Faxes)
    /\ exporting \in Faxes \cup {NoFax}
    /\ step \in {"idle", "begin", "render", "nothing", "stage", "journal", "link",
                 "sync", "publish", "clean", "done", "failed"}
    /\ copy \in Statuses
    /\ phase \in {"Running", "Stopping", "Stopped", "Down"}
    /\ opened \in [Faxes -> Nat]
    /\ taken \subseteq Faxes
    /\ files \in Nat /\ restarts \in Nat /\ faults \in Nat
    /\ platform \in Platforms

Holds(n, f) == folder[n] = f

(* A reception never lies in the folder under two names, and not again     *)
(* after the user took it away, whatever crashes, retries and collisions   *)
(* of names came between the link and the journal.                         *)
OneCopyOf(f) ==
    \A m, n \in Names :
        Holds(m, f) => f \notin taken /\ (Holds(n, f) => m = n)

OneCopy == \A f \in Faxes : OneCopyOf(f)

(* As long as no write failed, every file the exporter left in the folder  *)
(* is the one its row names, so that a restart recognises it.  Only a      *)
(* reception whose rendered PDF a crash of the machine took is excepted.   *)
JournalledFirst ==
    faults = 0 =>
        \A f \in Faxes \ redrawn :
            OneCopyOf(f) /\ \A n \in Names : Holds(n, f) => row[f].dest = n

(* A fax that is called published is in the folder under that name, unless *)
(* the user took it.                                                       *)
PublishedHasFile ==
    \A f \in Faxes : row[f].kind = "Published" => Holds(row[f].dest, f) \/ f \in taken

(* On unix that survives a crash of the machine.                           *)
PublishedIsThere == Unix => PublishedHasFile

(* A name in use is never given other content: neither a file of another   *)
(* program nor that of another reception is overwritten.                   *)
NoOverwrite ==
    [][\A n \in Names : folder[n] # "free" => folder'[n] \in {folder[n], "free"}]_vars

(* As long as no write failed, a running engine has every reception it has *)
(* not finished exporting in its queue or in its exporter.                 *)
NothingForgotten ==
    faults = 0 /\ phase = "Running" =>
        \A f \in Faxes :
            row[f].kind \in {"Pending", "Publishing"} /\ ~IsFinished(row[f])
                => f \in Queued \/ exporting = f

(* No reception is queued twice, or while it is being exported, however    *)
(* retries, finished calls and restarts coincide.                          *)
QueuedOnce ==
    phase = "Running" =>
        /\ \A i, k \in DOMAIN exports : exports[i] = exports[k] => i = k
        /\ exporting \notin Queued

(* The received PDF is opened at most once, not again by a retry, by a     *)
(* repeated save or at the next start.                                     *)
PdfReadyOnce == \A f \in Faxes : opened[f] <= 1

(* Receptions are exported one by one, and each once: none is lost, queued *)
(* twice or announced again.                                               *)
ExportsOnce == TypeOK /\ NothingForgotten /\ QueuedOnce /\ PdfReadyOnce

(* What has become of a reception: once ended it waits to be published,    *)
(* through all attempts, unless it has no image data.                      *)
Fate(f) ==
    CASE row[f].kind = "Absent"    -> "new"
      [] row[f].kind = "Receiving" -> "receiving"
      [] row[f].kind = "Published" -> "published"
      [] row[f].kind = "NoContent" -> "empty"
      [] OTHER                     -> "waiting"

Shelf == {f \in Faxes : row[f].kind = "Published" /\ Holds(row[f].dest, f)}

Promise == INSTANCE Delivery WITH
    durable <- Unix, fate <- [f \in Faxes |-> Fate(f)], shelf <- Shelf, told <- opened

(* The exporter keeps what Delivery promises: whatever fails, a fax is     *)
(* announced in the one step that publishes it, when its file is in the    *)
(* folder, on unix for good.                                               *)
ImplementsDelivery == Promise!Spec

(* Every reception that has ended gets the result of its first export, as  *)
(* long as the engine runs and its writes succeed.                         *)
ExportEnds ==
    \A f \in Faxes :
        row[f].kind = "Pending" ~> IsFinished(row[f]) \/ phase # "Running" \/ faults > 0
=============================================================================
