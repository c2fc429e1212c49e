----------------------------- MODULE ExportProofs -----------------------------
(***************************************************************************)
(* Theorems of the exporter, for every number of receptions, of names, of  *)
(* other files, of restarts and of faults.                                 *)
(***************************************************************************)
EXTENDS Export, SequenceTheorems, FiniteSetTheorems, TLAPS

USE ExportAssumption DEF Kinds, Names, Unix, Platforms

(* The actions of Next, without their grouping. *)
Actions ==
    \/ \E f \in Faxes : Reserve(f)
    \/ \E f \in Faxes : Finished(f)
    \/ \E f \in Faxes : RetryExport(f)
    \/ StartExport
    \/ Begin
    \/ Render
    \/ JournalNoContent
    \/ Stage
    \/ StagingChanged
    \/ JournalPublishing
    \/ Link
    \/ Collision
    \/ Sync
    \/ JournalPublished
    \/ Clean
    \/ ExportDone
    \/ ExportFailed
    \/ StartFails
    \/ ThreadFails
    \/ ExportFailedUnsaved
    \/ ExportPanics
    \/ \E n \in Names : OtherFile(n)
    \/ \E f \in Faxes : TakeFile(f)
    \/ Stop
    \/ Stopped
    \/ Crash
    \/ MachineCrash
    \/ Reopen

(* Every step of the exporter is one of the listed actions. *)
LEMMA NextIsActions == Next <=> Actions
  BY DEF Next, Actions, Reception, Attempt, Failure

(* The members of the queue, and that it has none twice. *)
Members(q) == {q[i] : i \in DOMAIN q}
Distinct(q) == \A i, k \in DOMAIN q : q[i] = q[k] => i = k

(* A new member at the end of the queue is added to its members. *)
LEMMA AppendMembers ==
    ASSUME NEW q \in Seq(Faxes), NEW f \in Faxes, f \notin Members(q), Distinct(q)
    PROVE  /\ Append(q, f) \in Seq(Faxes)
           /\ Members(Append(q, f)) = Members(q) \cup {f}
           /\ Distinct(Append(q, f))
<1>1. /\ Append(q, f) \in Seq(Faxes)
      /\ DOMAIN q = 1 .. Len(q) /\ DOMAIN Append(q, f) = 1 .. Len(q) + 1
      /\ \A i \in 1 .. Len(q) : Append(q, f)[i] = q[i]
      /\ Append(q, f)[Len(q) + 1] = f
      /\ Len(q) \in Nat
  OBVIOUS
<1>2. Members(Append(q, f)) = Members(q) \cup {f}
  <2>1. ASSUME NEW x \in Members(Append(q, f)) PROVE x \in Members(q) \cup {f}
    <3>1. PICK i \in 1 .. Len(q) + 1 : x = Append(q, f)[i]
      BY <2>1, <1>1 DEF Members
    <3>2. CASE i = Len(q) + 1
      BY <3>1, <3>2, <1>1
    <3>3. CASE i # Len(q) + 1
      BY <3>1, <3>3, <1>1 DEF Members
    <3>4. QED
      BY <3>2, <3>3
  <2>2. ASSUME NEW x \in Members(q) PROVE x \in Members(Append(q, f))
    <3>1. PICK i \in 1 .. Len(q) : x = q[i]
      BY <2>2, <1>1 DEF Members
    <3>2. i \in 1 .. Len(q) + 1 /\ Append(q, f)[i] = x
      BY <3>1, <1>1
    <3>3. QED
      BY <3>2, <1>1 DEF Members
  <2>3. f \in Members(Append(q, f))
    <3>1. Len(q) + 1 \in DOMAIN Append(q, f) /\ Append(q, f)[Len(q) + 1] = f
      BY <1>1
    <3>2. QED
      BY <3>1 DEF Members
  <2>4. QED
    BY <2>1, <2>2, <2>3
<1>3. Distinct(Append(q, f))
  <2> SUFFICES ASSUME NEW i \in 1 .. Len(q) + 1, NEW k \in 1 .. Len(q) + 1,
                      Append(q, f)[i] = Append(q, f)[k]
               PROVE  i = k
    BY <1>1 DEF Distinct
  <2>1. \A x \in 1 .. Len(q) : q[x] # f
    BY <1>1 DEF Members
  <2>2. CASE i = Len(q) + 1 \/ k = Len(q) + 1
    BY <1>1, <2>1, <2>2
  <2>3. CASE i # Len(q) + 1 /\ k # Len(q) + 1
    BY <1>1, <2>3 DEF Distinct
  <2>4. QED
    BY <2>2, <2>3
<1>4. QED
  BY <1>1, <1>2, <1>3

(* Taking the head removes just that member. *)
LEMMA TailMembers ==
    ASSUME NEW q \in Seq(Faxes), q # <<>>, Distinct(q)
    PROVE  /\ Head(q) \in Faxes /\ Tail(q) \in Seq(Faxes)
           /\ Members(Tail(q)) = Members(q) \ {Head(q)}
           /\ Head(q) \in Members(q)
           /\ Distinct(Tail(q))
<1>1. /\ Head(q) \in Faxes /\ Tail(q) \in Seq(Faxes)
      /\ Len(q) \in Nat \ {0}
      /\ DOMAIN q = 1 .. Len(q) /\ DOMAIN Tail(q) = 1 .. Len(q) - 1
      /\ \A i \in 1 .. Len(q) - 1 : Tail(q)[i] = q[i + 1]
      /\ Head(q) = q[1]
  OBVIOUS
<1>2. Head(q) \in Members(q)
  BY <1>1 DEF Members
<1>3. Members(Tail(q)) = Members(q) \ {Head(q)}
  <2>1. ASSUME NEW x \in Members(Tail(q)) PROVE x \in Members(q) \ {Head(q)}
    <3>1. PICK i \in 1 .. Len(q) - 1 : x = q[i + 1]
      BY <2>1, <1>1 DEF Members
    <3>2. i + 1 \in DOMAIN q /\ 1 \in DOMAIN q /\ i + 1 # 1
      BY <1>1
    <3>3. QED
      BY <3>1, <3>2, <1>1 DEF Members, Distinct
  <2>2. ASSUME NEW x \in Members(q) \ {Head(q)} PROVE x \in Members(Tail(q))
    <3>1. PICK i \in 1 .. Len(q) : x = q[i]
      BY <2>2, <1>1 DEF Members
    <3>2. i - 1 \in 1 .. Len(q) - 1
      BY <3>1, <2>2, <1>1
    <3>3. Tail(q)[i - 1] = x
      BY <3>1, <3>2, <1>1
    <3>4. QED
      BY <3>2, <3>3, <1>1 DEF Members
  <2>3. QED
    BY <2>1, <2>2
<1>4. Distinct(Tail(q))
  BY <1>1 DEF Distinct
<1>5. QED
  BY <1>1, <1>2, <1>3, <1>4

(* What the constructors of a status return, and what its kind says of its name. *)
LEMMA StatusTypes ==
    /\ Absent \in Statuses
    /\ \A kind \in Kinds \ {"Publishing", "Published"} : Plain(kind) \in Statuses
    /\ \A n \in Names, error \in BOOLEAN : Status("Publishing", n, error) \in Statuses
    /\ \A n \in Names : Publishing(n) \in Statuses /\ Status("Published", n, FALSE) \in Statuses
    /\ \A s \in Statuses : /\ s.kind \in Kinds
                           /\ s.kind \in {"Publishing", "Published"} => s.dest \in Names
                           /\ s.kind \notin {"Publishing", "Published"} => s.dest = 0
  BY DEF Absent, Plain, Status, Statuses, Publishing

(* Where the thread is says what it has done: it works for a reception     *)
(* that is not published yet, whose destination is in the row from the     *)
(* moment the link may be made.                                            *)
Place ==
    step # "idle" =>
        /\ exporting \in Faxes
        /\ phase \in {"Running", "Stopping"}
        /\ row[exporting].kind \notin {"Absent", "Receiving"}
        /\ step \notin {"clean", "done"} => row[exporting].kind # "Published"
        /\ step = "begin" => copy = row[exporting]
        /\ step = "nothing" => copy = Plain("NoContent")
        /\ step \in {"journal", "link", "sync", "publish"} =>
              copy.kind = "Publishing" /\ exporting \in pdf
        /\ step = "stage" => exporting \in pdf
        /\ step \in {"link", "sync", "publish"} =>
              row[exporting].kind = "Publishing" /\ row[exporting].dest = copy.dest

(* The queue holds receptions that wait, each once, and not the one in the exporter. *)
Waits ==
    /\ Distinct(exports)
    /\ \A f \in Members(exports) : Unfinished(row[f])
    /\ step # "idle" => exporting \notin Members(exports)
    /\ phase = "Running" => (step = "idle" <=> exporting = NoFax)

(* Every action keeps the types. *)
LEMMA TypeStep == TypeOK /\ Place /\ Waits /\ [Next]_vars => TypeOK'
<1> SUFFICES ASSUME TypeOK, Place, Waits, [Next]_vars PROVE TypeOK'
  OBVIOUS
<1> USE StatusTypes DEF TypeOK, Place, Save, Goto, Leave, Fault, disk, thread, history
<1>1. ASSUME NEW f \in Faxes, Reserve(f) PROVE TypeOK'
  BY <1>1 DEF Reserve
<1>2. ASSUME NEW f \in Faxes, Finished(f) PROVE TypeOK'
  BY <1>2 DEF Finished, Push
<1>3. ASSUME NEW f \in Faxes, RetryExport(f) PROVE TypeOK'
  BY <1>3 DEF RetryExport, Push
<1>4. CASE StartExport
  <2>1. Head(exports) \in Faxes /\ Tail(exports) \in Seq(Faxes)
    BY <1>4, TailMembers DEF StartExport, CanStart, Waits
  <2>2. QED
    BY <1>4, <2>1 DEF StartExport
<1>5. CASE Begin
  BY <1>5 DEF Begin, SameContent, AlreadyLinked
<1>6. CASE Render
  BY <1>6 DEF Render
<1>7. CASE JournalNoContent
  BY <1>7 DEF JournalNoContent
<1>8. CASE Stage
  <2>1. Publishing(1) \in Statuses
    BY DEF Publishing, Status, Statuses
  <2>2. QED
    BY <1>8, <2>1 DEF Stage, SyncDirectory
<1>9. CASE JournalPublishing
  BY <1>9 DEF JournalPublishing
<1>10. CASE Link
  BY <1>10 DEF Link
<1>11. CASE Collision
  <2>1. copy.dest \in Names
    BY <1>11 DEF Collision
  <2>2. copy.dest # Suffixes => Publishing(copy.dest + 1) \in Statuses
    BY <2>1 DEF Publishing, Status, Statuses
  <2>3. QED
    BY <1>11, <2>2 DEF Collision
<1>12. CASE Sync
  BY <1>12 DEF Sync, SyncDirectory
<1>13. CASE JournalPublished
  <2>1. copy' \in Statuses
    <3>1. copy.dest \in Names /\ copy' = Status("Published", copy.dest, FALSE)
      BY <1>13 DEF JournalPublished, Status
    <3>2. QED
      BY <3>1 DEF Status, Statuses
  <2>2. row' = [row EXCEPT ![exporting] = copy'] /\ opened' \in [Faxes -> Nat]
    BY <1>13 DEF JournalPublished, Status
  <2>3. QED
    BY <1>13, <2>1, <2>2 DEF JournalPublished, Status
<1>14. CASE Clean
  BY <1>14 DEF Clean
<1>15. CASE ExportDone
  BY <1>15 DEF ExportDone
<1>16. CASE ExportFailed
  <2>1. Outcome \in Statuses
    BY DEF Outcome
  <2>2. row' = [row EXCEPT ![exporting] = Outcome] /\ opened' \in [Faxes -> Nat]
    BY <1>16 DEF ExportFailed
  <2>3. QED
    BY <1>16, <2>1, <2>2 DEF ExportFailed
<1>17. CASE StartFails
  BY <1>17 DEF StartFails, CanStart
<1>18. CASE ThreadFails
  <2>1. copy' \in Statuses
    <3>1. CASE step = "publish"
      <4>1. copy.dest \in Names /\ copy' = Status("Published", copy.dest, FALSE)
        BY <1>18, <3>1 DEF ThreadFails
      <4>2. QED
        BY <4>1 DEF Status, Statuses
    <3>2. CASE step # "publish"
      BY <1>18, <3>2 DEF ThreadFails
    <3>3. QED
      BY <3>1, <3>2
  <2>2. QED
    BY <1>18, <2>1 DEF ThreadFails, Status
<1>19. CASE ExportFailedUnsaved
  BY <1>19 DEF ExportFailedUnsaved
<1>20. CASE ExportPanics
  BY <1>20 DEF ExportPanics
<1>21. ASSUME NEW n \in Names, OtherFile(n) PROVE TypeOK'
  BY <1>21 DEF OtherFile
<1>22. ASSUME NEW f \in Faxes, TakeFile(f) PROVE TypeOK'
  BY <1>22 DEF TakeFile
<1>23. CASE Stop
  BY <1>23 DEF Stop
<1>24. CASE Stopped
  BY <1>24 DEF Stopped
<1>25. CASE Crash
  BY <1>25 DEF Crash, Dies
<1>26. CASE Reopen
  <2>1. row' \in [Faxes -> Statuses]
    BY <1>26 DEF Reopen, Recovered
  <2> DEFINE left == {f \in Faxes : Unfinished(row'[f])}
  <2>2. Cardinality(left) \in Nat
    BY FS_Subset, FS_CardinalityType
  <2>3. exports' \in [1 .. Cardinality(left) -> left]
    BY <1>26 DEF Reopen, Orders
  <2>4. exports' \in Seq(Faxes)
    <3>1. exports' \in [1 .. Cardinality(left) -> Faxes]
      BY <2>3
    <3>2. Seq(Faxes) = UNION {[1 .. n -> Faxes] : n \in Nat}
      BY SeqDef
    <3>3. QED
      BY <2>2, <3>1, <3>2, ZenonT(20)
  <2>5. QED
    BY <1>26, <2>1, <2>4 DEF Reopen
<1>27. CASE UNCHANGED vars
  BY <1>27 DEF vars
<1>28. CASE StagingChanged
  BY <1>28 DEF StagingChanged
<1>29. CASE MachineCrash
  BY <1>29 DEF MachineCrash, Dies, Unlink
<1>30. QED
  BY <1>1, <1>2, <1>3, <1>4, <1>5, <1>6, <1>7, <1>8, <1>9, <1>10, <1>11, <1>12, <1>13,
       <1>14, <1>15, <1>16, <1>17, <1>18, <1>19, <1>20, <1>21, <1>22, <1>23, <1>24, <1>25,
       <1>26, <1>27, <1>28, <1>29, NextIsActions DEF Actions

(* Every action moves the thread in accord with the row. *)
LEMMA PlaceStep == TypeOK /\ TypeOK' /\ Place /\ Waits /\ [Next]_vars => Place'
<1> SUFFICES ASSUME TypeOK, TypeOK', Place, Waits, [Next]_vars PROVE Place'
  OBVIOUS
<1> USE DEF TypeOK, Place, Plain, Status, Publishing, Absent, Save, Goto, Leave, Fault,
     disk, thread, history
<1>1. ASSUME NEW f \in Faxes, Reserve(f) PROVE Place'
  BY <1>1 DEF Reserve
<1>2. ASSUME NEW f \in Faxes, Finished(f) PROVE Place'
  BY <1>2 DEF Finished, Push
<1>3. ASSUME NEW f \in Faxes, RetryExport(f) PROVE Place'
  BY <1>3 DEF RetryExport, Push
<1>4. CASE StartExport
  <2>1. Head(exports) \in Faxes /\ Unfinished(row[Head(exports)])
    BY <1>4, TailMembers DEF StartExport, CanStart, Waits
  <2>2. QED
    BY <1>4, <2>1 DEF StartExport, CanStart, Unfinished
<1>5. CASE Begin
  BY <1>5 DEF Begin, SameContent, AlreadyLinked
<1>6. CASE Render
  BY <1>6 DEF Render
<1>7. CASE JournalNoContent
  BY <1>7 DEF JournalNoContent
<1>8. CASE Stage
  BY <1>8 DEF Stage, SyncDirectory
<1>9. CASE JournalPublishing
  BY <1>9 DEF JournalPublishing
<1>10. CASE Link
  BY <1>10 DEF Link
<1>11. CASE Collision
  BY <1>11 DEF Collision
<1>12. CASE Sync
  BY <1>12 DEF Sync, SyncDirectory
<1>13. CASE JournalPublished
  BY <1>13 DEF JournalPublished
<1>14. CASE Clean
  BY <1>14 DEF Clean
<1>15. CASE ExportDone
  BY <1>15 DEF ExportDone
<1>16. CASE ExportFailed
  BY <1>16 DEF ExportFailed, Outcome
<1>17. CASE StartFails
  BY <1>17 DEF StartFails, CanStart
<1>18. CASE ThreadFails
  BY <1>18 DEF ThreadFails
<1>19. CASE ExportFailedUnsaved
  BY <1>19 DEF ExportFailedUnsaved
<1>20. CASE ExportPanics
  BY <1>20 DEF ExportPanics
<1>21. ASSUME NEW n \in Names, OtherFile(n) PROVE Place'
  BY <1>21 DEF OtherFile
<1>22. ASSUME NEW f \in Faxes, TakeFile(f) PROVE Place'
  BY <1>22 DEF TakeFile
<1>23. CASE Stop
  BY <1>23 DEF Stop
<1>24. CASE Stopped
  BY <1>24 DEF Stopped
<1>25. CASE Crash
  BY <1>25 DEF Crash, Dies
<1>26. CASE Reopen
  BY <1>26 DEF Reopen, Recovered, Orders
<1>27. CASE UNCHANGED vars
  BY <1>27 DEF vars
<1>28. CASE StagingChanged
  BY <1>28 DEF StagingChanged
<1>29. CASE MachineCrash
  BY <1>29 DEF MachineCrash, Dies, Unlink
<1>30. QED
  BY <1>1, <1>2, <1>3, <1>4, <1>5, <1>6, <1>7, <1>8, <1>9, <1>10, <1>11, <1>12, <1>13,
       <1>14, <1>15, <1>16, <1>17, <1>18, <1>19, <1>20, <1>21, <1>22, <1>23, <1>24, <1>25,
       <1>26, <1>27, <1>28, <1>29, NextIsActions DEF Actions

(* Every action keeps the queue free of repetitions. *)
LEMMA WaitsStep == TypeOK /\ TypeOK' /\ Place /\ Waits /\ [Next]_vars => Waits'
<1> SUFFICES ASSUME TypeOK, TypeOK', Place, Waits, [Next]_vars PROVE Waits'
  OBVIOUS
<1> USE DEF TypeOK, Place, Waits, Unfinished, Plain, Status, Publishing, Absent, Save, Goto,
     Leave, Fault, disk, thread, history
<1>1. ASSUME NEW f \in Faxes, Reserve(f) PROVE Waits'
  BY <1>1 DEF Reserve
<1>2. ASSUME NEW f \in Faxes, Finished(f) PROVE Waits'
  <2>1. \A x \in Members(exports) : Unfinished(row'[x])
    BY <1>2 DEF Finished
  <2>2. CASE exports' = exports
    BY <1>2, <2>1, <2>2 DEF Finished
  <2>3. CASE exports' = Append(exports, f) /\ f \notin Members(exports) /\ exporting # f /\ Unfinished(row'[f])
    <3>1. Members(exports') = Members(exports) \cup {f} /\ Distinct(exports')
      BY <2>3, AppendMembers
    <3>2. QED
      BY <1>2, <2>1, <2>3, <3>1 DEF Finished
  <2>4. QED
    BY <1>2, <2>2, <2>3 DEF Finished, Push, Queued, Members
<1>3. ASSUME NEW f \in Faxes, RetryExport(f) PROVE Waits'
  <2>1. \A x \in Members(exports) : Unfinished(row'[x])
    BY <1>3 DEF RetryExport
  <2>2. CASE exports' = exports
    BY <1>3, <2>1, <2>2 DEF RetryExport
  <2>3. CASE exports' = Append(exports, f) /\ f \notin Members(exports) /\ exporting # f /\ Unfinished(row'[f])
    <3>1. Members(exports') = Members(exports) \cup {f} /\ Distinct(exports')
      BY <2>3, AppendMembers
    <3>2. QED
      BY <1>3, <2>1, <2>3, <3>1 DEF RetryExport
  <2>4. QED
    BY <1>3, <2>2, <2>3 DEF RetryExport, Push, Queued, Members
<1>4. CASE StartExport
  <2>1. /\ Members(exports') = Members(exports) \ {exporting'} /\ Distinct(exports')
        /\ exporting' \in Faxes
    BY <1>4, TailMembers DEF StartExport, CanStart
  <2>2. QED
    BY <1>4, <2>1 DEF StartExport, CanStart, NoFax
<1>5. CASE Begin
  BY <1>5 DEF Begin, SameContent, AlreadyLinked
<1>6. CASE Render
  BY <1>6 DEF Render
<1>7. CASE JournalNoContent
  BY <1>7 DEF JournalNoContent
<1>8. CASE Stage
  BY <1>8 DEF Stage, SyncDirectory
<1>9. CASE JournalPublishing
  BY <1>9 DEF JournalPublishing
<1>10. CASE Link
  BY <1>10 DEF Link
<1>11. CASE Collision
  BY <1>11 DEF Collision
<1>12. CASE Sync
  BY <1>12 DEF Sync, SyncDirectory
<1>13. CASE JournalPublished
  BY <1>13 DEF JournalPublished
<1>14. CASE Clean
  BY <1>14 DEF Clean
<1>15. CASE ExportDone
  BY <1>15 DEF ExportDone
<1>16. CASE ExportFailed
  BY <1>16 DEF ExportFailed, Outcome
<1>17. CASE StartFails
  <2>1. Members(exports') \subseteq Members(exports) /\ Distinct(exports')
    BY <1>17, TailMembers DEF StartFails, CanStart
  <2>2. QED
    BY <1>17, <2>1 DEF StartFails
<1>18. CASE ThreadFails
  BY <1>18 DEF ThreadFails
<1>19. CASE ExportFailedUnsaved
  BY <1>19 DEF ExportFailedUnsaved
<1>20. CASE ExportPanics
  BY <1>20 DEF ExportPanics
<1>21. ASSUME NEW n \in Names, OtherFile(n) PROVE Waits'
  BY <1>21 DEF OtherFile
<1>22. ASSUME NEW f \in Faxes, TakeFile(f) PROVE Waits'
  BY <1>22 DEF TakeFile
<1>23. CASE Stop
  BY <1>23 DEF Stop
<1>24. CASE Stopped
  BY <1>24 DEF Stopped
<1>25. CASE Crash
  <2>1. Distinct(<<>>) /\ Members(<<>>) = {}
    BY DEF Distinct, Members
  <2>2. QED
    BY <1>25, <2>1 DEF Crash, Dies
<1>26. CASE Reopen
  <2> DEFINE left == {f \in Faxes : Unfinished(row'[f])}
  <2>1. Cardinality(left) \in Nat
    BY FS_Subset, FS_CardinalityType
  <2>2. /\ exports' \in [1 .. Cardinality(left) -> left]
        /\ \A i, k \in DOMAIN exports' : exports'[i] = exports'[k] => i = k
    BY <1>26 DEF Reopen, Orders
  <2>3. Distinct(exports') /\ Members(exports') \subseteq left
    <3>1. DOMAIN exports' = 1 .. Cardinality(left) /\ \A i \in DOMAIN exports' : exports'[i] \in left
      BY <2>2
    <3> HIDE DEF left
    <3>2. QED
      BY <2>2, <3>1 DEF Distinct, Members
  <2>4. step' = "idle" /\ exporting' = NoFax
    BY <1>26 DEF Reopen
  <2>5. QED
    BY <2>3, <2>4
<1>27. CASE UNCHANGED vars
  BY <1>27 DEF vars
<1>28. CASE StagingChanged
  BY <1>28 DEF StagingChanged
<1>29. CASE MachineCrash
  <2>1. Distinct(<<>>) /\ Members(<<>>) = {}
    BY DEF Distinct, Members
  <2>2. QED
    BY <1>29, <2>1 DEF MachineCrash, Dies
<1>30. QED
  BY <1>1, <1>2, <1>3, <1>4, <1>5, <1>6, <1>7, <1>8, <1>9, <1>10, <1>11, <1>12, <1>13,
       <1>14, <1>15, <1>16, <1>17, <1>18, <1>19, <1>20, <1>21, <1>22, <1>23, <1>24, <1>25,
       <1>26, <1>27, <1>28, <1>29, NextIsActions DEF Actions

(* Every variable keeps its declared shape. *)
THEOREM ExportTypes == Spec => []TypeOK
<1>1. Init => TypeOK
  BY StatusTypes DEF Init, TypeOK, NoFax
<1>2. Init => Place /\ Waits
  BY DEF Init, Place, Waits, Members, Distinct
<1>3. QED
  BY <1>1, <1>2, TypeStep, PlaceStep, WaitsStep, PTL DEF Spec

(* The thread and the queue keep their order in every reachable state. *)
LEMMA ThreadAndQueue == Spec => [](Place /\ Waits)
<1>1. Init => Place /\ Waits
  BY DEF Init, Place, Waits, Members, Distinct
<1>2. QED
  BY <1>1, PlaceStep, WaitsStep, ExportTypes, PTL DEF Spec

(* No reception is exported twice at once, or queued twice. *)
THEOREM QueuedAtMostOnce == Spec => []QueuedOnce
<1>1. TypeOK /\ Place /\ Waits => QueuedOnce
  <2> SUFFICES ASSUME TypeOK, Place, Waits, phase = "Running" PROVE Distinct(exports) /\ exporting \notin Members(exports)
    BY DEF QueuedOnce, Distinct, Members, Queued
  <2>1. CASE step = "idle"
    <3>1. exporting \notin Faxes /\ Distinct(exports)
      BY <2>1 DEF Waits, NoFax
    <3>2. Members(exports) \subseteq Faxes
      BY DEF TypeOK, Members
    <3>3. QED
      BY <3>1, <3>2
  <2>2. CASE step # "idle"
    BY <2>2 DEF Waits
  <2>3. QED
    BY <2>1, <2>2 DEF Waits
<1>2. QED
  BY <1>1, ThreadAndQueue, ExportTypes, PTL

-----------------------------------------------------------------------------
(* As long as no write failed: a file of a reception is the one its row    *)
(* names, and there is none while the thread has not linked, unless a      *)
(* crash of the machine took the rendered PDF.                             *)
Traced ==
    faults = 0 =>
        /\ \A f \in Faxes \ redrawn, n \in Names : Holds(n, f) =>
              /\ row[f].dest = n
              /\ f \notin taken
              /\ f \in pdf
        /\ \A f \in taken : row[f].kind = "Published"
        /\ step \in {"render", "nothing", "stage", "journal", "link", "failed"} =>
              exporting \in redrawn \/ \A n \in Names : ~Holds(n, exporting)
        /\ step \in {"sync", "publish"} => Holds(copy.dest, exporting)

(* Every action keeps the files traced. *)
LEMMA TracedStep == TypeOK /\ TypeOK' /\ Place /\ Waits /\ Traced /\ [Next]_vars => Traced'
<1> SUFFICES ASSUME TypeOK, TypeOK', Place, Waits, Traced, [Next]_vars PROVE Traced'
  OBVIOUS
<1> USE StatusTypes DEF TypeOK, Place, Traced, Holds, Plain, Status, Publishing, Absent,
     Save, Goto, Leave, Fault, disk, thread, history
<1>1. ASSUME NEW f \in Faxes, Reserve(f) PROVE Traced'
  BY <1>1 DEF Reserve
<1>2. ASSUME NEW f \in Faxes, Finished(f) PROVE Traced'
  BY <1>2 DEF Finished, Push
<1>3. ASSUME NEW f \in Faxes, RetryExport(f) PROVE Traced'
  BY <1>3 DEF RetryExport, Push
<1>4. CASE StartExport
  BY <1>4 DEF StartExport, CanStart
<1>5. CASE Begin
  <2> SUFFICES ASSUME faults = 0 PROVE Traced'
    BY <1>5 DEF Begin
  <2>1. PICK same \in SameContent :
          step' = IF copy.kind \in {"Published", "NoContent"} THEN "done"
                  ELSE IF AlreadyLinked /\ same THEN "sync"
                  ELSE IF exporting \in pdf THEN "stage"
                  ELSE "render"
    BY <1>5 DEF Begin
  <2>2. copy = row[exporting] /\ UNCHANGED <<disk, copy, exporting, taken, faults>>
    BY <1>5 DEF Begin
  <2>3. step' = "sync" => Holds(copy.dest, exporting)
    BY <2>1 DEF AlreadyLinked
  <2>4. ASSUME step' \in {"stage", "render"}, exporting \notin redrawn, NEW n \in Names,
               Holds(n, exporting)
        PROVE  FALSE
    <3>1. same = TRUE
      BY <2>4 DEF SameContent
    <3>2. copy.dest = n /\ exporting \in pdf
      BY <1>5, <2>2, <2>4 DEF Begin
    <3>3. copy.kind = "Publishing"
      BY <2>1, <2>2, <2>4, <3>2
    <3>4. AlreadyLinked
      BY <2>4, <3>2, <3>3 DEF AlreadyLinked
    <3>5. QED
      BY <2>1, <2>4, <3>1, <3>4
  <2>5. step' \in {"done", "sync", "stage", "render"}
    BY <2>1
  <2>6. QED
    BY <2>2, <2>3, <2>4, <2>5
<1>6. CASE Render
  BY <1>6 DEF Render
<1>7. CASE JournalNoContent
  BY <1>7 DEF JournalNoContent
<1>8. CASE Stage
  BY <1>8 DEF Stage, SyncDirectory
<1>9. CASE JournalPublishing
  BY <1>9 DEF JournalPublishing
<1>10. CASE Link
  BY <1>10 DEF Link
<1>11. CASE Collision
  BY <1>11 DEF Collision
<1>12. CASE Sync
  BY <1>12 DEF Sync, SyncDirectory
<1>13. CASE JournalPublished
  BY <1>13 DEF JournalPublished
<1>14. CASE Clean
  BY <1>14 DEF Clean
<1>15. CASE ExportDone
  BY <1>15 DEF ExportDone
<1>16. CASE ExportFailed
  BY <1>16 DEF ExportFailed, Outcome
<1>17. CASE StartFails
  BY <1>17 DEF StartFails, CanStart
<1>18. CASE ThreadFails
  BY <1>18 DEF ThreadFails
<1>19. CASE ExportFailedUnsaved
  BY <1>19 DEF ExportFailedUnsaved
<1>20. CASE ExportPanics
  BY <1>20 DEF ExportPanics
<1>21. ASSUME NEW n \in Names, OtherFile(n) PROVE Traced'
  BY <1>21 DEF OtherFile
<1>22. ASSUME NEW f \in Faxes, TakeFile(f) PROVE Traced'
  BY <1>22 DEF TakeFile
<1>23. CASE Stop
  BY <1>23 DEF Stop
<1>24. CASE Stopped
  BY <1>24 DEF Stopped
<1>25. CASE Crash
  BY <1>25 DEF Crash, Dies
<1>26. CASE Reopen
  <2>1. \A f \in Faxes : row'[f] = row[f] \/ row[f].kind = "Receiving"
    BY <1>26 DEF Reopen, Recovered
  <2>2. /\ step' = "idle"
        /\ UNCHANGED <<folder, pdf, redrawn, taken, faults>>
    BY <1>26 DEF Reopen
  <2>3. ASSUME NEW f \in Faxes \ redrawn, NEW n \in Names, faults = 0, Holds(n, f) PROVE row'[f] = row[f]
    <3>1. row[f].dest \in Names
      BY <2>3
    <3>2. row[f] \in Statuses /\ row[f].kind \in {"Publishing", "Published"}
      BY <3>1
    <3>3. QED
      BY <2>1, <3>2
  <2>4. ASSUME NEW f \in taken PROVE faults = 0 => row'[f] = row[f]
    BY <2>1
  <2> HIDE DEF Plain, Status
  <2>5. faults = 0 => \A f \in Faxes \ redrawn, n \in Names : Holds(n, f) => row'[f] = row[f]
    BY <2>3
  <2>6. QED
    BY <2>2, <2>4, <2>5
<1>27. CASE UNCHANGED vars
  BY <1>27 DEF vars
<1>28. CASE StagingChanged
  BY <1>28 DEF StagingChanged
<1>29. CASE MachineCrash
  BY <1>29 DEF MachineCrash, Dies, Unlink
<1>30. QED
  BY <1>1, <1>2, <1>3, <1>4, <1>5, <1>6, <1>7, <1>8, <1>9, <1>10, <1>11, <1>12, <1>13,
       <1>14, <1>15, <1>16, <1>17, <1>18, <1>19, <1>20, <1>21, <1>22, <1>23, <1>24, <1>25,
       <1>26, <1>27, <1>28, <1>29, NextIsActions DEF Actions

(* Without a failed write, a reception has one file, the one its row names:*)
(* crashes, retries and collisions never leave a second copy, unless a     *)
(* crash of a machine that is not unix took its rendered PDF.              *)
THEOREM JournalledBeforeLinked == Spec => []JournalledFirst
<1>1. Init => Traced
  BY DEF Init, Traced, Holds
<1>2. TypeOK /\ Place /\ Waits /\ Traced => JournalledFirst
  BY DEF TypeOK, Traced, JournalledFirst, OneCopyOf, Holds
<1>3. QED
  BY <1>1, <1>2, TracedStep, ThreadAndQueue, ExportTypes, PTL DEF Spec

(* Whatever failed: what is published was announced once and, on unix, is  *)
(* linked and synced; there the thread syncs before it journals.           *)
Lasting ==
    /\ \A f \in Faxes :
          /\ Unix /\ row[f].kind = "Published" =>
                (Holds(row[f].dest, f) /\ row[f].dest \notin unsynced) \/ f \in taken
          /\ opened[f] <= 1
          /\ row[f].kind # "Published" => opened[f] = 0
    /\ step \in {"sync", "publish"} => Holds(copy.dest, exporting)
    /\ Unix /\ step = "publish" => copy.dest \notin unsynced

(* Every action keeps what is published. *)
LEMMA LastingStep == TypeOK /\ TypeOK' /\ Place /\ Waits /\ Lasting /\ [Next]_vars => Lasting'
<1> SUFFICES ASSUME TypeOK, TypeOK', Place, Waits, Lasting, [Next]_vars PROVE Lasting'
  OBVIOUS
<1> USE StatusTypes DEF TypeOK, Place, Lasting, Holds, Plain, Status, Publishing, Absent,
     Save, Goto, Leave, Fault, disk, thread, history
<1>1. ASSUME NEW f \in Faxes, Reserve(f) PROVE Lasting'
  BY <1>1 DEF Reserve
<1>2. ASSUME NEW f \in Faxes, Finished(f) PROVE Lasting'
  BY <1>2 DEF Finished, Push
<1>3. ASSUME NEW f \in Faxes, RetryExport(f) PROVE Lasting'
  BY <1>3 DEF RetryExport, Push
<1>4. CASE StartExport
  BY <1>4 DEF StartExport, CanStart
<1>5. CASE Begin
  BY <1>5 DEF Begin, SameContent, AlreadyLinked
<1>6. CASE Render
  BY <1>6 DEF Render
<1>7. CASE JournalNoContent
  BY <1>7 DEF JournalNoContent
<1>8. CASE Stage
  BY <1>8 DEF Stage, SyncDirectory
<1>9. CASE JournalPublishing
  BY <1>9 DEF JournalPublishing
<1>10. CASE Link
  BY <1>10 DEF Link
<1>11. CASE Collision
  BY <1>11 DEF Collision
<1>12. CASE Sync
  BY <1>12 DEF Sync, SyncDirectory
<1>13. CASE JournalPublished
  BY <1>13 DEF JournalPublished
<1>14. CASE Clean
  BY <1>14 DEF Clean
<1>15. CASE ExportDone
  BY <1>15 DEF ExportDone
<1>16. CASE ExportFailed
  BY <1>16 DEF ExportFailed, Outcome
<1>17. CASE StartFails
  BY <1>17 DEF StartFails, CanStart
<1>18. CASE ThreadFails
  BY <1>18 DEF ThreadFails
<1>19. CASE ExportFailedUnsaved
  BY <1>19 DEF ExportFailedUnsaved
<1>20. CASE ExportPanics
  BY <1>20 DEF ExportPanics
<1>21. ASSUME NEW n \in Names, OtherFile(n) PROVE Lasting'
  BY <1>21 DEF OtherFile
<1>22. ASSUME NEW f \in Faxes, TakeFile(f) PROVE Lasting'
  BY <1>22 DEF TakeFile
<1>23. CASE Stop
  BY <1>23 DEF Stop
<1>24. CASE Stopped
  BY <1>24 DEF Stopped
<1>25. CASE Crash
  BY <1>25 DEF Crash, Dies
<1>26. CASE Reopen
  BY <1>26 DEF Reopen, Recovered, Orders
<1>27. CASE UNCHANGED vars
  BY <1>27 DEF vars
<1>28. CASE StagingChanged
  BY <1>28 DEF StagingChanged
<1>29. CASE MachineCrash
  BY <1>29 DEF MachineCrash, Dies, Unlink
<1>30. QED
  BY <1>1, <1>2, <1>3, <1>4, <1>5, <1>6, <1>7, <1>8, <1>9, <1>10, <1>11, <1>12, <1>13,
       <1>14, <1>15, <1>16, <1>17, <1>18, <1>19, <1>20, <1>21, <1>22, <1>23, <1>24, <1>25,
       <1>26, <1>27, <1>28, <1>29, NextIsActions DEF Actions

(* On unix a published fax is on the disk under its name, whatever failed, *)
(* after a crash of the machine too: the link was synced before the row    *)
(* said so.  Off unix nothing is synced and this does not hold.            *)
THEOREM PublishedStays == Spec => []PublishedIsThere
<1>1. Init => Lasting
  BY DEF Init, Lasting, Absent, Plain, Status
<1>2. TypeOK /\ Place /\ Waits /\ Lasting => PublishedIsThere
  BY DEF Lasting, PublishedIsThere, PublishedHasFile
<1>3. QED
  BY <1>1, <1>2, LastingStep, ThreadAndQueue, ExportTypes, PTL DEF Spec

(* Its PDF is announced at most once over the life of the data directory.  *)
THEOREM OpenedOnce == Spec => []PdfReadyOnce
<1>1. Init => Lasting
  BY DEF Init, Lasting, Absent, Plain, Status
<1>2. TypeOK /\ Place /\ Waits /\ Lasting => PdfReadyOnce
  BY DEF Lasting, PdfReadyOnce
<1>3. QED
  BY <1>1, <1>2, LastingStep, ThreadAndQueue, ExportTypes, PTL DEF Spec

(* As long as no write failed: what is not finished is queued or exported. *)
Remembered ==
    faults = 0 =>
        /\ phase = "Running" =>
              \A f \in Faxes : row[f].kind \in {"Pending", "Publishing"} /\ ~IsFinished(row[f])
                  => f \in Members(exports) \/ (exporting = f /\ step # "idle")
        /\ step \in {"clean", "done"} => row[exporting].kind \in {"Published", "NoContent"}

(* Every action remembers what is not finished. *)
LEMMA RememberedStep == TypeOK /\ TypeOK' /\ Place /\ Waits /\ Remembered /\ [Next]_vars => Remembered'
<1> SUFFICES ASSUME TypeOK, TypeOK', Place, Waits, Remembered, [Next]_vars PROVE Remembered'
  OBVIOUS
<1> USE StatusTypes DEF TypeOK, Place, Remembered, IsFinished, Unfinished, Plain, Status,
     Publishing, Absent, Save, Goto, Leave, Fault, disk, thread, history
<1>1. ASSUME NEW f \in Faxes, Reserve(f) PROVE Remembered'
  BY <1>1 DEF Reserve
<1>2. ASSUME NEW f \in Faxes, Finished(f) PROVE Remembered'
  <2>1. \A x \in Members(exports) : x \in Members(exports')
    <3>1. CASE exports' = exports
      BY <3>1
    <3>2. CASE exports' = Append(exports, f) /\ f \notin Members(exports)
      BY <3>2, AppendMembers DEF Waits
    <3>3. QED
      BY <1>2, <3>1, <3>2 DEF Finished, Push, Queued, Members
  <2>2. Unfinished(row'[f]) /\ exporting # f => f \in Members(exports')
    <3>1. CASE f \in Members(exports)
      BY <2>1, <3>1
    <3>2. CASE exports' = Append(exports, f) /\ f \notin Members(exports)
      BY <3>2, AppendMembers DEF Waits
    <3>3. QED
      BY <1>2, <3>1, <3>2 DEF Finished, Push, Queued, Members
  <2>3. QED
    BY <1>2, <2>1, <2>2 DEF Finished, Waits, NoFax
<1>3. ASSUME NEW f \in Faxes, RetryExport(f) PROVE Remembered'
  <2>1. \A x \in Members(exports) : x \in Members(exports')
    <3>1. CASE exports' = exports
      BY <3>1
    <3>2. CASE exports' = Append(exports, f) /\ f \notin Members(exports)
      BY <3>2, AppendMembers DEF Waits
    <3>3. QED
      BY <1>3, <3>1, <3>2 DEF RetryExport, Push, Queued, Members
  <2>2. Unfinished(row'[f]) /\ exporting # f => f \in Members(exports')
    <3>1. CASE f \in Members(exports)
      BY <2>1, <3>1
    <3>2. CASE exports' = Append(exports, f) /\ f \notin Members(exports)
      BY <3>2, AppendMembers DEF Waits
    <3>3. QED
      BY <1>3, <3>1, <3>2 DEF RetryExport, Push, Queued, Members
  <2>3. QED
    BY <1>3, <2>1, <2>2 DEF RetryExport, Waits, NoFax
<1>4. CASE StartExport
  <2>1. Members(exports') = Members(exports) \ {exporting'} /\ exporting' \in Faxes
    BY <1>4, TailMembers DEF StartExport, CanStart, Waits
  <2>2. QED
    BY <1>4, <2>1 DEF StartExport, CanStart, NoFax, Waits
<1>5. CASE Begin
  BY <1>5 DEF Begin, SameContent, AlreadyLinked
<1>6. CASE Render
  BY <1>6 DEF Render
<1>7. CASE JournalNoContent
  BY <1>7 DEF JournalNoContent
<1>8. CASE Stage
  BY <1>8 DEF Stage, SyncDirectory
<1>9. CASE JournalPublishing
  BY <1>9 DEF JournalPublishing
<1>10. CASE Link
  BY <1>10 DEF Link
<1>11. CASE Collision
  BY <1>11 DEF Collision
<1>12. CASE Sync
  BY <1>12 DEF Sync, SyncDirectory
<1>13. CASE JournalPublished
  BY <1>13 DEF JournalPublished
<1>14. CASE Clean
  BY <1>14 DEF Clean
<1>15. CASE ExportDone
  BY <1>15 DEF ExportDone
<1>16. CASE ExportFailed
  BY <1>16 DEF ExportFailed, Outcome
<1>17. CASE StartFails
  BY <1>17 DEF StartFails, CanStart
<1>18. CASE ThreadFails
  BY <1>18 DEF ThreadFails
<1>19. CASE ExportFailedUnsaved
  BY <1>19 DEF ExportFailedUnsaved
<1>20. CASE ExportPanics
  BY <1>20 DEF ExportPanics
<1>21. ASSUME NEW n \in Names, OtherFile(n) PROVE Remembered'
  BY <1>21 DEF OtherFile
<1>22. ASSUME NEW f \in Faxes, TakeFile(f) PROVE Remembered'
  BY <1>22 DEF TakeFile
<1>23. CASE Stop
  BY <1>23 DEF Stop
<1>24. CASE Stopped
  BY <1>24 DEF Stopped
<1>25. CASE Crash
  BY <1>25 DEF Crash, Dies
<1>26. CASE Reopen
  <2> DEFINE left == {f \in Faxes : Unfinished(row'[f])}
  <2>1. \A f \in left : f \in Members(exports')
    <3>1. exports' \in Orders(left)
      BY <1>26 DEF Reopen
    <3>2. \A f \in left : \E i \in DOMAIN exports' : exports'[i] = f
      BY <3>1 DEF Orders
    <3>3. QED
      BY <3>2 DEF Members
  <2>2. step' = "idle" /\ row' \in [Faxes -> Statuses]
    BY <1>26 DEF Reopen
  <2>3. QED
    BY <2>1, <2>2
<1>27. CASE UNCHANGED vars
  BY <1>27 DEF vars
<1>28. CASE StagingChanged
  BY <1>28 DEF StagingChanged
<1>29. CASE MachineCrash
  BY <1>29 DEF MachineCrash, Dies, Unlink
<1>30. QED
  BY <1>1, <1>2, <1>3, <1>4, <1>5, <1>6, <1>7, <1>8, <1>9, <1>10, <1>11, <1>12, <1>13,
       <1>14, <1>15, <1>16, <1>17, <1>18, <1>19, <1>20, <1>21, <1>22, <1>23, <1>24, <1>25,
       <1>26, <1>27, <1>28, <1>29, NextIsActions DEF Actions

(* Without a failed write, nothing that waits for its export is forgotten. *)
THEOREM NoneForgotten == Spec => []NothingForgotten
<1>1. Init => Remembered
  BY DEF Init, Remembered, Absent, Plain, Status, IsFinished
<1>2. TypeOK /\ Place /\ Waits /\ Remembered => NothingForgotten
  BY DEF Remembered, NothingForgotten, Queued, Members
<1>3. QED
  BY <1>1, <1>2, RememberedStep, ThreadAndQueue, ExportTypes, PTL DEF Spec

(* A name in use keeps its content or becomes free. *)
Untouched == \A n \in Names : folder[n] # "free" => folder'[n] \in {folder[n], "free"}

(* No action gives a used name other content. *)
LEMMA OverwriteStep == TypeOK /\ [Next]_vars => Untouched
<1> SUFFICES ASSUME TypeOK, [Next]_vars PROVE Untouched
  OBVIOUS
<1> USE DEF TypeOK, Untouched, disk
<1>1. ASSUME NEW f \in Faxes, Reserve(f) PROVE Untouched
  BY <1>1 DEF Reserve
<1>2. ASSUME NEW f \in Faxes, Finished(f) PROVE Untouched
  BY <1>2 DEF Finished, Push
<1>3. ASSUME NEW f \in Faxes, RetryExport(f) PROVE Untouched
  BY <1>3 DEF RetryExport, Push
<1>4. CASE StartExport
  BY <1>4 DEF StartExport, CanStart
<1>5. CASE Begin
  BY <1>5 DEF Begin, SameContent, AlreadyLinked
<1>6. CASE Render
  BY <1>6 DEF Render
<1>7. CASE JournalNoContent
  BY <1>7 DEF JournalNoContent
<1>8. CASE Stage
  BY <1>8 DEF Stage, SyncDirectory
<1>9. CASE JournalPublishing
  BY <1>9 DEF JournalPublishing
<1>10. CASE Link
  BY <1>10 DEF Link
<1>11. CASE Collision
  BY <1>11 DEF Collision
<1>12. CASE Sync
  BY <1>12 DEF Sync, SyncDirectory
<1>13. CASE JournalPublished
  BY <1>13 DEF JournalPublished
<1>14. CASE Clean
  BY <1>14 DEF Clean
<1>15. CASE ExportDone
  BY <1>15 DEF ExportDone
<1>16. CASE ExportFailed
  BY <1>16 DEF ExportFailed, Outcome
<1>17. CASE StartFails
  BY <1>17 DEF StartFails, CanStart
<1>18. CASE ThreadFails
  BY <1>18 DEF ThreadFails
<1>19. CASE ExportFailedUnsaved
  BY <1>19 DEF ExportFailedUnsaved
<1>20. CASE ExportPanics
  BY <1>20 DEF ExportPanics
<1>21. ASSUME NEW n \in Names, OtherFile(n) PROVE Untouched
  BY <1>21 DEF OtherFile
<1>22. ASSUME NEW f \in Faxes, TakeFile(f) PROVE Untouched
  BY <1>22 DEF TakeFile
<1>23. CASE Stop
  BY <1>23 DEF Stop
<1>24. CASE Stopped
  BY <1>24 DEF Stopped
<1>25. CASE Crash
  BY <1>25 DEF Crash, Dies
<1>26. CASE Reopen
  BY <1>26 DEF Reopen, Recovered, Orders
<1>27. CASE UNCHANGED vars
  BY <1>27 DEF vars
<1>28. CASE StagingChanged
  BY <1>28 DEF StagingChanged
<1>29. CASE MachineCrash
  BY <1>29 DEF MachineCrash, Dies, Unlink
<1> HIDE DEF Untouched
<1>30. QED
  BY <1>1, <1>2, <1>3, <1>4, <1>5, <1>6, <1>7, <1>8, <1>9, <1>10, <1>11, <1>12, <1>13,
       <1>14, <1>15, <1>16, <1>17, <1>18, <1>19, <1>20, <1>21, <1>22, <1>23, <1>24, <1>25,
       <1>26, <1>27, <1>28, <1>29, NextIsActions DEF Actions

(* No file in the folder is ever overwritten. *)
THEOREM NothingOverwritten == Spec => NoOverwrite
<1>1. TypeOK /\ [Next]_vars => [\A n \in Names : folder[n] # "free" => folder'[n] \in {folder[n], "free"}]_vars
  BY OverwriteStep DEF Untouched
<1>2. QED
  BY <1>1, ExportTypes, PTL DEF Spec, NoOverwrite

(* The export queue of a running engine has every reception that is to be *)
(* exported, once, and each is announced at most once (start_export, export, *)
(* ReceivedPdfReady). *)
THEOREM ExportedOnce == Spec => []ExportsOnce
<1>1. TypeOK /\ NothingForgotten /\ QueuedOnce /\ PdfReadyOnce => ExportsOnce
  BY DEF ExportsOnce
<1>2. QED
  BY <1>1, ExportTypes, NoneForgotten, QueuedAtMostOnce, OpenedOnce, PTL

-----------------------------------------------------------------------------
(* The exporter implements Delivery. *)

(* What the user took stays published, and its file does not come back;    *)
(* the exporter works on a reception only as long as there is work.        *)
Settled ==
    /\ \A f \in taken : row[f].kind = "Published" /\ ~Holds(row[f].dest, f)
    /\ step \notin {"idle", "clean", "done"} => Unfinished(row[exporting])

(* Every action leaves alone what was taken and what is finished. *)
LEMMA SettledStep == TypeOK /\ TypeOK' /\ Place /\ Waits /\ Settled /\ [Next]_vars => Settled'
<1> SUFFICES ASSUME TypeOK, TypeOK', Place, Waits, Settled, [Next]_vars PROVE Settled'
  OBVIOUS
<1> USE StatusTypes DEF TypeOK, Place, Settled, Unfinished, Holds, Plain, Status, Publishing, Absent,
     Save, Goto, Leave, Fault, disk, thread, history
<1>1. ASSUME NEW f \in Faxes, Reserve(f) PROVE Settled'
  BY <1>1 DEF Reserve
<1>2. ASSUME NEW f \in Faxes, Finished(f) PROVE Settled'
  BY <1>2 DEF Finished, Push
<1>3. ASSUME NEW f \in Faxes, RetryExport(f) PROVE Settled'
  BY <1>3 DEF RetryExport, Push
<1>4. CASE StartExport
  <2>1. Head(exports) \in Faxes /\ Unfinished(row[Head(exports)])
    BY <1>4, TailMembers DEF StartExport, CanStart, Waits
  <2>2. QED
    BY <1>4, <2>1 DEF StartExport, CanStart
<1>5. CASE Begin
  BY <1>5 DEF Begin, SameContent, AlreadyLinked
<1>6. CASE Render
  BY <1>6 DEF Render
<1>7. CASE JournalNoContent
  BY <1>7 DEF JournalNoContent
<1>8. CASE Stage
  BY <1>8 DEF Stage, SyncDirectory
<1>9. CASE JournalPublishing
  BY <1>9 DEF JournalPublishing
<1>10. CASE Link
  BY <1>10 DEF Link
<1>11. CASE Collision
  BY <1>11 DEF Collision
<1>12. CASE Sync
  BY <1>12 DEF Sync, SyncDirectory
<1>13. CASE JournalPublished
  BY <1>13 DEF JournalPublished
<1>14. CASE Clean
  BY <1>14 DEF Clean
<1>15. CASE ExportDone
  BY <1>15 DEF ExportDone
<1>16. CASE ExportFailed
  BY <1>16 DEF ExportFailed, Outcome
<1>17. CASE StartFails
  BY <1>17 DEF StartFails, CanStart
<1>18. CASE ThreadFails
  BY <1>18 DEF ThreadFails
<1>19. CASE ExportFailedUnsaved
  BY <1>19 DEF ExportFailedUnsaved
<1>20. CASE ExportPanics
  BY <1>20 DEF ExportPanics
<1>21. ASSUME NEW n \in Names, OtherFile(n) PROVE Settled'
  BY <1>21 DEF OtherFile
<1>22. ASSUME NEW f \in Faxes, TakeFile(f) PROVE Settled'
  BY <1>22 DEF TakeFile
<1>23. CASE Stop
  BY <1>23 DEF Stop
<1>24. CASE Stopped
  BY <1>24 DEF Stopped
<1>25. CASE Crash
  BY <1>25 DEF Crash, Dies
<1>26. CASE Reopen
  BY <1>26 DEF Reopen, Recovered
<1>27. CASE UNCHANGED vars
  BY <1>27 DEF vars
<1>28. CASE StagingChanged
  BY <1>28 DEF StagingChanged
<1>29. CASE MachineCrash
  BY <1>29 DEF MachineCrash, Dies, Unlink
<1>30. QED
  BY <1>1, <1>2, <1>3, <1>4, <1>5, <1>6, <1>7, <1>8, <1>9, <1>10, <1>11, <1>12, <1>13,
       <1>14, <1>15, <1>16, <1>17, <1>18, <1>19, <1>20, <1>21, <1>22, <1>23, <1>24, <1>25,
       <1>26, <1>27, <1>28, <1>29, NextIsActions DEF Actions

(* The step a fax makes in Delivery. *)
Delivers ==
    \/ \E f \in Faxes :
          \/ Promise!Receive(f)
          \/ Promise!Publish(f)
          \/ Promise!Discard(f)
          \/ Promise!Take(f)
    \/ \E calls \in SUBSET Faxes : Promise!End(calls)
    \/ \E lost \in SUBSET Shelf : Promise!Vanish(lost)
    \/ UNCHANGED <<[f \in Faxes |-> Fate(f)], Shelf, taken, opened>>

(* A step that leaves the fate of all receptions, the shelf and the history alone is a stutter. *)
LEMMA Stutters ==
    ASSUME \A f \in Faxes : Fate(f)' = Fate(f),
           \A f \in Faxes : f \in Shelf' <=> f \in Shelf,
           UNCHANGED <<taken, opened>>
    PROVE  Delivers
<1>1. [f \in Faxes |-> Fate(f)]' = [f \in Faxes |-> Fate(f)]
  OBVIOUS
<1>2. Shelf' = Shelf
  BY DEF Shelf
<1>3. QED
  BY <1>1, <1>2 DEF Delivers

(* Nothing but the fate of one reception changes, and its file lies on the *)
(* shelf only now.                                                         *)
Moved(f, s) ==
    /\ \A g \in Faxes \ {f} : Fate(g)' = Fate(g) /\ (g \in Shelf' <=> g \in Shelf)
    /\ f \notin Shelf
    /\ f \in Shelf' <=> s.kind = "Published" /\ Holds(s.dest, f)
    /\ [g \in Faxes |-> Fate(g)]' = [[g \in Faxes |-> Fate(g)] EXCEPT ![f] = Fate(f)']
    /\ row'[f] = s

(* A new status of a reception that is not published moves only that one.  *)
LEMMA Rewritten ==
    ASSUME TypeOK, NEW f \in Faxes, NEW s \in Statuses, row[f].kind # "Published",
           row' = [row EXCEPT ![f] = s], folder' = folder
    PROVE  Moved(f, s)
<1>1. row'[f] = s /\ \A g \in Faxes \ {f} : row'[g] = row[g]
  BY DEF TypeOK
<1>2. \A g \in Faxes \ {f} : Fate(g)' = Fate(g)
  BY <1>1 DEF Fate
<1>3. \A g \in Faxes \ {f} : g \in Shelf' <=> g \in Shelf
  BY <1>1 DEF Shelf, Holds
<1>4. f \notin Shelf /\ (f \in Shelf' <=> s.kind = "Published" /\ Holds(s.dest, f))
  BY <1>1 DEF Shelf, Holds
<1>5. [g \in Faxes |-> Fate(g)]' = [[g \in Faxes |-> Fate(g)] EXCEPT ![f] = Fate(f)']
  BY <1>2
<1>6. QED
  BY <1>1, <1>2, <1>3, <1>4, <1>5 DEF Moved

(* Every action is a step of Delivery or a stutter. *)
LEMMA DeliveryStep ==
    TypeOK /\ TypeOK' /\ Place /\ Waits /\ Lasting /\ Settled /\ [Next]_vars => Delivers
<1> SUFFICES ASSUME TypeOK, TypeOK', Place, Waits, Lasting, Settled, [Next]_vars PROVE Delivers
  OBVIOUS
<1> DEFINE Same ==
      /\ \A f \in Faxes : Fate(f)' = Fate(f)
      /\ \A f \in Faxes : f \in Shelf' <=> f \in Shelf
      /\ UNCHANGED <<taken, opened>>
<1> USE StatusTypes DEF TypeOK, Place, Lasting, Settled, Holds, Plain, Status, Publishing, Absent,
     Save, Goto, Leave, Fault, disk, thread, history
<1>1. ASSUME NEW f \in Faxes, Reserve(f) PROVE Delivers
  <2>1. row[f].kind = "Absent" /\ Plain("Receiving") \in Statuses /\ Plain("Receiving").kind = "Receiving"
    BY <1>1 DEF Reserve
  <2>2. PICK s \in Statuses : s = Plain("Receiving")
    BY <2>1
  <2>3. /\ row' = [row EXCEPT ![f] = s]
        /\ UNCHANGED <<folder, taken>>
        /\ opened' = opened
    BY <1>1, <2>1, <2>2 DEF Reserve
  <2> HIDE DEF TypeOK, Place, Lasting, Settled, Holds, Plain, Status, Publishing, Absent, Save, Outcome
  <2>4. row[f].kind # "Published" /\ s.kind = "Receiving" /\ Fate(f) = "new"
    BY <2>1, <2>2 DEF Fate
  <2>5. Moved(f, s)
    BY <2>2, <2>3, <2>4, Rewritten
  <2>6. Fate(f)' = "receiving"
    BY <2>4, <2>5 DEF Fate, Moved
  <2>7. Shelf' = Shelf
    BY <2>3, <2>4, <2>5 DEF Shelf, Moved
  <2>8. Promise!Receive(f)
    BY <2>3, <2>4, <2>5, <2>6, <2>7 DEF Promise!Receive, Promise!Becomes, Moved
  <2>9. QED
    BY <2>8 DEF Delivers
<1>2. ASSUME NEW f \in Faxes, Finished(f) PROVE Delivers
  <2>1. Promise!End({f})
    BY <1>2 DEF Finished, Push, Promise!End, Fate, Shelf
  <2>2. QED
    BY <2>1 DEF Delivers
<1>3. ASSUME NEW f \in Faxes, RetryExport(f) PROVE Delivers
  <2>1. Same
    BY <1>3 DEF RetryExport, Push, Fate, Shelf
  <2>2. QED
    BY <2>1, Stutters
<1>4. CASE StartExport
  <2>1. Same
    BY <1>4 DEF StartExport, CanStart, Fate, Shelf
  <2>2. QED
    BY <2>1, Stutters
<1>5. CASE Begin
  <2>1. Same
    BY <1>5 DEF Begin, SameContent, AlreadyLinked, Fate, Shelf
  <2>2. QED
    BY <2>1, Stutters
<1>6. CASE Render
  <2>1. Same
    BY <1>6 DEF Render, Fate, Shelf
  <2>2. QED
    BY <2>1, Stutters
<1>7. CASE JournalNoContent
  <2>1. /\ exporting \in Faxes
        /\ row[exporting].kind \notin {"Absent", "Receiving", "Published", "NoContent"}
        /\ copy \in Statuses /\ copy.kind = "NoContent"
    BY <1>7 DEF JournalNoContent, Unfinished
  <2>2. PICK f \in Faxes, s \in Statuses : f = exporting /\ s = copy
    BY <2>1
  <2>3. /\ row' = [row EXCEPT ![f] = s]
        /\ UNCHANGED <<folder, taken>>
        /\ opened' = opened
    BY <1>7, <2>1, <2>2 DEF JournalNoContent
  <2> HIDE DEF TypeOK, Place, Lasting, Settled, Holds, Plain, Status, Publishing, Absent, Save, Outcome
  <2>4. row[f].kind # "Published" /\ s.kind = "NoContent" /\ Fate(f) = "waiting"
    BY <2>1, <2>2 DEF Fate
  <2>5. Moved(f, s)
    BY <2>2, <2>3, <2>4, Rewritten
  <2>6. Fate(f)' = "empty"
    BY <2>4, <2>5 DEF Fate, Moved
  <2>7. Shelf' = Shelf
    BY <2>3, <2>4, <2>5 DEF Shelf, Moved
  <2>8. Promise!Discard(f)
    BY <2>3, <2>4, <2>5, <2>6, <2>7 DEF Promise!Discard, Promise!Becomes, Moved
  <2>9. QED
    BY <2>8 DEF Delivers
<1>8. CASE Stage
  <2>1. Same
    BY <1>8 DEF Stage, SyncDirectory, Fate, Shelf
  <2>2. QED
    BY <2>1, Stutters
<1>9. CASE JournalPublishing
  <2>1. /\ exporting \in Faxes
        /\ row[exporting].kind \notin {"Absent", "Receiving", "Published", "NoContent"}
        /\ copy \in Statuses /\ copy.kind = "Publishing"
    BY <1>9 DEF JournalPublishing, Unfinished
  <2>2. PICK f \in Faxes, s \in Statuses : f = exporting /\ s = copy
    BY <2>1
  <2>3. /\ row' = [row EXCEPT ![f] = s]
        /\ UNCHANGED <<folder, taken>>
        /\ opened' = opened
    BY <1>9, <2>1, <2>2 DEF JournalPublishing
  <2> HIDE DEF TypeOK, Place, Lasting, Settled, Holds, Plain, Status, Publishing, Absent, Save, Outcome
  <2>4. row[f].kind # "Published" /\ s.kind = "Publishing" /\ Fate(f) = "waiting"
    BY <2>1, <2>2 DEF Fate
  <2>5. Moved(f, s)
    BY <2>2, <2>3, <2>4, Rewritten
  <2>6. Fate(f)' = "waiting"
    BY <2>4, <2>5 DEF Fate, Moved
  <2>7. Same
    BY <2>3, <2>4, <2>5, <2>6 DEF Moved
  <2>8. QED
    BY <2>7, Stutters
<1>10. CASE Link
  <2>1. Same
    BY <1>10 DEF Link, Fate, Shelf
  <2>2. QED
    BY <2>1, Stutters
<1>11. CASE Collision
  <2>1. Same
    BY <1>11 DEF Collision, Fate, Shelf
  <2>2. QED
    BY <2>1, Stutters
<1>12. CASE Sync
  <2>1. Same
    BY <1>12 DEF Sync, SyncDirectory, Fate, Shelf
  <2>2. QED
    BY <2>1, Stutters
<1>13. CASE JournalPublished
  <2>1. /\ exporting \in Faxes
        /\ row[exporting].kind \notin {"Absent", "Receiving", "Published", "NoContent"}
        /\ copy' \in Statuses /\ copy'.kind = "Published"
    BY <1>13 DEF JournalPublished, Unfinished
  <2>2. PICK f \in Faxes, s \in Statuses : f = exporting /\ s = copy'
    BY <2>1
  <2>3. /\ row' = [row EXCEPT ![f] = s]
        /\ UNCHANGED <<folder, taken>>
        /\ Holds(s.dest, f) /\ opened' = [opened EXCEPT ![f] = @ + 1]
    BY <1>13, <2>1, <2>2 DEF JournalPublished
  <2> HIDE DEF TypeOK, Place, Lasting, Settled, Holds, Plain, Status, Publishing, Absent, Save, Outcome
  <2>4. row[f].kind # "Published" /\ s.kind = "Published" /\ Fate(f) = "waiting"
    BY <2>1, <2>2 DEF Fate
  <2>5. Moved(f, s)
    BY <2>2, <2>3, <2>4, Rewritten
  <2>6. Fate(f)' = "published"
    BY <2>4, <2>5 DEF Fate, Moved
  <2>7. Shelf' = Shelf \cup {f}
    BY <2>3, <2>4, <2>5 DEF Shelf, Moved
  <2>8. Promise!Publish(f)
    BY <2>3, <2>4, <2>5, <2>6, <2>7 DEF Promise!Publish, Promise!Becomes, Moved
  <2>9. QED
    BY <2>8 DEF Delivers
<1>14. CASE Clean
  <2>1. Same
    BY <1>14 DEF Clean, Fate, Shelf
  <2>2. QED
    BY <2>1, Stutters
<1>15. CASE ExportDone
  <2>1. Same
    BY <1>15 DEF ExportDone, Fate, Shelf
  <2>2. QED
    BY <2>1, Stutters
<1>16. CASE ExportFailed
  <2>1. /\ exporting \in Faxes
        /\ row[exporting].kind \notin {"Absent", "Receiving", "Published", "NoContent"}
        /\ Outcome \in Statuses /\ Outcome.kind \in {"Publishing", "Failed"}
    BY <1>16 DEF ExportFailed, Outcome, Unfinished
  <2>2. PICK f \in Faxes, s \in Statuses : f = exporting /\ s = Outcome
    BY <2>1
  <2>3. /\ row' = [row EXCEPT ![f] = s]
        /\ UNCHANGED <<folder, taken>>
        /\ opened' = opened
    BY <1>16, <2>1, <2>2 DEF ExportFailed, Outcome
  <2> HIDE DEF TypeOK, Place, Lasting, Settled, Holds, Plain, Status, Publishing, Absent, Save, Outcome
  <2>4. row[f].kind # "Published" /\ s.kind \in {"Publishing", "Failed"} /\ Fate(f) = "waiting"
    BY <2>1, <2>2 DEF Fate
  <2>5. Moved(f, s)
    BY <2>2, <2>3, <2>4, Rewritten
  <2>6. Fate(f)' = "waiting"
    BY <2>4, <2>5 DEF Fate, Moved
  <2>7. Same
    BY <2>3, <2>4, <2>5, <2>6 DEF Moved
  <2>8. QED
    BY <2>7, Stutters
<1>17. CASE StartFails
  <2>1. Same
    BY <1>17 DEF StartFails, CanStart, Fate, Shelf
  <2>2. QED
    BY <2>1, Stutters
<1>18. CASE ThreadFails
  <2>1. Same
    BY <1>18 DEF ThreadFails, Fate, Shelf
  <2>2. QED
    BY <2>1, Stutters
<1>19. CASE ExportFailedUnsaved
  <2>1. Same
    BY <1>19 DEF ExportFailedUnsaved, Fate, Shelf
  <2>2. QED
    BY <2>1, Stutters
<1>20. CASE ExportPanics
  <2>1. Same
    BY <1>20 DEF ExportPanics, Fate, Shelf
  <2>2. QED
    BY <2>1, Stutters
<1>21. ASSUME NEW n \in Names, OtherFile(n) PROVE Delivers
  <2>1. Same
    BY <1>21 DEF OtherFile, Fate, Shelf
  <2>2. QED
    BY <2>1, Stutters
<1>22. ASSUME NEW f \in Faxes, TakeFile(f) PROVE Delivers
  <2>1. Promise!Take(f)
    BY <1>22 DEF TakeFile, Promise!Take, Fate, Shelf
  <2>2. QED
    BY <2>1 DEF Delivers
<1>23. CASE Stop
  <2>1. Same
    BY <1>23 DEF Stop, Fate, Shelf
  <2>2. QED
    BY <2>1, Stutters
<1>24. CASE Stopped
  <2>1. Same
    BY <1>24 DEF Stopped, Fate, Shelf
  <2>2. QED
    BY <2>1, Stutters
<1>25. CASE Crash
  <2>1. Same
    BY <1>25 DEF Crash, Dies, Fate, Shelf
  <2>2. QED
    BY <2>1, Stutters
<1>26. CASE Reopen
  <2> DEFINE calls == {f \in Faxes : row[f].kind = "Receiving"}
  <2>1. \A f \in Faxes : row'[f] = IF row[f].kind = "Receiving" THEN Plain("Pending") ELSE row[f]
    BY <1>26 DEF Reopen, Recovered
  <2>2. UNCHANGED <<folder, taken, opened>>
    BY <1>26 DEF Reopen
  <2>3. Plain("Pending").kind = "Pending"
    OBVIOUS
  <2> HIDE DEF TypeOK, Place, Lasting, Settled, Plain, Status, Save
  <2>4. \A f \in Faxes : Fate(f)' = IF f \in calls THEN "waiting" ELSE Fate(f)
    BY <2>1, <2>3 DEF Fate
  <2>5. Shelf' = Shelf
    BY <2>1, <2>2, <2>3 DEF Shelf
  <2>6. \A f \in calls : Fate(f) = "receiving"
    BY DEF Fate
  <2>7. Promise!End(calls)
    BY <2>2, <2>4, <2>5, <2>6 DEF Promise!End
  <2>8. QED
    BY <2>7 DEF Delivers
<1>27. CASE UNCHANGED vars
  <2>1. Same
    BY <1>27 DEF vars, Fate, Shelf
  <2>2. QED
    BY <2>1, Stutters
<1>28. CASE StagingChanged
  <2>1. Same
    BY <1>28 DEF StagingChanged, Fate, Shelf
  <2>2. QED
    BY <2>1, Stutters
<1>29. CASE MachineCrash
  <2>1. Promise!Vanish(Shelf \ Shelf') \/ Same
    BY <1>29 DEF MachineCrash, Dies, Unlink, Promise!Vanish, Fate, Shelf
  <2>2. QED
    BY <2>1, Stutters DEF Delivers
<1>30. QED
  BY <1>1, <1>2, <1>3, <1>4, <1>5, <1>6, <1>7, <1>8, <1>9, <1>10, <1>11, <1>12, <1>13,
       <1>14, <1>15, <1>16, <1>17, <1>18, <1>19, <1>20, <1>21, <1>22, <1>23, <1>24, <1>25,
       <1>26, <1>27, <1>28, <1>29, NextIsActions DEF Actions

(* Directories are synced always or never. *)
LEMMA PlatformStays == [Next]_vars => UNCHANGED platform
<1> USE DEF Fault, Leave, Goto, Save, history
<1>1. UNCHANGED vars => UNCHANGED platform
  BY DEF vars
<1>2. (\E f \in Faxes : Reserve(f) \/ Finished(f) \/ RetryExport(f) \/ TakeFile(f))
        \/ (\E n \in Names : OtherFile(n)) => UNCHANGED platform
  BY DEF Reserve, Finished, RetryExport, TakeFile, OtherFile
<1>3. Attempt \/ Failure \/ StartExport => UNCHANGED platform
  BY DEF Attempt, Begin, Render, JournalNoContent, Stage, StagingChanged, JournalPublishing, Link,
         Collision, Sync, JournalPublished, Clean, ExportDone, ExportFailed, Failure, StartFails,
         ThreadFails, ExportFailedUnsaved, ExportPanics, StartExport
<1>4. Stop \/ Stopped \/ Crash \/ MachineCrash \/ Reopen => UNCHANGED platform
  BY DEF Stop, Stopped, Crash, MachineCrash, Dies, Reopen
<1>5. QED
  BY <1>1, <1>2, <1>3, <1>4 DEF Next, Reception

(* Whatever crashes and fails, a fax is announced in the step that         *)
(* publishes it, and what it became never changes again.  On unix it then  *)
(* lies in the folder until the user takes it; elsewhere a crash of the    *)
(* machine may remove it first (Delivery's Vanish).                        *)
THEOREM ExportImplementsDelivery == Spec => ImplementsDelivery
<1>1. Init => Promise!Init
  BY DEF Init, Promise!Init, Absent, Plain, Status, Fate, Shelf
<1>2. Init => Lasting /\ Settled
  BY DEF Init, Lasting, Settled, Absent, Plain, Status
<1>3. TypeOK /\ TypeOK' /\ Place /\ Waits /\ Lasting /\ Settled /\ [Next]_vars
        => [Promise!Next]_<<[f \in Faxes |-> Fate(f)], Shelf, taken, opened, Unix>>
  BY DeliveryStep, PlatformStays DEF Delivers, Promise!Next
<1>4. QED
  BY <1>1, <1>2, <1>3, LastingStep, SettledStep, ThreadAndQueue, ExportTypes, PTL
     DEF Spec, ImplementsDelivery, Promise!Spec
=============================================================================
