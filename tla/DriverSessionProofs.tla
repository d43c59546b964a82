------------------------ MODULE DriverSessionProofs ------------------------
(***************************************************************************)
(* The session and the calls of a driver, for any number of calls, any     *)
(* names and any fault.  First what session.json holds when calls record   *)
(* at once, with any crash or failure of a file operation except a flush   *)
(* whose error is lost; then that it keeps all of this under the calls of  *)
(* a driver, and is an honest history of them.                             *)
(***************************************************************************)
EXTENDS DriverSession, TLAPS

(* The session file.                                                       *)

Files == [views : Seq(View), whole : BOOLEAN]

StateType ==
    /\ views \in Seq(View)
    /\ nextIndex \in Nat \ {0}
    /\ holder \in Calls \union {None}
    /\ temp \in Files
    /\ disk \in Files
    /\ pc \in [Calls -> {"waiting", "create", "write", "rename", "done"}]
    /\ result \in [Calls -> {"pending", "ok", "err"}]
    /\ alive \in BOOLEAN

(* The mutex is held by whoever is between its push and its return.        *)
Recording(c) == pc[c] \in {"create", "write", "rename"}
HolderRecords ==
    /\ \A c \in Calls : Recording(c) => holder = c
    /\ \A c \in Calls : pc[c] # "done" => result[c] = "pending"

(* A temporary file about to be renamed holds the document in memory.      *)
TempIsDocument == \A c \in Calls : pc[c] = "rename" => temp = Whole(views)

(* The session file is whole and agrees with the document as far as it     *)
(* goes, at least to the last acknowledged record.                         *)
DiskAgrees ==
    /\ disk.whole
    /\ Len(disk.views) <= Len(views)
    /\ \A i \in 1 .. Len(disk.views) : disk.views[i] = views[i]
    /\ \A i \in 1 .. Len(views) : result[views[i].call] = "ok" => i <= Len(disk.views)

(* A generated name carries a number below the counter, each its own.      *)
NamesNumbered ==
    /\ \A i \in 1 .. Len(views) : IsAuto(views[i]) =>
          \E n \in 1 .. nextIndex - 1 : views[i].name = AutoName(n)
    /\ AutoNamesDistinct

CoreInv == StateType /\ HolderRecords
FileInv == CoreInv /\ TempIsDocument /\ DiskAgrees

-----------------------------------------------------------------------------

LEMMA InitCoreInv == Init => CoreInv
<1> SUFFICES ASSUME Init PROVE CoreInv
  OBVIOUS
<1>1. Whole(<< >>) \in Files /\ Torn \in Files
  BY DEF Files, Whole, Torn
<1>2. disk \in Files /\ temp \in Files
  BY <1>1 DEF Init
<1>3. StateType
  BY <1>2 DEF Init, StateType, FirstIndex
<1>4. HolderRecords
  BY DEF Init, HolderRecords, Recording
<1>q. QED BY <1>3, <1>4 DEF CoreInv

(* Pushing a view under the mutex.                                         *)
LEMMA AppendCore ==
  ASSUME CoreInv, NEW c \in Calls, AppendView(c)
  PROVE  /\ CoreInv'
         /\ \E name \in Names, status \in {"success", "error"} :
               /\ views' = Append(views, ResolvedView(c, name, status))
               /\ nextIndex' = IndexAfter(name)
               /\ ResolvedView(c, name, status) \in View
<1> USE RecorderAssumption DEF RecorderAssumption
<1>1. PICK name \in Names, status \in {"success", "error"} :
         /\ views' = Append(views, ResolvedView(c, name, status))
         /\ nextIndex' = IndexAfter(name)
  BY DEF AppendView
<1>2. ResolvedView(c, name, status) \in View
  BY DEF ResolvedView, View, AutoName, CoreInv, StateType
<1>3. StateType'
  BY <1>1, <1>2 DEF CoreInv, StateType, AppendView, IndexAfter, HolderWhileWriting
<1>4. HolderRecords'
  BY DEF CoreInv, StateType, HolderRecords, Recording, AppendView, HolderWhileWriting
<1>q. QED BY <1>1, <1>2, <1>3, <1>4 DEF CoreInv

LEMMA AppendFile ==
  ASSUME FileInv, NEW c \in Calls, AppendView(c)
  PROVE  TempIsDocument' /\ DiskAgrees'
<1>1. CoreInv
  BY DEF FileInv
<1>2. PICK name \in Names, status \in {"success", "error"} :
         /\ views' = Append(views, ResolvedView(c, name, status))
         /\ ResolvedView(c, name, status) \in View
  BY <1>1, AppendCore
<1>3. TempIsDocument'
  BY <1>1, RecorderAssumption DEF RecorderAssumption, CoreInv, StateType, HolderRecords,
     Recording, TempIsDocument, AppendView, FileInv
<1>4. DiskAgrees'
  <2>1. /\ Len(views') = Len(views) + 1
        /\ \A i \in 1 .. Len(views) : views'[i] = views[i]
        /\ views'[Len(views) + 1] = ResolvedView(c, name, status)
    BY <1>1, <1>2 DEF CoreInv, StateType
  <2>2. views'[Len(views) + 1].call = c /\ result[c] = "pending"
    BY <1>1, <2>1 DEF ResolvedView, AppendView, CoreInv, HolderRecords
  <2>3. UNCHANGED <<disk, result>>
    BY DEF AppendView
  <2>4. Len(views) \in Nat /\ Len(disk.views) \in Nat
    BY <1>1 DEF CoreInv, StateType, Files
  <2>5. \A i \in 1 .. Len(disk'.views) : disk'.views[i] = views'[i]
    BY <2>1, <2>3, <2>4 DEF FileInv, DiskAgrees
  <2>6. ASSUME NEW i \in 1 .. Len(views'), result'[views'[i].call] = "ok"
        PROVE  i <= Len(disk'.views)
    <3>1. CASE i \in 1 .. Len(views)
      BY <2>1, <2>3, <2>6, <3>1 DEF FileInv, DiskAgrees
    <3>2. CASE i = Len(views) + 1
      BY <2>2, <2>3, <2>6, <3>2
    <3>q. QED BY <2>1, <2>4, <3>1, <3>2
  <2>q. QED BY <2>1, <2>3, <2>4, <2>5, <2>6 DEF FileInv, DiskAgrees
<1>q. QED BY <1>3, <1>4

(* The steps of write_document, failures included.                         *)
LEMMA WriteCore ==
  ASSUME CoreInv, NEW c \in Calls,
         CreateTemp(c) \/ WriteTemp(c) \/ RenameTemp(c)
  PROVE  CoreInv'
<1> USE RecorderAssumption DEF RecorderAssumption, CoreInv, Return, GoTo
<1>1. StateType'
  <2>1. Torn \in Files /\ Whole(views) \in Files
    BY DEF StateType, Torn, Whole, Files
  <2>q. QED BY <2>1 DEF StateType, CreateTemp, WriteTemp, RenameTemp, Document
<1>2. HolderRecords'
  BY DEF StateType, HolderRecords, Recording, CreateTemp, WriteTemp, RenameTemp
<1>q. QED BY <1>1, <1>2

LEMMA WriteFile ==
  ASSUME FileInv, "flush" \notin Faults, NEW c \in Calls,
         CreateTemp(c) \/ WriteTemp(c) \/ RenameTemp(c)
  PROVE  TempIsDocument' /\ DiskAgrees'
<1> USE RecorderAssumption DEF RecorderAssumption, FileInv, CoreInv, Return, GoTo
<1>1. TempIsDocument'
  BY DEF StateType, HolderRecords, Recording, TempIsDocument, CreateTemp,
         WriteTemp, RenameTemp, Document
<1>2. DiskAgrees'
  <2>1. CASE disk' = disk /\ result' \in {result, [result EXCEPT ![c] = "err"]}
    <3>1. \A d \in Calls : result'[d] = "ok" => result[d] = "ok"
      BY <2>1 DEF StateType
    <3>2. \A i \in 1 .. Len(views) : views[i].call \in Calls
      <4>1. \A i \in 1 .. Len(views) : views[i] \in View
        BY DEF StateType
      <4>q. QED BY <4>1 DEF View
    <3>3. views' = views
      BY DEF CreateTemp, WriteTemp, RenameTemp
    <3>q. QED BY <2>1, <3>1, <3>2, <3>3 DEF DiskAgrees
  <2>2. CASE disk' = temp /\ pc[c] = "rename"
    <3>1. disk' = Whole(views) /\ views' = views
      BY <2>2 DEF TempIsDocument, CreateTemp, WriteTemp, RenameTemp
    <3>q. QED BY <3>1 DEF DiskAgrees, Whole, StateType
  <2>q. QED BY <2>1, <2>2 DEF CreateTemp, WriteTemp, RenameTemp
<1>q. QED BY <1>1, <1>2

(* Crash, termination and stuttering touch nothing the invariants speak of.*)
LEMMA IdleStep ==
  ASSUME UNCHANGED vars \/ Crash \/ Finished
  PROVE  UNCHANGED <<views, nextIndex, holder, temp, disk, pc, result>>
         /\ alive' \in {alive, FALSE}
  BY DEF vars, Crash, Finished

LEMMA CoreStep == CoreInv /\ [Next]_vars => CoreInv'
<1> SUFFICES ASSUME CoreInv, [Next]_vars PROVE CoreInv'
  OBVIOUS
<1>1. CASE UNCHANGED vars \/ Crash \/ Finished
  BY <1>1, IdleStep DEF CoreInv, StateType, HolderRecords, Recording
<1>q. QED BY <1>1, AppendCore, WriteCore DEF Next, Step

LEMMA CoreInvariant == Spec => []CoreInv
  BY CoreStep, InitCoreInv, PTL DEF Spec

LEMMA InitFileInv == Init /\ "flush" \notin Faults => FileInv
<1>1. Init /\ "flush" \notin Faults => TempIsDocument /\ DiskAgrees
  BY DEF Init, TempIsDocument, DiskAgrees, Whole
<1>q. QED BY <1>1, InitCoreInv DEF FileInv

LEMMA FileStep ==
  ASSUME "flush" \notin Faults
  PROVE  FileInv /\ [Next]_vars => FileInv'
<1> SUFFICES ASSUME FileInv, [Next]_vars PROVE FileInv'
  OBVIOUS
<1>1. CoreInv'
  BY CoreStep DEF FileInv
<1>2. TempIsDocument' /\ DiskAgrees'
  <2>1. CASE UNCHANGED vars \/ Crash \/ Finished
    BY <2>1, IdleStep DEF FileInv, TempIsDocument, DiskAgrees
  <2>q. QED BY <2>1, AppendFile, WriteFile DEF Next, Step
<1>q. QED BY <1>1, <1>2 DEF FileInv

LEMMA FileInvariant ==
  ASSUME "flush" \notin Faults
  PROVE  Spec => []FileInv
  BY FileStep, InitFileInv, PTL DEF Spec

LEMMA InitNames == Init => NamesNumbered
  BY DEF Init, NamesNumbered, AutoNamesDistinct

(* A generated name takes a number no other has, and raises the counter.   *)
LEMMA NamesStep == CoreInv /\ NamesNumbered /\ [Next]_vars => NamesNumbered'
<1> SUFFICES ASSUME CoreInv, NamesNumbered, [Next]_vars PROVE NamesNumbered'
  OBVIOUS
<1>1. CASE UNCHANGED <<views, nextIndex>>
  BY <1>1 DEF NamesNumbered, AutoNamesDistinct
<1>2. ASSUME NEW c \in Calls, AppendView(c)
      PROVE  NamesNumbered'
  <2>1. PICK name \in Names, status \in {"success", "error"} :
           /\ views' = Append(views, ResolvedView(c, name, status))
           /\ nextIndex' = IndexAfter(name)
           /\ ResolvedView(c, name, status) \in View
    BY <1>2, AppendCore
  <2>2. /\ Len(views) \in Nat /\ Len(views') = Len(views) + 1
        /\ \A i \in 1 .. Len(views) : views'[i] = views[i]
        /\ views'[Len(views) + 1] = ResolvedView(c, name, status)
    BY <2>1 DEF CoreInv, StateType
  <2>3. nextIndex \in Nat \ {0} /\ nextIndex' \in {nextIndex, nextIndex + 1}
    BY <2>1 DEF CoreInv, StateType, IndexAfter
  <2>3a. \A n \in 1 .. nextIndex - 1 : n \in 1 .. nextIndex' - 1
    <3>1. CASE nextIndex' = nextIndex
      BY <2>3, <3>1
    <3>2. CASE nextIndex' = nextIndex + 1
      BY <2>3, <3>2
    <3>q. QED BY <2>3, <3>1, <3>2
  <2>4. IsAuto(views'[Len(views) + 1]) =>
          views'[Len(views) + 1].name = AutoName(nextIndex) /\ nextIndex' = nextIndex + 1
    <3>1. views'[Len(views) + 1].auto = (name = None)
      BY <2>2 DEF ResolvedView
    <3>2. name = None => views'[Len(views) + 1].name = AutoName(nextIndex)
      BY <2>2 DEF ResolvedView
    <3>q. QED BY <2>1, <3>1, <3>2 DEF IndexAfter, IsAuto
  <2>5. \A i \in 1 .. Len(views') : IsAuto(views'[i]) =>
           \E n \in 1 .. nextIndex' - 1 : views'[i].name = AutoName(n)
    <3> SUFFICES ASSUME NEW i \in 1 .. Len(views'), IsAuto(views'[i])
                 PROVE  \E n \in 1 .. nextIndex' - 1 : views'[i].name = AutoName(n)
      OBVIOUS
    <3>1. CASE i \in 1 .. Len(views)
      <4>1. PICK n \in 1 .. nextIndex - 1 : views[i].name = AutoName(n)
        BY <2>2, <3>1 DEF NamesNumbered
      <4>2. n \in 1 .. nextIndex' - 1
        BY <2>3a
      <4>q. QED BY <2>2, <3>1, <4>1, <4>2
    <3>2. CASE i = Len(views) + 1
      <4>1. nextIndex \in 1 .. nextIndex' - 1
        BY <2>3, <2>4, <3>2
      <4>q. QED BY <2>4, <3>2, <4>1
    <3>q. QED BY <2>2, <3>1, <3>2
  <2>6. ASSUME NEW i \in 1 .. Len(views), IsAuto(views[i]), IsAuto(views'[Len(views) + 1])
        PROVE  views[i].name # views'[Len(views) + 1].name
    <3>1. PICK n \in 1 .. nextIndex - 1 : views[i].name = AutoName(n)
      BY <2>6 DEF NamesNumbered
    <3>2. AutoName(n) # AutoName(nextIndex)
      BY <2>3 DEF AutoName
    <3>q. QED BY <2>4, <2>6, <3>1, <3>2
  <2>7. AutoNamesDistinct'
    <3> SUFFICES ASSUME NEW i \in 1 .. Len(views'), NEW j \in 1 .. Len(views'),
                        IsAuto(views'[i]), IsAuto(views'[j]),
                        views'[i].name = views'[j].name
                 PROVE  i = j
      BY DEF AutoNamesDistinct, IsAuto
    <3>1. CASE i \in 1 .. Len(views) /\ j \in 1 .. Len(views)
      BY <2>2, <3>1 DEF NamesNumbered, AutoNamesDistinct
    <3>2. CASE i = Len(views) + 1 /\ j \in 1 .. Len(views)
      BY <2>2, <2>6, <3>2
    <3>3. CASE i \in 1 .. Len(views) /\ j = Len(views) + 1
      BY <2>2, <2>6, <3>3
    <3>q. QED BY <2>2, <3>1, <3>2, <3>3
  <2>q. QED BY <2>5, <2>7 DEF NamesNumbered, IsAuto, AutoName
<1>3. ASSUME NEW c \in Calls, CreateTemp(c) \/ WriteTemp(c) \/ RenameTemp(c)
      PROVE  UNCHANGED <<views, nextIndex>>
  BY <1>3 DEF CreateTemp, WriteTemp, RenameTemp
<1>q. QED BY <1>1, <1>2, <1>3, IdleStep DEF Next, Step

LEMMA FileAcked == FileInv => AckedIsOnDisk
<1> SUFFICES ASSUME FileInv PROVE AckedIsOnDisk
  OBVIOUS
<1>1. disk.views \in Seq(View) /\ views \in Seq(View)
  BY DEF FileInv, CoreInv, StateType, Files
<1>2. SubSeq(disk.views, 1, Len(disk.views)) = SubSeq(views, 1, Len(disk.views))
  BY <1>1 DEF FileInv, DiskAgrees
<1>3. IsPrefix(disk.views, views)
  BY <1>1, <1>2 DEF FileInv, DiskAgrees, IsPrefix
<1>q. QED BY <1>3 DEF FileInv, DiskAgrees, AckedIsOnDisk

-----------------------------------------------------------------------------

(* The state of the recorder is always of its type.                        *)
THEOREM RecorderTypeOK == Spec => []TypeOK
<1>1. CoreInv => TypeOK
  BY DEF CoreInv, StateType, TypeOK, Files
<1>q. QED BY <1>1, CoreInvariant, PTL

(* No name is generated twice, whatever fails, flushes included.           *)
THEOREM GeneratedNamesDistinct == Spec => []AutoNamesDistinct
<1>1. NamesNumbered => AutoNamesDistinct
  BY DEF NamesNumbered
<1>q. QED BY <1>1, InitNames, NamesStep, CoreInvariant, PTL DEF Spec

(* session.json can be parsed at every moment, after a crash too, whatever *)
(* else fails, as long as no flush error is lost.                          *)
THEOREM SessionFileParses ==
  ASSUME "flush" \notin Faults
  PROVE  Spec => []FileParses
<1>1. FileInv => FileParses
  BY DEF FileInv, DiskAgrees, FileParses
<1>q. QED BY <1>1, FileInvariant, PTL

(* An acknowledged record is in the file with all that came before it, and *)
(* the file never tells another history than the session's own.            *)
THEOREM AcknowledgedRecordsSurvive ==
  ASSUME "flush" \notin Faults
  PROVE  Spec => []AckedIsOnDisk
  BY FileAcked, FileInvariant, PTL

-----------------------------------------------------------------------------
(* The calls of a driver.                                                  *)

CallTypes ==
    /\ handle \in {"some", "taken"}
    /\ work \in [Calls -> {"unborn", "running", "full", "refused", "ok", "err", "panic"}]
    /\ waits \in [Calls -> 0 .. MaxWaits]
    /\ reader \in [Calls -> {"none", "creating", "reading", "gone"}]
    /\ told \in [Calls -> {"pending", "ok", "err", "threw", "left", "died"}]
    /\ earlier \in [Calls -> SUBSET Calls]
    /\ late \in [Calls -> BOOLEAN]

(* Views are of calls that came to an end, and say how; a call has one.    *)
ViewsTell ==
    \A i \in 1 .. Len(views) :
        /\ pc[views[i].call] # "waiting"
        /\ work[views[i].call] \in {"ok", "err"}
        /\ views[i].status = StatusOf(views[i].call)
        /\ \A j \in 1 .. Len(views) : views[j].call = views[i].call => j = i

(* A call that has been in record() has a view.                            *)
ViewThere(c) == \E i \in 1 .. Len(views) : views[i].call = c
RecordedHaveViews == \A c \in Calls : pc[c] # "waiting" => ViewThere(c)

(* What the callers were told comes from their work and its record.        *)
ToldInv ==
    \A c \in Calls :
        /\ told[c] = "ok" => work[c] = "ok" /\ result[c] = "ok"
        /\ told[c] = "err" =>
              /\ work[c] \in {"ok", "err"} /\ result[c] # "pending"
              /\ work[c] = "ok" => result[c] = "err"
        /\ told[c] = "died" => work[c] = "panic"
        /\ reader[c] = "creating" => told[c] = "pending"
        /\ work[c] = "unborn" => told[c] = "pending" /\ reader[c] = "none"

LateInv ==
    \A c \in Calls :
        /\ late[c] => handle = "taken" /\ work[c] \in {"err", "refused"}
        /\ \A d \in earlier[c] : told[d] \in {"ok", "err"}

HonestInv == CallTypes /\ CoreInv /\ ViewsTell /\ RecordedHaveViews /\ ToldInv /\ LateInv

-----------------------------------------------------------------------------

(* What a call and its reader do outside record().                         *)
StreamAction(c) == StreamCreated(c) \/ Leave(c) \/ TakeBatch(c) \/ SendRefused(c)
CallAction(c) == Begin(c) \/ StreamAction(c) \/ Work(c) \/ WorkPanics(c) \/ Answer(c)

LEMMA OutsideKeeps ==
  ASSUME NEW c \in Calls, CallAction(c)
  PROVE  UNCHANGED vars
  BY DEF CallAction, StreamAction, Begin, StreamCreated, Leave, TakeBatch, SendRefused, Work,
         WorkPanics, Answer

(* Whatever the calls do, the session takes a step of its own or none.     *)
LEMMA SessionSteps == [DriverNext]_allVars => [Next]_vars
<1> SUFFICES ASSUME [DriverNext]_allVars PROVE [Next]_vars
  OBVIOUS
<1>1. ASSUME NEW c \in Calls, CallAction(c) \/ RecordStep(c) PROVE [Next]_vars
  <2>1. CASE CallAction(c)
    BY <2>1, OutsideKeeps
  <2>2. CASE RecordStep(c)
    BY <2>2 DEF RecordStep, Next
  <2>q. QED BY <1>1, <2>1, <2>2
<1>2. (Close \/ (Crash /\ UNCHANGED callVars) \/ Idle \/ UNCHANGED allVars) => [Next]_vars
  BY DEF Close, Crash, Idle, allVars, Next
<1>q. QED BY <1>1, <1>2 DEF DriverNext, CallStep, ReadStep, CallAction, StreamAction

LEMMA InitHonestInv == DriverInit => HonestInv
<1> SUFFICES ASSUME DriverInit PROVE HonestInv
  OBVIOUS
<1>1. CallTypes /\ ToldInv /\ LateInv
  BY WaitAssumption DEF WaitAssumption, DriverInit, CallTypes, ToldInv, LateInv
<1>2. ViewsTell /\ RecordedHaveViews
  BY DEF DriverInit, Init, ViewsTell, RecordedHaveViews
<1>q. QED BY <1>1, <1>2, InitCoreInv DEF HonestInv, DriverInit

LEMMA ViewCalls ==
  ASSUME CoreInv
  PROVE  \A i \in 1 .. Len(views) : views[i].call \in Calls
<1>1. \A i \in 1 .. Len(views) : views[i] \in View
  BY DEF CoreInv, StateType
<1>q. QED BY <1>1 DEF View

(* A step of the calls outside record().                                   *)
LEMMA OutsideStep ==
  ASSUME HonestInv, NEW c \in Calls, CallAction(c)
  PROVE  CallTypes' /\ ViewsTell' /\ RecordedHaveViews' /\ ToldInv' /\ LateInv'
<1> USE DEF HonestInv
<1>0. UNCHANGED vars
  BY OutsideKeeps
<1>1. CallTypes'
  <2>1. CASE Begin(c)
    <3>1. {d \in Calls : told[d] \in {"ok", "err"}} \in SUBSET Calls
          /\ (handle = "taken") \in BOOLEAN
      OBVIOUS
    <3>2. earlier' \in [Calls -> SUBSET Calls] /\ late' \in [Calls -> BOOLEAN]
      BY <2>1, <3>1 DEF Begin, CallTypes
    <3>q. QED BY <2>1, <3>2 DEF Begin, CallTypes
  <2>2. CASE Work(c)
    <3>1. waits' \in [Calls -> 0 .. MaxWaits]
      BY <2>2, WaitAssumption DEF Work, CallTypes, WaitAssumption
    <3>q. QED BY <2>2, <3>1 DEF Work, CallTypes
  <2>3. CASE WorkPanics(c)
    BY <2>3 DEF WorkPanics, CallTypes
  <2>4. CASE Answer(c)
    <3>1. Verdict(c) \in {"ok", "err", "died"}
      BY DEF Verdict
    <3>q. QED BY <2>4, <3>1 DEF Answer, CallTypes
  <2>5. CASE StreamAction(c)
    BY <2>5 DEF StreamAction, StreamCreated, Leave, TakeBatch, SendRefused, CallTypes
  <2>q. QED BY <2>1, <2>2, <2>3, <2>4, <2>5 DEF CallAction
<1>2. \A d \in Calls : work[d] \in {"ok", "err", "panic", "refused"} => work'[d] = work[d]
  <2>1. \/ UNCHANGED work
        \/ /\ work[c] \in {"unborn", "running", "full"}
           /\ \E w \in {"running", "err", "refused", "ok", "full", "panic"} :
                 work' = [work EXCEPT ![c] = w]
    BY DEF CallAction, StreamAction, Begin, StreamCreated, Leave, TakeBatch, SendRefused, Work,
           WorkPanics, Answer
  <2>q. QED BY <2>1 DEF CallTypes
<1>3. ViewsTell'
  BY <1>0, <1>2, ViewCalls DEF ViewsTell, StatusOf, vars
<1>4. RecordedHaveViews'
  BY <1>0 DEF RecordedHaveViews, ViewThere, vars
<1>5. ToldInv'
  <2>1. CASE Begin(c)
    <3>1. /\ work'[c] # "unborn" /\ told'[c] \in {told[c], "threw"}
          /\ reader'[c] = "creating" => told'[c] = told[c]
          /\ \A d \in Calls : d # c => /\ told'[d] = told[d] /\ reader'[d] = reader[d]
                                       /\ work'[d] = work[d]
      BY <2>1 DEF Begin, CallTypes, ToldInv
    <3>2. work[c] = "unborn"
      BY <2>1 DEF Begin
    <3>q. QED BY <1>0, <3>1, <3>2 DEF ToldInv, vars
  <2>2. CASE Work(c) \/ WorkPanics(c)
    <3>1. /\ told' = told /\ reader' = reader
          /\ \A d \in Calls : work'[d] = "unborn" => work[d] = "unborn"
      BY <2>2 DEF Work, WorkPanics, CallTypes
    <3>q. QED BY <1>0, <1>2, <3>1 DEF ToldInv, CallTypes, vars
  <2>3. CASE StreamAction(c)
    <3>1. \A d \in Calls :
             /\ told'[d] = told[d] \/ told'[d] \in {"threw", "left"}
             /\ reader'[d] = "creating" => reader[d] = "creating" /\ told'[d] = told[d]
      BY <2>3 DEF StreamAction, StreamCreated, Leave, TakeBatch, SendRefused, CallTypes
    <3>2. \A d \in Calls : work'[d] = "unborn" =>
             work[d] = "unborn" /\ told'[d] = told[d] /\ reader'[d] = reader[d]
      BY <2>3 DEF StreamAction, StreamCreated, Leave, TakeBatch, SendRefused, CallTypes, ToldInv
    <3>q. QED BY <1>0, <1>2, <3>1, <3>2 DEF ToldInv, CallTypes, vars
  <2>4. CASE Answer(c)
    <3>1. result[c] # "pending" => work[c] \in {"ok", "err"} /\ result[c] \in {"ok", "err"}
      <4> HAVE result[c] # "pending"
      <4>1. pc[c] # "waiting" /\ result[c] \in {"ok", "err"}
        BY DEF CoreInv, StateType, HolderRecords
      <4>2. ViewThere(c)
        BY <4>1 DEF RecordedHaveViews
      <4>q. QED BY <4>1, <4>2 DEF ViewThere, ViewsTell
    <3>2. /\ Verdict(c) = "died" => work[c] = "panic"
          /\ Verdict(c) = "ok" => work[c] = "ok" /\ result[c] = "ok"
          /\ Verdict(c) = "err" =>
                /\ work[c] \in {"ok", "err"} /\ result[c] # "pending"
                /\ work[c] = "ok" => result[c] = "err"
      BY <2>4, <3>1 DEF Answer, Verdict
    <3>3. /\ told'[c] = Verdict(c) /\ UNCHANGED <<work, result, reader>>
          /\ reader[c] # "creating"
          /\ \A d \in Calls : d # c => told'[d] = told[d]
      BY <1>0, <2>4 DEF Answer, Listening, CallTypes, vars
    <3>4. work[c] # "unborn"
      BY <2>4, <3>1 DEF Answer
    <3>q. QED BY <3>2, <3>3, <3>4 DEF ToldInv
  <2>q. QED BY <2>1, <2>2, <2>3, <2>4 DEF CallAction
<1>6. LateInv'
  <2>1. \A d \in Calls : told[d] \in {"ok", "err"} => told'[d] = told[d]
    <3>1. ASSUME NEW d \in Calls, told[d] \in {"ok", "err"} PROVE told'[d] = told[d]
      <4>1. CASE d # c \/ Work(c) \/ WorkPanics(c) \/ Answer(c) \/ Leave(c) \/ TakeBatch(c)
                 \/ SendRefused(c)
        BY <3>1, <4>1 DEF CallAction, StreamAction, Begin, StreamCreated, Leave, TakeBatch,
           SendRefused, Work, WorkPanics, Answer, Listening, CallTypes
      <4>2. CASE d = c /\ (Begin(c) \/ StreamCreated(c))
        BY <3>1, <4>2 DEF Begin, StreamCreated, ToldInv
      <4>q. QED BY <4>1, <4>2 DEF CallAction, StreamAction
    <3>q. QED BY <3>1
  <2>2. CASE Begin(c)
    BY <2>1, <2>2 DEF LateInv, CallTypes, Begin, ClientThere
  <2>3. CASE ~Begin(c)
    <3>1. UNCHANGED <<handle, earlier, late>>
      BY <2>3 DEF CallAction, StreamAction, StreamCreated, Leave, TakeBatch, SendRefused, Work,
         WorkPanics, Answer
    <3>q. QED BY <1>2, <2>1, <3>1 DEF LateInv, CallTypes
  <2>q. QED BY <2>2, <2>3
<1>q. QED BY <1>1, <1>3, <1>4, <1>5, <1>6

(* A step of record(): the view it appends is the first of its call.       *)
LEMMA RecordingStep ==
  ASSUME HonestInv, NEW c \in Calls, RecordStep(c)
  PROVE  CallTypes' /\ ViewsTell' /\ RecordedHaveViews' /\ ToldInv' /\ LateInv'
<1> USE DEF HonestInv
<1>1. UNCHANGED callVars /\ work[c] \in {"ok", "err"} /\ Step(c)
      /\ (pc[c] = "waiting" => views'[Len(views')].status = StatusOf(c))
  BY DEF RecordStep
<1>2. CallTypes' /\ LateInv'
  BY <1>1 DEF CallTypes, LateInv, callVars
<1>3. CASE AppendView(c)
  <2>1. /\ pc[c] = "waiting" /\ pc' = [pc EXCEPT ![c] = "create"] /\ UNCHANGED result
    BY <1>3 DEF AppendView
  <2>2. PICK name \in Names, status \in {"success", "error"} :
           /\ views' = Append(views, ResolvedView(c, name, status))
           /\ ResolvedView(c, name, status) \in View
    BY <1>3, AppendCore
  <2>3. /\ Len(views) \in Nat /\ Len(views') = Len(views) + 1
        /\ \A i \in 1 .. Len(views) : views'[i] = views[i]
        /\ views'[Len(views) + 1].call = c
    BY <2>2 DEF CoreInv, StateType, ResolvedView
  <2>4. views'[Len(views) + 1].status = StatusOf(c)
    BY <1>1, <2>1, <2>3
  <2>5. \A d \in Calls : pc[d] # "waiting" => pc'[d] # "waiting"
    BY <2>1 DEF CoreInv, StateType
  <2>6. pc'[c] # "waiting"
    BY <2>1 DEF CoreInv, StateType
  <2>7. ViewsTell'
    <3> SUFFICES ASSUME NEW i \in 1 .. Len(views')
                 PROVE  /\ pc'[views'[i].call] # "waiting"
                        /\ work[views'[i].call] \in {"ok", "err"}
                        /\ views'[i].status = StatusOf(views'[i].call)
                        /\ \A j \in 1 .. Len(views') : views'[j].call = views'[i].call => j = i
      BY <1>1 DEF ViewsTell, StatusOf, callVars
    <3>0. \A j \in 1 .. Len(views) : views[j].call # c
      BY <2>1 DEF ViewsTell
    <3>1. CASE i \in 1 .. Len(views)
      <4>1. \A j \in 1 .. Len(views') : views'[j].call = views'[i].call => j = i
        BY <2>3, <3>0, <3>1 DEF ViewsTell
      <4>q. QED BY <2>3, <2>5, <3>1, <4>1, ViewCalls DEF ViewsTell
    <3>2. CASE i = Len(views) + 1
      <4>1. \A j \in 1 .. Len(views') : views'[j].call = views'[i].call => j = i
        BY <2>3, <3>0, <3>2
      <4>q. QED BY <1>1, <2>3, <2>4, <2>6, <3>2, <4>1
    <3>q. QED BY <2>3, <3>1, <3>2
  <2>8. RecordedHaveViews'
    <3>1. ASSUME NEW d \in Calls, pc'[d] # "waiting" PROVE ViewThere(d)'
      <4>1. CASE d = c
        BY <2>3, <4>1 DEF ViewThere
      <4>2. CASE d # c
        <5>1. pc[d] # "waiting"
          BY <2>1, <3>1, <4>2 DEF CoreInv, StateType
        <5>2. PICK i \in 1 .. Len(views) : views[i].call = d
          BY <5>1 DEF RecordedHaveViews, ViewThere
        <5>q. QED BY <2>3, <5>2 DEF ViewThere
      <4>q. QED BY <4>1, <4>2
    <3>q. QED BY <3>1 DEF RecordedHaveViews
  <2>9. ToldInv'
    BY <1>1, <2>1 DEF ToldInv, callVars
  <2>q. QED BY <1>2, <2>7, <2>8, <2>9
<1>4. CASE CreateTemp(c) \/ WriteTemp(c) \/ RenameTemp(c)
  <2>1. UNCHANGED views /\ pc[c] \in {"create", "write", "rename"} /\ result[c] = "pending"
    BY <1>4 DEF CreateTemp, WriteTemp, RenameTemp, CoreInv, HolderRecords
  <2>2. \A d \in Calls : /\ pc'[d] # "waiting" <=> pc[d] # "waiting"
                         /\ d # c => result'[d] = result[d]
    BY <1>4, <2>1 DEF CreateTemp, WriteTemp, RenameTemp, GoTo, Return, CoreInv, StateType
  <2>3. ViewsTell'
    BY <1>1, <2>1, <2>2, ViewCalls DEF ViewsTell, StatusOf, callVars
  <2>4. RecordedHaveViews'
    BY <2>1, <2>2 DEF RecordedHaveViews, ViewThere
  <2>5. told[c] \notin {"ok", "err"}
    BY <2>1 DEF ToldInv
  <2>6. ToldInv'
    BY <1>1, <2>2, <2>5 DEF ToldInv, callVars
  <2>q. QED BY <1>2, <2>3, <2>4, <2>6
<1>q. QED BY <1>1, <1>3, <1>4 DEF Step

LEMMA HonestStep == HonestInv /\ [DriverNext]_allVars => HonestInv'
<1> SUFFICES ASSUME HonestInv, [DriverNext]_allVars PROVE HonestInv'
  OBVIOUS
<1>1. CoreInv'
  BY SessionSteps, CoreStep DEF HonestInv
<1>2. CallTypes' /\ ViewsTell' /\ RecordedHaveViews' /\ ToldInv' /\ LateInv'
  <2>1. ASSUME NEW c \in Calls, CallAction(c)
        PROVE  CallTypes' /\ ViewsTell' /\ RecordedHaveViews' /\ ToldInv' /\ LateInv'
    BY <2>1, OutsideStep
  <2>2. CASE Close
    <3>1. UNCHANGED <<views, pc, result, work, waits, reader, told, earlier, late>>
          /\ handle' = "taken"
      BY <2>2 DEF Close, vars
    <3>q. QED BY <3>1 DEF HonestInv, CallTypes, ViewsTell, RecordedHaveViews, ViewThere,
                 ToldInv, LateInv, StatusOf
  <2>3. CASE (Crash /\ UNCHANGED callVars) \/ Idle \/ UNCHANGED allVars
    <3>1. UNCHANGED <<views, pc, result, callVars>>
      BY <2>3 DEF Crash, Idle, allVars, vars
    <3>q. QED BY <3>1 DEF HonestInv, CallTypes, ViewsTell, RecordedHaveViews, ViewThere,
                 ToldInv, LateInv, StatusOf, callVars
  <2>q. QED BY <2>1, <2>2, <2>3, RecordingStep
              DEF DriverNext, CallStep, ReadStep, CallAction, StreamAction
<1>q. QED BY <1>1, <1>2 DEF HonestInv

THEOREM HonestInvariant == DriverSpec => []HonestInv
  BY InitHonestInv, HonestStep, PTL DEF DriverSpec

-----------------------------------------------------------------------------

(* The session of a driver keeps what a session of its own keeps.          *)
THEOREM DriverTypeOK == DriverSpec => []CallTypeOK
<1>1. HonestInv => CallTypeOK
  BY DEF HonestInv, CallTypes, CallTypeOK, CoreInv, StateType, TypeOK, Files
<1>q. QED BY <1>1, HonestInvariant, PTL

THEOREM DriverNamesDistinct == DriverSpec => []AutoNamesDistinct
<1>1. DriverInit => Init
  BY DEF DriverInit
<1>2. NamesNumbered => AutoNamesDistinct
  BY DEF NamesNumbered
<1>3. HonestInv => CoreInv
  BY DEF HonestInv
<1>q. QED BY <1>1, <1>2, <1>3, HonestInvariant, SessionSteps, InitNames, NamesStep, PTL
         DEF DriverSpec

LEMMA DriverFileInvariant ==
  ASSUME "flush" \notin Faults
  PROVE  DriverSpec => []FileInv
<1>1. DriverInit => FileInv
  BY InitFileInv DEF DriverInit
<1>q. QED BY <1>1, SessionSteps, FileStep, PTL DEF DriverSpec

(* The session file can be parsed at every moment, also after a crash.     *)
THEOREM DriverFileParses ==
  ASSUME "flush" \notin Faults
  PROVE  DriverSpec => []FileParses
<1>1. FileInv => FileParses
  BY DEF FileInv, DiskAgrees, FileParses
<1>q. QED BY <1>1, DriverFileInvariant, PTL

(* What was acknowledged is in it, with all that came before.              *)
THEOREM DriverAckedIsOnDisk ==
  ASSUME "flush" \notin Faults
  PROVE  DriverSpec => []AckedIsOnDisk
  BY FileAcked, DriverFileInvariant, PTL

(* Callers and session file tell the same story, for any number of calls,  *)
(* across close and a crash, and whatever record fails.                    *)
THEOREM SessionHonest ==
  ASSUME "flush" \notin Faults
  PROVE  DriverSpec => []SessionIsHonest
<1>1. HonestInv /\ FileInv => SessionIsHonest
  <2> SUFFICES ASSUME HonestInv, FileInv, NEW c \in Calls
               PROVE  LET mine == {i \in 1 .. Len(views) : views[i].call = c}
                          says(status) == \E i \in mine : views[i].status = status
                      IN  /\ told[c] = "ok" => \E i \in mine :
                                i <= Len(disk.views) /\ disk.views[i] = views[i]
                                /\ views[i].status = "success"
                          /\ told[c] = "err" =>
                                says("error") \/ (says("success") /\ result[c] = "err")
                          /\ told[c] = "died" \/ work[c] = "refused" => mine = {}
                          /\ result[c] # "pending" =>
                                \E i \in mine : mine = {i} /\ views[i].status = StatusOf(c)
                          /\ late[c] => told[c] # "ok" /\ ~says("success")
    BY DEF SessionIsHonest
  <2> DEFINE mine == {i \in 1 .. Len(views) : views[i].call = c}
  <2>1. \A i \in mine : views[i].status = StatusOf(c) /\ work[c] \in {"ok", "err"}
    BY DEF HonestInv, ViewsTell
  <2>2. ASSUME result[c] # "pending" PROVE \E i \in mine : views[i].status = StatusOf(c)
    <3>1. pc[c] # "waiting"
      BY <2>2 DEF HonestInv, CoreInv, HolderRecords
    <3>q. QED BY <2>1, <3>1 DEF HonestInv, RecordedHaveViews, ViewThere
  <2>3. ASSUME told[c] = "ok"
        PROVE  \E i \in mine : i <= Len(disk.views) /\ disk.views[i] = views[i]
                               /\ views[i].status = "success"
    <3>1. work[c] = "ok" /\ result[c] = "ok"
      BY <2>3 DEF HonestInv, ToldInv
    <3>2. PICK i \in mine : views[i].status = "success"
      BY <2>2, <3>1 DEF StatusOf
    <3>3. i <= Len(disk.views) /\ Len(disk.views) \in Nat
      BY <3>1 DEF FileInv, DiskAgrees, CoreInv, StateType, Files
    <3>4. disk.views[i] = views[i]
      BY <3>3 DEF FileInv, DiskAgrees
    <3>q. QED BY <3>2, <3>3, <3>4
  <2>4. ASSUME told[c] = "err"
        PROVE  \/ \E i \in mine : views[i].status = "error"
               \/ (\E i \in mine : views[i].status = "success") /\ result[c] = "err"
    BY <2>2, <2>4 DEF HonestInv, ToldInv, StatusOf
  <2>5. ASSUME told[c] = "died" \/ work[c] = "refused" PROVE mine = {}
    BY <2>1, <2>5 DEF HonestInv, ToldInv
  <2>7. ASSUME result[c] # "pending"
        PROVE  \E i \in mine : mine = {i} /\ views[i].status = StatusOf(c)
    <3>1. PICK i \in mine : views[i].status = StatusOf(c)
      BY <2>2, <2>7
    <3>2. mine = {i}
      BY <3>1 DEF HonestInv, ViewsTell
    <3>q. QED BY <3>1, <3>2
  <2>6. ASSUME late[c]
        PROVE  told[c] # "ok" /\ ~(\E i \in mine : views[i].status = "success")
    BY <2>1, <2>6 DEF HonestInv, LateInv, ToldInv, StatusOf
  <2>q. QED BY <2>3, <2>4, <2>5, <2>6, <2>7
<1>q. QED BY <1>1, HonestInvariant, DriverFileInvariant, PTL

(* The session lists calls in an order in which they may have happened.    *)
THEOREM SessionInRealTime == DriverSpec => []RealTimeOrder
<1>1. DriverInit => RealTimeOrder
  BY DEF DriverInit, Init, RealTimeOrder
<1>2. HonestInv /\ RealTimeOrder /\ [DriverNext]_allVars => RealTimeOrder'
  <2> SUFFICES ASSUME HonestInv, RealTimeOrder, [DriverNext]_allVars PROVE RealTimeOrder'
    OBVIOUS
  <2> USE DEF HonestInv
  <2>1. ASSUME NEW c \in Calls, Begin(c) PROVE RealTimeOrder'
    <3>1. \A i \in 1 .. Len(views) : views[i].call # c /\ views[i].call \in Calls
      BY <2>1, ViewCalls DEF ViewsTell, Begin
    <3>2. \A d \in Calls : d # c => earlier'[d] = earlier[d]
      BY <2>1 DEF Begin, CallTypes
    <3>q. QED BY <2>1, <3>1, <3>2 DEF RealTimeOrder, Begin, vars
  <2>2. ASSUME NEW c \in Calls, RecordStep(c), AppendView(c) PROVE RealTimeOrder'
    <3>1. PICK name \in Names, status \in {"success", "error"} :
             /\ views' = Append(views, ResolvedView(c, name, status))
             /\ ResolvedView(c, name, status) \in View
      BY <2>2, AppendCore
    <3>2. /\ Len(views) \in Nat /\ Len(views') = Len(views) + 1
          /\ \A i \in 1 .. Len(views) : views'[i] = views[i]
          /\ views'[Len(views) + 1].call = c
      BY <3>1 DEF CoreInv, StateType, ResolvedView
    <3>3. told[c] \notin {"ok", "err"}
      <4>1. result[c] = "pending"
        BY <2>2 DEF AppendView, CoreInv, HolderRecords
      <4>q. QED BY <4>1 DEF ToldInv
    <3>4. \A d \in Calls : c \notin earlier[d]
      BY <3>3 DEF LateInv
    <3>5. \A i \in 1 .. Len(views') : views'[i].call \in Calls
      BY <3>2, ViewCalls
    <3>6. ASSUME NEW i \in 1 .. Len(views'), NEW j \in 1 .. Len(views'),
                 views'[j].call \in earlier[views'[i].call]
          PROVE  j < i
      <4>1. j # Len(views) + 1
        BY <3>2, <3>4, <3>5, <3>6
      <4>2. CASE i \in 1 .. Len(views)
        BY <3>2, <3>6, <4>1, <4>2 DEF RealTimeOrder
      <4>3. CASE i = Len(views) + 1
        BY <3>2, <4>1, <4>3
      <4>q. QED BY <3>2, <4>2, <4>3
    <3>q. QED BY <2>2, <3>6 DEF RealTimeOrder, RecordStep, callVars
  <2>3. CASE UNCHANGED <<views, earlier>>
    BY <2>3 DEF RealTimeOrder
  <2>4. ASSUME NEW c \in Calls, StreamAction(c) \/ Work(c) \/ WorkPanics(c) \/ Answer(c)
        PROVE  UNCHANGED <<views, earlier>>
    BY <2>4 DEF StreamAction, StreamCreated, Leave, TakeBatch, SendRefused, Work, WorkPanics,
       Answer, vars
  <2>5. ASSUME NEW c \in Calls, RecordStep(c), CreateTemp(c) \/ WriteTemp(c) \/ RenameTemp(c)
        PROVE  UNCHANGED <<views, earlier>>
    BY <2>5 DEF RecordStep, CreateTemp, WriteTemp, RenameTemp, callVars
  <2>6. ASSUME Close \/ (Crash /\ UNCHANGED callVars) \/ Idle \/ UNCHANGED allVars
        PROVE  UNCHANGED <<views, earlier>>
    BY <2>6 DEF Close, Crash, Idle, allVars, vars, callVars
  <2>7. ASSUME NEW c \in Calls, RecordStep(c) PROVE RealTimeOrder'
    BY <2>2, <2>3, <2>5, <2>7 DEF RecordStep, Step
  <2>q. QED BY <2>1, <2>3, <2>4, <2>6, <2>7 DEF DriverNext, CallStep, ReadStep, StreamAction
<1>q. QED BY <1>1, <1>2, HonestInvariant, PTL DEF DriverSpec

-----------------------------------------------------------------------------
(* Nobody leaves the session locked.                                       *)

LockInv ==
    /\ holder # None => Recording(holder)
    /\ \A c \in Calls : pc[c] = "done" => result[c] # "pending"
    /\ \A c \in Calls : /\ work[c] = "refused" \/ reader[c] = "gone" => told[c] # "pending"
                        /\ work[c] = "full" => reader[c] # "none"

LEMMA InitLockInv == DriverInit => LockInv
  BY DEF DriverInit, Init, LockInv

(* A step of record() keeps the mutex with the call until it returns.      *)
LEMMA LockedStep ==
  ASSUME HonestInv, LockInv, NEW c \in Calls, RecordStep(c)
  PROVE  LockInv'
<1>1. UNCHANGED <<work, told, reader>>
  BY DEF RecordStep, callVars
<1>2. /\ pc \in [Calls -> {"waiting", "create", "write", "rename", "done"}]
      /\ result \in [Calls -> {"pending", "ok", "err"}]
  BY DEF HonestInv, CoreInv, StateType
<1>3. c # None
  BY RecorderAssumption DEF RecorderAssumption
<1>4. CASE AppendView(c)
  <2>1. holder' = c /\ pc' = [pc EXCEPT ![c] = "create"] /\ result' = result
    BY <1>4 DEF AppendView, HolderWhileWriting
  <2>q. QED BY <2>1, <1>1, <1>2 DEF LockInv, Recording
<1>5. CASE CreateTemp(c) \/ WriteTemp(c) \/ RenameTemp(c)
  <2>1. Recording(c) /\ holder = c
    BY <1>5 DEF CreateTemp, WriteTemp, RenameTemp, Recording, HonestInv, CoreInv, HolderRecords
  <2>2. \/ \E answer \in {"ok", "err"} : Return(c, answer)
        \/ \E label \in {"write", "rename"} : GoTo(c, label)
    BY <1>5 DEF CreateTemp, WriteTemp, RenameTemp
  <2>3. ASSUME NEW answer \in {"ok", "err"}, Return(c, answer) PROVE LockInv'
    BY <2>3, <1>1, <1>2 DEF Return, LockInv
  <2>4. ASSUME NEW label \in {"write", "rename"}, GoTo(c, label) PROVE LockInv'
    BY <2>1, <2>4, <1>1, <1>2 DEF GoTo, LockInv, Recording
  <2>q. QED BY <2>2, <2>3, <2>4
<1>q. QED BY <1>4, <1>5 DEF RecordStep, Step

LEMMA LockStep == HonestInv /\ LockInv /\ [DriverNext]_allVars => LockInv'
<1> SUFFICES ASSUME HonestInv, LockInv, [DriverNext]_allVars PROVE LockInv'
  OBVIOUS
<1>1. /\ work \in [Calls -> {"unborn", "running", "full", "refused", "ok", "err", "panic"}]
      /\ reader \in [Calls -> {"none", "creating", "reading", "gone"}]
      /\ told \in [Calls -> {"pending", "ok", "err", "threw", "left", "died"}]
  BY DEF HonestInv, CallTypes
<1>2. ASSUME NEW c \in Calls, CallAction(c) PROVE LockInv'
  <2>1. UNCHANGED <<holder, pc, result>>
    BY <1>2, OutsideKeeps DEF vars
  <2>2. CASE Begin(c)
    <3>1. reader[c] = "none" /\ told[c] = "pending"
      BY <2>2 DEF Begin, HonestInv, ToldInv
    <3>q. QED BY <2>1, <2>2, <3>1, <1>1 DEF Begin, LockInv, Recording
  <2>3. CASE Work(c)
    BY <2>1, <2>3, <1>1 DEF Work, LockInv, Recording
  <2>4. CASE WorkPanics(c)
    BY <2>1, <2>4, <1>1 DEF WorkPanics, LockInv, Recording
  <2>5. CASE Answer(c)
    <3>1. Verdict(c) # "pending"
      BY DEF Verdict
    <3>q. QED BY <2>1, <2>5, <3>1, <1>1 DEF Answer, LockInv, Recording
  <2>6. CASE StreamCreated(c) \/ Leave(c)
    BY <2>1, <2>6, <1>1 DEF StreamCreated, Leave, LockInv, Recording
  <2>7. CASE TakeBatch(c) \/ SendRefused(c)
    BY <2>1, <2>7, <1>1 DEF TakeBatch, SendRefused, LockInv, Recording
  <2>q. QED BY <1>2, <2>2, <2>3, <2>4, <2>5, <2>6, <2>7 DEF CallAction, StreamAction
<1>3. CASE Close \/ (Crash /\ UNCHANGED callVars) \/ Idle \/ UNCHANGED allVars
  BY <1>3 DEF Close, Crash, Idle, allVars, vars, callVars, LockInv, Recording
<1>q. QED BY <1>2, <1>3, LockedStep DEF DriverNext, CallStep, ReadStep, CallAction, StreamAction

LEMMA LockInvariant == DriverSpec => []LockInv
  BY HonestInvariant, InitLockInv, LockStep, PTL DEF DriverSpec

(* A call that was not told yet can go on, or waits for one that can: for  *)
(* any number of calls and any faults the mutex is never left locked.      *)
THEOREM CallsNeverStuck == DriverSpec => []NobodyStuck
<1>1. HonestInv /\ LockInv => NobodyStuck
  <2> SUFFICES ASSUME HonestInv, LockInv, NEW c \in Calls,
                      work[c] # "unborn", told[c] = "pending"
               PROVE  \/ work[c] = "running" \/ MidRecord(c)
                      \/ work[c] = "full" /\ reader[c] \in {"creating", "reading"}
                      \/ result[c] # "pending" \/ work[c] = "panic"
                      \/ /\ work[c] \in {"ok", "err"} /\ pc[c] = "waiting"
                         /\ holder = None \/ MidRecord(holder)
    BY DEF NobodyStuck
  <2>1. ASSUME NEW d \in Calls, Recording(d) PROVE MidRecord(d)
    BY <2>1 DEF Recording, MidRecord, HonestInv, RecordedHaveViews, ViewThere, ViewsTell
  <2>2. /\ work[c] \in {"running", "full", "ok", "err", "panic"}
        /\ work[c] = "full" => reader[c] \in {"creating", "reading"}
    BY DEF HonestInv, CallTypes, LockInv
  <2>3. pc[c] \in {"waiting", "create", "write", "rename", "done"}
        /\ holder \in Calls \union {None}
    BY DEF HonestInv, CoreInv, StateType
  <2>4. holder = None \/ MidRecord(holder)
    BY <2>1, <2>3 DEF LockInv
  <2>q. QED BY <2>2, <2>3, <2>4 DEF LockInv, MidRecord
<1>q. QED BY <1>1, HonestInvariant, LockInvariant, PTL
=============================================================================
