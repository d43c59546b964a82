--------------------------- MODULE SessionRecorder --------------------------
(***************************************************************************)
(* The session of a driver (src/session.rs): the list of the calls made    *)
(* through it, kept in memory under a mutex and rewritten to session.json  *)
(* through a temporary file on every record.  Callers are the tasks and    *)
(* threads of the driver; the process may die between any two steps.       *)
(***************************************************************************)
EXTENDS Naturals, SequencesExt

CONSTANTS
    Calls,      \* calls that get recorded, each by a thread of its own
    Names,      \* what callers pass as view_name: names, or None
    None,       \* no view name, or one that is blank after trim
    Faults      \* the file operations that may fail in a configuration

ASSUME RecorderAssumption ==
    /\ Faults \subseteq {"create", "write", "flush", "rename", "crash"}
    /\ None \notin Calls

VARIABLES
    views,      \* document.views
    nextIndex,  \* next_view_index
    holder,     \* the call holding the mutex, or None
    temp,       \* session.json.tmp
    disk,       \* session.json
    pc,         \* control point of each call's record()
    result,     \* what record() returned to each call
    alive       \* the process runs

vars == <<views, nextIndex, holder, temp, disk, pc, result, alive>>

-----------------------------------------------------------------------------

(* A file: the document it was written from, and whether all of it arrived. *)
Whole(doc) == [views |-> doc, whole |-> TRUE]
Torn == [views |-> << >>, whole |-> FALSE]

AutoName(n) == <<"view", n>>
IsAuto(v) == v.auto

FirstIndex == 1

(* new() writes the empty document before any call can be recorded; its    *)
(* last buffer may be lost like that of any later write.                   *)
Init ==
    /\ views = << >>
    /\ nextIndex = FirstIndex
    /\ holder = None
    /\ temp = Torn
    /\ disk \in {Whole(<< >>)} \union (IF "flush" \in Faults THEN {Torn} ELSE {})
    /\ pc = [c \in Calls |-> "waiting"]
    /\ result = [c \in Calls |-> "pending"]
    /\ alive = TRUE

-----------------------------------------------------------------------------

(* resolve_view_name: a given name is taken as it is, else view_<n>.       *)
ResolvedView(c, name, status) ==
    [call |-> c,
     name |-> IF name = None THEN AutoName(nextIndex) ELSE name,
     auto |-> name = None,
     status |-> status]

(* Faulty variant: the counter follows the named views instead.            *)
IndexAfterNamed(name) == IF name = None THEN nextIndex ELSE nextIndex + 1
IndexAfter(name) == IF name = None THEN nextIndex + 1 ELSE nextIndex

(* Faulty variant: the guard is dropped before the file is written.        *)
HolderReleasedEarly(c) == None
(* The guard is held from the lookup of the name to the end of the write.  *)
HolderWhileWriting(c) == c

(* Lock the mutex, name the view and push it.                              *)
AppendView(c) ==
    /\ alive /\ pc[c] = "waiting" /\ holder = None
    /\ \E name \in Names, status \in {"success", "error"} :
          /\ views' = Append(views, ResolvedView(c, name, status))
          /\ nextIndex' = IndexAfter(name)
    /\ holder' = HolderWhileWriting(c)
    /\ pc' = [pc EXCEPT ![c] = "create"]
    /\ UNCHANGED <<temp, disk, result, alive>>

(* record() returns; the guard is dropped.                                 *)
Return(c, answer) ==
    /\ result' = [result EXCEPT ![c] = answer]
    /\ pc' = [pc EXCEPT ![c] = "done"]
    /\ holder' = None

GoTo(c, label) == pc' = [pc EXCEPT ![c] = label] /\ UNCHANGED <<result, holder>>

(* write_document: File::create on the temporary path.                     *)
CreateTemp(c) ==
    /\ alive /\ pc[c] = "create"
    /\ \/ temp' = Torn /\ GoTo(c, "write")
       \/ "create" \in Faults /\ Return(c, "err") /\ UNCHANGED temp
    /\ UNCHANGED <<views, nextIndex, disk, alive>>

(* Faulty variant: the document is copied before the view is pushed.       *)
DocumentBeforePush == Front(views)
(* What is serialized: the document in memory, under the guard.            *)
Document == views

(* Serializing through a BufWriter that is dropped at the end.  An error   *)
(* while the document is produced is returned; an error of the last flush, *)
(* which happens in drop, is not, and the file stays short.                *)
WriteTemp(c) ==
    /\ alive /\ pc[c] = "write"
    /\ \/ temp' = Whole(Document) /\ GoTo(c, "rename")
       \/ "write" \in Faults /\ temp' = Torn /\ Return(c, "err")
       \/ "flush" \in Faults /\ temp' = Torn /\ GoTo(c, "rename")
    /\ UNCHANGED <<views, nextIndex, disk, alive>>

RenameTemp(c) ==
    /\ alive /\ pc[c] = "rename"
    /\ \/ disk' = temp /\ Return(c, "ok")
       \/ "rename" \in Faults /\ Return(c, "err") /\ UNCHANGED disk
    /\ UNCHANGED <<views, nextIndex, temp, alive>>

Crash ==
    /\ alive /\ "crash" \in Faults
    /\ alive' = FALSE
    /\ UNCHANGED <<views, nextIndex, holder, temp, disk, pc, result>>

Step(c) == AppendView(c) \/ CreateTemp(c) \/ WriteTemp(c) \/ RenameTemp(c)

Finished ==
    /\ ~alive \/ \A c \in Calls : pc[c] = "done"
    /\ UNCHANGED vars

Next == (\E c \in Calls : Step(c)) \/ Crash \/ Finished

(* Every thread that can run does, and the mutex is handed on: with        *)
(* finitely many calls weak fairness per call is enough.                   *)
Spec == Init /\ [][Next]_vars /\ \A c \in Calls : WF_vars(Step(c))

-----------------------------------------------------------------------------
(* Properties.                                                             *)

View == [call : Calls, name : Names \union ({"view"} \X Nat), auto : BOOLEAN,
         status : {"success", "error"}]

TypeOK ==
    /\ views \in Seq(View)
    /\ nextIndex \in Nat \ {0}
    /\ holder \in Calls \union {None}
    /\ temp \in [views : Seq(View), whole : BOOLEAN]
    /\ disk \in [views : Seq(View), whole : BOOLEAN]
    /\ pc \in [Calls -> {"waiting", "create", "write", "rename", "done"}]
    /\ result \in [Calls -> {"pending", "ok", "err"}]
    /\ alive \in BOOLEAN

(* What is on disk is the session's own history cut off at some point, and *)
(* a record that was acknowledged is in it with all that came before, also *)
(* those whose own write failed.  This outlives a crash.                   *)
AckedIsOnDisk ==
    /\ IsPrefix(disk.views, views)
    /\ \A i \in 1 .. Len(views) : result[views[i].call] = "ok" => i <= Len(disk.views)

(* The session file can be parsed at every moment, between two records, in *)
(* the middle of one and after a crash: the temporary file is complete     *)
(* when it is renamed, and no two calls write it at once.                  *)
FileParses == disk.whole

(* Once a record was acknowledged the session file can be parsed           *)
(* (tests/duckdb_smoke.rs:137: "session file should be valid JSON").       *)
AckedFileParses == (\E c \in Calls : result[c] = "ok") => disk.whole

(* Generated view names are never given twice, however calls interleave    *)
(* and whatever becomes of their writes.                                   *)
AutoNamesDistinct ==
    \A i, j \in 1 .. Len(views) :
        IsAuto(views[i]) /\ IsAuto(views[j]) /\ views[i].name = views[j].name => i = j
=============================================================================
