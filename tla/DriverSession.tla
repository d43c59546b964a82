---------------------------- MODULE DriverSession ---------------------------
(***************************************************************************)
(* The calls of a driver and its session together: query, queryStream and  *)
(* save of ClickHouse (src/drivers/clickhouse.rs), whose handle on the     *)
(* client they clone when they begin and which close takes away, and the   *)
(* session (SessionRecorder) in which each is recorded before its caller   *)
(* is told.  query and save are answered when they are over; the task of a *)
(* queryStream runs on while JavaScript reads, waits before it reads, or   *)
(* has left.  Begin, record and answer are the same in the other drivers.  *)
(***************************************************************************)
EXTENDS SessionRecorder

CONSTANT MaxWaits   \* bound: how often a stream finds its channel full

ASSUME WaitAssumption == MaxWaits \in Nat

VARIABLES
    handle,   \* Mutex<Option<Client>>: some or taken
    work,     \* each call: unborn, running, waiting in a full channel,
              \* refused, or how it ended
    waits,    \* how often its channel was full
    reader,   \* the ReadableStream of a queryStream, none of other calls
    told,     \* what JavaScript got
    earlier,  \* history: the calls that were answered before this one began
    late      \* history: close had returned when the call began

callVars == <<handle, work, waits, reader, told, earlier, late>>
allVars == <<vars, callVars>>

DriverInit ==
    /\ Init
    /\ handle = "some"
    /\ work = [c \in Calls |-> "unborn"]
    /\ waits = [c \in Calls |-> 0]
    /\ reader = [c \in Calls |-> "none"]
    /\ told = [c \in Calls |-> "pending"]
    /\ earlier = [c \in Calls |-> {}]
    /\ late = [c \in Calls |-> FALSE]

(* client(): the Option is Some.                                           *)
ClientThere == handle = "some"

(* With the client taken query and save fail and record that, queryStream  *)
(* throws before anything of it is recorded.  Otherwise queryStream spawns *)
(* its task before it makes the stream.                                    *)
Begin(c) ==
    /\ alive /\ work[c] = "unborn"
    /\ earlier' = [earlier EXCEPT ![c] = {d \in Calls : told[d] \in {"ok", "err"}}]
    /\ late' = [late EXCEPT ![c] = handle = "taken"]
    /\ \/ /\ ClientThere
          /\ work' = [work EXCEPT ![c] = "running"]
          /\ \E kind \in {"none", "creating"} : reader' = [reader EXCEPT ![c] = kind]
          /\ UNCHANGED told
       \/ /\ ~ClientThere
          /\ \/ work' = [work EXCEPT ![c] = "err"] /\ UNCHANGED told
             \/ /\ work' = [work EXCEPT ![c] = "refused"]
                /\ told' = [told EXCEPT ![c] = "threw"]
          /\ UNCHANGED reader
    /\ UNCHANGED <<handle, waits, vars>>

-----------------------------------------------------------------------------
(* The stream of a queryStream, while its task runs.                       *)

(* ReadableStream::new fails: JavaScript gets an exception, the receiver   *)
(* is dropped, and the task that was spawned runs on.                      *)
StreamCreated(c) ==
    /\ alive /\ reader[c] = "creating"
    /\ \/ reader' = [reader EXCEPT ![c] = "reading"] /\ UNCHANGED told
       \/ /\ reader' = [reader EXCEPT ![c] = "gone"]
          /\ told' = [told EXCEPT ![c] = "threw"]
    /\ UNCHANGED <<handle, work, waits, earlier, late, vars>>

(* The reader cancels, or is collected with its stream.                    *)
Leave(c) ==
    /\ alive /\ reader[c] = "reading" /\ told[c] = "pending"
    /\ reader' = [reader EXCEPT ![c] = "gone"]
    /\ told' = [told EXCEPT ![c] = "left"]
    /\ UNCHANGED <<handle, work, waits, earlier, late, vars>>

(* A batch is taken from a channel that was full.                          *)
TakeBatch(c) ==
    /\ alive /\ work[c] = "full" /\ reader[c] = "reading"
    /\ work' = [work EXCEPT ![c] = "running"]
    /\ UNCHANGED <<handle, waits, reader, told, earlier, late, vars>>

(* The send that waited is refused: the function returns Ok.               *)
SendRefused(c) ==
    /\ alive /\ work[c] = "full" /\ reader[c] = "gone"
    /\ work' = [work EXCEPT ![c] = "ok"]
    /\ UNCHANGED <<handle, waits, reader, told, earlier, late, vars>>

-----------------------------------------------------------------------------
(* The work of a call, its record and its answer.                          *)

(* The server answers or fails, the export is written or not; a stream may *)
(* have more batches than its channel holds.                               *)
Work(c) ==
    /\ alive /\ work[c] = "running"
    /\ \/ /\ \E end \in {"ok", "err"} : work' = [work EXCEPT ![c] = end]
          /\ UNCHANGED waits
       \/ /\ reader[c] \in {"creating", "reading"} /\ waits[c] < MaxWaits
          /\ work' = [work EXCEPT ![c] = "full"]
          /\ waits' = [waits EXCEPT ![c] = @ + 1]
    /\ UNCHANGED <<handle, reader, told, earlier, late, vars>>

(* A conversion panics: nothing is recorded.                               *)
WorkPanics(c) ==
    /\ alive /\ work[c] = "running"
    /\ work' = [work EXCEPT ![c] = "panic"]
    /\ UNCHANGED <<handle, waits, reader, told, earlier, late, vars>>

(* Faulty variant: record_success whatever the outcome.                    *)
StatusSuccess(c) == "success"
(* record_success or record_error.                                         *)
StatusOf(c) == IF work[c] = "ok" THEN "success" ELSE "error"

(* The steps of record(); what it appends tells how the call went.         *)
RecordStep(c) ==
    /\ work[c] \in {"ok", "err"}
    /\ Step(c)
    /\ pc[c] = "waiting" => views'[Len(views')].status = StatusOf(c)
    /\ UNCHANGED callVars

(* A success that could not be recorded is answered as an error, the       *)
(* failure to record an error is ignored; after a panic the promise is     *)
(* rejected or the stream just ends.                                       *)
Verdict(c) ==
    CASE work[c] = "panic" -> "died"
      [] work[c] = "ok" /\ result[c] = "ok" -> "ok"
      [] OTHER -> "err"

(* JavaScript awaits the promise, or has a stream to read from.            *)
Listening(c) == told[c] = "pending" /\ reader[c] \in {"none", "reading"}

(* Faulty variants: a call is answered before it is recorded; a sender     *)
(* outlives the task, so that only an error is told on a stream.           *)
AnswerUnrecorded(c) ==
    /\ alive /\ work[c] \in {"ok", "err"} /\ Listening(c)
    /\ told' = [told EXCEPT ![c] = work[c]]
    /\ UNCHANGED <<handle, work, waits, reader, earlier, late, vars>>
AnswerErrorsOnly(c) ==
    /\ alive /\ Listening(c)
    /\ result[c] # "pending" \/ work[c] = "panic"
    /\ reader[c] = "reading" => Verdict(c) = "err"
    /\ told' = [told EXCEPT ![c] = Verdict(c)]
    /\ UNCHANGED <<handle, work, waits, reader, earlier, late, vars>>

(* The promise is settled, or the reader comes to the end of its stream or *)
(* to the error in it.                                                     *)
Answer(c) ==
    /\ alive /\ Listening(c)
    /\ result[c] # "pending" \/ work[c] = "panic"
    /\ told' = [told EXCEPT ![c] = Verdict(c)]
    /\ UNCHANGED <<handle, work, waits, reader, earlier, late, vars>>

(* close(): guard.take(); who cloned the client before keeps it.           *)
Close ==
    /\ alive /\ handle = "some"
    /\ handle' = "taken"
    /\ UNCHANGED <<work, waits, reader, told, earlier, late, vars>>

CallStep(c) == Work(c) \/ SendRefused(c) \/ RecordStep(c)
ReadStep(c) == TakeBatch(c) \/ Answer(c)

Settled(c) ==
    told[c] # "pending" /\ (work[c] \in {"refused", "panic"} \/ result[c] # "pending")
Idle ==
    /\ ~alive \/ \A c \in Calls : Settled(c)
    /\ UNCHANGED allVars

DriverNext ==
    \/ \E c \in Calls :
          Begin(c) \/ StreamCreated(c) \/ Leave(c) \/ CallStep(c) \/ WorkPanics(c) \/ ReadStep(c)
    \/ Close
    \/ Crash /\ UNCHANGED callVars
    \/ Idle

(* Tasks are polled, the server answers or fails, files answer or fail,    *)
(* and promises are settled.  Nobody promises that a stream is read.       *)
DriverSpec ==
    /\ DriverInit /\ [][DriverNext]_allVars
    /\ \A c \in Calls :
          /\ WF_allVars(CallStep(c))
          /\ WF_allVars(StreamCreated(c))
          /\ WF_allVars(reader[c] = "none" /\ Answer(c))

-----------------------------------------------------------------------------
(* Properties.                                                             *)

CallTypeOK ==
    /\ TypeOK
    /\ handle \in {"some", "taken"}
    /\ work \in [Calls -> {"unborn", "running", "full", "refused", "ok", "err", "panic"}]
    /\ waits \in [Calls -> 0 .. MaxWaits]
    /\ reader \in [Calls -> {"none", "creating", "reading", "gone"}]
    /\ told \in [Calls -> {"pending", "ok", "err", "threw", "left", "died"}]
    /\ earlier \in [Calls -> SUBSET Calls]
    /\ late \in [Calls -> BOOLEAN]

(* The session file and the callers tell the same story, across other      *)
(* calls, close and a crash: who was told "ok" is in the file as a         *)
(* success, by that very call; who was told of an error has a view that    *)
(* says so, or a success whose record failed; a panicked call has none,    *)
(* nor has one that was refused; a stream that JavaScript left or never    *)
(* got is recorded once, as its task ended; and a call made after close    *)
(* has succeeded in neither.                                               *)
SessionIsHonest ==
    \A c \in Calls :
        LET mine == {i \in 1 .. Len(views) : views[i].call = c}
            says(status) == \E i \in mine : views[i].status = status
        IN  /\ told[c] = "ok" => \E i \in mine : i <= Len(disk.views) /\ disk.views[i] = views[i]
                                                  /\ views[i].status = "success"
            /\ told[c] = "err" => says("error") \/ (says("success") /\ result[c] = "err")
            /\ told[c] = "died" \/ work[c] = "refused" => mine = {}
            /\ result[c] # "pending" => \E i \in mine : mine = {i} /\ views[i].status = StatusOf(c)
            /\ late[c] => told[c] # "ok" /\ ~says("success")

(* The session is a history in real time: a call whose answer JavaScript   *)
(* had before another began comes before it, though either may run on      *)
(* after close.  (A stream that was left, or never made, may be recorded   *)
(* long after JavaScript has done with it.)                                *)
RealTimeOrder ==
    \A i, j \in 1 .. Len(views) :
        views[j].call \in earlier[views[i].call] => j < i

(* Every call that was made is told something, unless the process dies or  *)
(* the call is a stream that its own reader does not read; no other stream *)
(* that stands still, no close and no failed record stops it.  And a       *)
(* stream whose receiver is gone still ends and is recorded.               *)
ReaderReads(c) == WF_allVars(reader[c] = "reading" /\ ReadStep(c))
EveryCallTold ==
    \A c \in Calls :
        /\ ReaderReads(c) => ((work[c] # "unborn") ~> (told[c] # "pending" \/ ~alive))
        /\ (reader[c] = "gone") ~> (result[c] # "pending" \/ work[c] = "panic" \/ ~alive)

(* Why, without any scheduling: a call that was made and not told has a    *)
(* step to make, or waits for its own reader, or for the mutex of the      *)
(* session, which is free or held by a call in the middle of its record.   *)
(* Nobody leaves it locked, whatever fails, panics or is closed, and no    *)
(* call waits for the reader of another.                                   *)
MidRecord(c) == work[c] \in {"ok", "err"} /\ pc[c] \in {"create", "write", "rename"}
NobodyStuck ==
    \A c \in Calls : alive /\ work[c] # "unborn" /\ told[c] = "pending" =>
        \/ work[c] = "running" \/ MidRecord(c)
        \/ work[c] = "full" /\ reader[c] \in {"creating", "reading"}
        \/ result[c] # "pending" \/ work[c] = "panic"
        \/ /\ work[c] \in {"ok", "err"} /\ pc[c] = "waiting"
           /\ holder = None \/ MidRecord(holder)
=============================================================================
