----------------------------- MODULE QueryStream ----------------------------
(***************************************************************************)
(* One queryStream call of a driver: the spawned task (a tokio task, or a  *)
(* thread for DuckDB) that runs the producer, records the call in the      *)
(* session and reports a failure on the stream; and the JavaScript reader  *)
(* that pulls batches through a ReadableStream, stops when it likes, or    *)
(* never reads at all.                                                     *)
(***************************************************************************)
EXTENDS BatchProducer

CONSTANTS
    LimitArgs,  \* values of the limit argument explored
    BatchArgs   \* values of the batchSize argument explored

ASSUME ArgAssumption ==
    /\ LimitArgs \subseteq Nat \union {None}
    /\ BatchArgs \subseteq Nat \union {None}

VARIABLES
    view,    \* the session record of the call, once written
    reader   \* the state of the ReadableStream

vars == <<producerVars, view, reader>>

-----------------------------------------------------------------------------

NoView == [status |-> "none"]
SuccessView(n, saved) == [status |-> "success", rows |-> n, saved |-> saved]
ErrorView(saved) == [status |-> "error", saved |-> saved]

Views ==
    {NoView}
    \union [status : {"success"}, rows : Nat, saved : BOOLEAN]
    \union [status : {"error"}, saved : BOOLEAN]

(* The arguments are resolved and the channel made before the task starts. *)
Init ==
    /\ ProducerInit
    /\ \E arg \in LimitArgs : limit = ResolveQueryLimit(arg)
    /\ \E arg \in BatchArgs : batchSize = ResolveStreamBatchSize(arg)
    /\ view = NoView
    /\ reader = "creating"

-----------------------------------------------------------------------------
(* The task, after the producer returned.                                  *)

(* Faulty variant: a record that cannot be written is ignored.             *)
RecordSuccessUnchecked ==
    /\ pc = "returned" /\ outcome = "ok"
    /\ \E saved \in BOOLEAN : view' = SuccessView(sentRows, saved)
    /\ pc' = "exit"
    /\ UNCHANGED <<channelVars, callVars, columns, header, rows, sentRows,
                   emitted, outcome, reader>>

(* record_success appends the view in memory and then writes the session   *)
(* file; when writing fails the task has an error to report.               *)
RecordSuccess ==
    /\ pc = "returned" /\ outcome = "ok"
    /\ \E saved \in BOOLEAN :
          /\ view' = SuccessView(sentRows, saved)
          /\ pc' = IF saved THEN "exit" ELSE "report"
    /\ UNCHANGED <<channelVars, callVars, columns, header, rows, sentRows,
                   emitted, outcome, reader>>

(* Faulty variant: a failed query is reported but not recorded.            *)
RecordErrorSkipped ==
    /\ pc = "returned" /\ outcome = "err"
    /\ pc' = "report"
    /\ UNCHANGED <<channelVars, callVars, columns, header, rows, sentRows,
                   emitted, outcome, reader, view>>

RecordError ==
    /\ pc = "returned" /\ outcome = "err"
    /\ \E saved \in BOOLEAN : view' = ErrorView(saved)
    /\ pc' = "report"
    /\ UNCHANGED <<channelVars, callVars, columns, header, rows, sentRows,
                   emitted, outcome, reader>>

ReportFailure ==
    /\ pc = "report"
    /\ \/ Send(Failure(IF outcome = "err" THEN "query" ELSE "record"))
       \/ SendRefused
    /\ pc' = "exit"
    /\ UNCHANGED <<callVars, columns, header, rows, sentRows, emitted,
                   outcome, view, reader>>

(* Faulty variant: a clone of the sender outlives the task.                *)
EndTaskKeepsSender ==
    /\ pc = "exit"
    /\ pc' = "ended"
    /\ UNCHANGED <<channelVars, callVars, columns, header, rows, sentRows,
                   emitted, outcome, view, reader>>

(* The task ends and drops its sender: only now can the stream end.        *)
EndTask ==
    /\ pc = "exit"
    /\ DropSenders
    /\ pc' = "ended"
    /\ UNCHANGED <<callVars, columns, header, rows, sentRows, emitted,
                   outcome, view, reader>>

Task ==
    \/ ProducerNext /\ UNCHANGED <<view, reader>>
    \/ RecordSuccess \/ RecordError \/ ReportFailure \/ EndTask

TaskPanics == ProducerPanics /\ UNCHANGED <<view, reader>>

-----------------------------------------------------------------------------
(* The reader.                                                             *)

(* ReadableStream::new succeeds, or fails after the task was spawned: then *)
(* queryStream itself returns the error and the receiver is dropped.       *)
StreamCreated ==
    /\ reader = "creating"
    /\ reader' = "reading"
    /\ UNCHANGED <<producerVars, view>>

StreamRejected ==
    /\ reader = "creating"
    /\ reader' = "rejected"
    /\ DropReceiver
    /\ UNCHANGED <<callVars, localVars, view>>

Pull ==
    /\ reader = "reading"
    /\ Receive
    /\ reader' = IF IsBatch(NextMessage) THEN "reading" ELSE "errored"
    /\ UNCHANGED <<callVars, localVars, view>>

PullEnd ==
    /\ reader = "reading"
    /\ AtEnd
    /\ reader' = "ended"
    /\ UNCHANGED <<producerVars, view>>

Cancel ==
    /\ reader = "reading"
    /\ reader' = "cancelled"
    /\ DropReceiver
    /\ UNCHANGED <<callVars, localVars, view>>

(* A stream that ended or errored is released some time later.             *)
Release ==
    /\ reader \in {"ended", "errored"}
    /\ rxOpen
    /\ DropReceiver
    /\ UNCHANGED <<callVars, localVars, view, reader>>

Finished == pc = "ended" /\ ~rxOpen /\ UNCHANGED vars

Next ==
    \/ Task \/ TaskPanics
    \/ StreamCreated \/ StreamRejected \/ Pull \/ PullEnd \/ Cancel \/ Release
    \/ Finished

(* The runtime keeps polling the task and the database answers; the reader *)
(* is free to stop.                                                        *)
Spec == Init /\ [][Next]_vars /\ WF_vars(Task)

-----------------------------------------------------------------------------
(* Properties.                                                             *)

(* Rows the reader has received.                                           *)
Delivered == RowsAt(taken)

(* The values every variable ranges over (types of the structs and locals  *)
(* of the streaming functions).                                            *)
TypeOK ==
    /\ ProducerTypeOK
    /\ pc \in {"open", "loop", "send", "final", "returned", "report", "exit", "ended"}
    /\ view \in Views
    /\ reader \in {"creating", "reading", "rejected", "cancelled", "ended", "errored"}

(* No row is lost, repeated or reordered on its way: each batch begins     *)
(* where the one before ended, the rows not yet sent follow the last one,  *)
(* and an error is the last thing on the channel.                          *)
InOrder ==
    /\ \A i \in 1 .. Len(sent) :
          IF IsBatch(sent[i])
          THEN sent[i].lo = RowsAt(i - 1) /\ sent[i].lo <= sent[i].hi
          ELSE i = Len(sent)
    /\ pc \in {"open", "loop", "send", "final"} => RowsAt(Len(sent)) + rows = sentRows

(* A reader that sees the stream end without an error has the whole result *)
(* up to the limit, and by then the session file tells of the call's       *)
(* success with exactly the rows it received; the stream may not end       *)
(* before the record is written.  (A panicked task ends its stream the     *)
(* same way and is the exception the README discusses.)                    *)
CleanEndIsComplete ==
    reader = "ended" /\ outcome # "panic" =>
        /\ Delivered = WholeResult
        /\ view = SuccessView(WholeResult, TRUE)

(* A reader that sees an error finds the call in the session: as an error  *)
(* when the query failed, or as a success that could not be written to     *)
(* disk, and then all of the rows came before the error.                   *)
ErrorSeenIsRecorded ==
    reader = "errored" =>
        IF sent[taken].of = "query"
        THEN view.status = "error"
        ELSE view = SuccessView(WholeResult, FALSE) /\ Delivered = WholeResult

(* Every batch but the last is full, none exceeds the batch size, each has *)
(* the columns of the result however they were learned (so the writer of a *)
(* save never meets inconsistent ones), and a batch without rows comes     *)
(* alone and only to tell the columns.                                     *)
BatchShape ==
    \A i \in 1 .. Len(sent) : IsBatch(sent[i]) =>
        LET size == sent[i].hi - sent[i].lo
        IN  /\ size <= batchSize
            /\ size < batchSize => i = Len(sent) \/ ~IsBatch(sent[i + 1])
            /\ sent[i].cols = schema
            /\ size = 0 => i = 1 /\ schema = "meta"

(* A stream that cleanly ends without a single batch had nothing to tell:  *)
(* a statement without columns or rows, a describe that failed on an empty *)
(* result, or a ClickHouse body of which not both header lines were read,  *)
(* because it ended there or because the limit is 0 and nothing is read.   *)
SilentStream ==
    reader = "ended" /\ outcome # "panic" /\ sent = << >> =>
        /\ WholeResult = 0
        /\ schema = "meta" => columns = "none" /\ driver # "duckdb"
        /\ driver = "clickhouse" => header < 2 /\ (limit = 0 => header = 0)

(* The session counts rows read, not rows received: it may overstate what  *)
(* the reader got, but by no more than the batches the channel held and    *)
(* the one the producer was holding; it never understates it.              *)
CountOvershoot ==
    view.status = "success" =>
        /\ Delivered <= view.rows
        /\ view.rows <= Delivered + (Capacity + 1) * batchSize
        /\ view.rows <= WholeResult

(* A cancelled or rejected stream makes its task end, which frees the      *)
(* connection or lock it holds, whatever the reader does.                  *)
CancelReleases == ~rxOpen ~> pc = "ended"

(* A reader that reads on is always told: every stream ends or fails.      *)
ReaderReads == WF_vars(StreamCreated) /\ WF_vars(Pull \/ PullEnd)
ReaderSettles ==
    ReaderReads => (reader = "creating") ~> (reader \notin {"creating", "reading"})

(* Why, without any scheduling: the task stands still only for a reader    *)
(* that may still read, never for one that was told of the end or of an    *)
(* error and has not let go of the stream yet; and a reader waits only for *)
(* a task that is at work.                                                 *)
TaskSends == pc \in {"send", "report"} \/ (pc = "final" /\ FinalBatchDue)
TaskWaits == TaskSends /\ rxOpen /\ ~HasRoom
ReaderWaits == reader = "reading" /\ InFlight = 0 /\ txOpen
StandsOnlyForReader ==
    /\ TaskWaits => reader \in {"creating", "reading"}
    /\ ReaderWaits => pc # "ended" /\ ~TaskWaits

(* ... and nothing is done over and over: each step of task or reader      *)
(* leaves fewer to make.                                                   *)
TaskTail ==
    CASE pc = "report" -> 2 [] pc = "exit" -> 1 [] pc = "ended" -> 0 [] OTHER -> 3
TaskSteps == LoopSteps + TaskTail
ReaderSteps ==
    (CASE reader = "creating" -> 2 [] reader = "reading" -> 1 [] OTHER -> 0)
      + (IF rxOpen THEN 1 ELSE 0)
StreamStepsLeft == 2 * TaskSteps + InFlight + ReaderSteps
StreamRunsDown == [][StreamStepsLeft' \in Nat /\ StreamStepsLeft' < StreamStepsLeft]_vars

(* A queryStream implements the promise of RowStream.                      *)
ReaderState ==
    CASE reader \in {"creating", "reading"} -> "open"
      [] reader = "ended" -> "ended"
      [] reader = "errored" -> "failed"
      [] reader \in {"cancelled", "rejected"} -> "left"
Recorded ==
    IF view.status = "success" /\ ~view.saved THEN "unsaved" ELSE view.status
Broken == outcome = "panic"

Promise == INSTANCE RowStream WITH
    whole <- WholeResult, got <- Delivered, state <- ReaderState,
    record <- Recorded, broken <- Broken

ImplementsRowStream == Promise!Spec
=============================================================================
