---------------------------- MODULE SavePipeline ----------------------------
(***************************************************************************)
(* One save call of an async driver (Postgres, MySQL and their relatives,  *)
(* ClickHouse): the call's future runs the producer and then waits for a   *)
(* oneshot; a worker thread (spawn_streaming_save_worker) takes batches    *)
(* from the channel, writes them through a StreamingSaveWriter and answers *)
(* on the oneshot.  What the writer puts in the file is abstracted to the  *)
(* rows it counted and to whether finish completed.                        *)
(***************************************************************************)
EXTENDS BatchProducer

VARIABLES
    worker,     \* control point of the worker thread
    fileCols,   \* columns the writer fixed with its first batch
    rowCount,   \* the writer's row_count
    sealed,     \* writer.finish() completed
    verdict,    \* the worker's result, before it is sent
    reply,      \* the oneshot: "none", the result, or dropped unsent
    call,       \* how the call ended for JavaScript
    view        \* the session record of the call, once written

workerVars == <<worker, fileCols, rowCount, sealed, verdict>>
vars == <<producerVars, workerVars, reply, call, view>>

-----------------------------------------------------------------------------

Undecided == [kind |-> "none"]
Saved(n) == [kind |-> "saved", rows |-> n]
Failed(of) == [kind |-> "failed", of |-> of]
Dropped == [kind |-> "dropped"]

Causes == {"query", "record", "writer", "columns"}

Verdicts ==
    [kind : {"none", "dropped"}]
    \union [kind : {"saved"}, rows : Nat]
    \union [kind : {"failed"}, of : Causes]

NoView == [status |-> "none"]
SuccessView(n) == [status |-> "success", rows |-> n]
ErrorView == [status |-> "error"]

Init ==
    /\ ProducerInit
    /\ driver # "duckdb"      \* DuckDbDriver::save has no worker
    /\ limit = Unlimited
    /\ batchSize = ResolveStreamBatchSize(None)
    /\ worker = "opening"
    /\ fileCols = "none"
    /\ rowCount = 0
    /\ sealed = FALSE
    /\ verdict = Undecided
    /\ reply = Undecided
    /\ call = "pending"
    /\ view = NoView

-----------------------------------------------------------------------------
(* The call's future: save_internal after the producer returned.           *)

(* Faulty variant: the error of the query is kept from the worker.         *)
ForwardErrorSkipped ==
    /\ pc = "returned" /\ outcome = "err"
    /\ pc' = "drop"
    /\ UNCHANGED <<channelVars, callVars, columns, header, rows, sentRows,
                   emitted, outcome, workerVars, reply, call, view>>

(* The query's error follows its rows to the worker, which may be gone.    *)
ForwardError ==
    /\ pc = "returned" /\ outcome = "err"
    /\ Send(Failure("query")) \/ SendRefused
    /\ pc' = "drop"
    /\ UNCHANGED <<callVars, columns, header, rows, sentRows, emitted, outcome,
                   workerVars, reply, call, view>>

ReturnsNothingToForward ==
    /\ pc = "returned" /\ outcome = "ok"
    /\ pc' = "drop"
    /\ UNCHANGED <<channelVars, callVars, columns, header, rows, sentRows,
                   emitted, outcome, workerVars, reply, call, view>>

DropSender ==
    /\ pc = "drop"
    /\ DropSenders
    /\ pc' = "await"
    /\ UNCHANGED <<callVars, columns, header, rows, sentRows, emitted, outcome,
                   workerVars, reply, call, view>>

(* Faulty variants: a lost answer counts as a good one; a lost or failed   *)
(* one is awaited again.                                                   *)
AnswerLostIsOk ==
    /\ pc = "await"
    /\ reply # Undecided
    /\ pc' = "ended"
    /\ IF reply.kind # "failed"
       THEN view' = SuccessView(sentRows) /\ call' = "ok"
       ELSE view' = ErrorView /\ call' = "err"
    /\ UNCHANGED <<channelVars, callVars, columns, header, rows, sentRows,
                   emitted, outcome, workerVars, reply>>

AnswerSuccessOnly ==
    /\ pc = "await"
    /\ reply # Undecided
    /\ IF reply.kind = "saved"
       THEN pc' = "ended" /\ view' = SuccessView(reply.rows) /\ call' = "ok"
       ELSE UNCHANGED <<pc, view, call>>
    /\ UNCHANGED <<channelVars, callVars, columns, header, rows, sentRows,
                   emitted, outcome, workerVars, reply>>

(* save: record the call in the session.  A success whose record cannot be *)
(* written is returned as an error; a failed error record is ignored.      *)
Answer ==
    /\ pc = "await"
    /\ reply # Undecided
    /\ pc' = "ended"
    /\ IF reply.kind = "saved"
       THEN /\ view' = SuccessView(reply.rows)
            /\ call' \in {"ok", "err"}
       ELSE view' = ErrorView /\ call' = "err"
    /\ UNCHANGED <<channelVars, callVars, columns, header, rows, sentRows,
                   emitted, outcome, workerVars, reply>>

Future ==
    \/ ProducerNext /\ UNCHANGED <<workerVars, reply, call, view>>
    \/ ForwardError \/ ReturnsNothingToForward \/ DropSender \/ Answer

(* The future itself unwinds: nothing is recorded and nobody is answered,  *)
(* but its sender is dropped, which the worker cannot tell from the end.   *)
FuturePanics ==
    /\ ProducerPanics
    /\ call' = "died"
    /\ UNCHANGED <<workerVars, reply, view>>

-----------------------------------------------------------------------------
(* The worker thread.                                                      *)

Decide(v) == verdict' = v /\ worker' = "replying"

(* StreamingSaveWriter::new: bad file type or mode, an append target that  *)
(* is not supported, any I/O error.                                        *)
OpenWriter ==
    /\ worker = "opening"
    /\ \/ worker' = "receiving" /\ UNCHANGED verdict
       \/ Decide(Failed("writer"))
    /\ UNCHANGED <<producerVars, fileCols, rowCount, sealed, reply, call, view>>

(* Faulty variant: the check comes before the first batch fixed them.      *)
ColumnsAgreeTooEarly(cols) == cols = fileCols
(* ensure_columns: the first batch fixes the columns, the others must have *)
(* the same or none.                                                       *)
ColumnsAgree(cols) == fileCols = "none" \/ cols = "empty" \/ cols = fileCols

(* blocking_recv and write_batch, one step: nobody else sees the writer.   *)
WriteBatch ==
    /\ worker = "receiving"
    /\ Receive
    /\ IsBatch(NextMessage)
    /\ fileCols' = IF fileCols = "none" THEN NextMessage.cols ELSE fileCols
    /\ \/ /\ ColumnsAgree(NextMessage.cols)
          /\ rowCount' = rowCount + (NextMessage.hi - NextMessage.lo)
          /\ UNCHANGED <<worker, verdict>>
       \/ /\ Decide(Failed(IF ColumnsAgree(NextMessage.cols) THEN "writer" ELSE "columns"))
          /\ UNCHANGED rowCount
    /\ UNCHANGED <<callVars, localVars, sealed, reply, call, view>>

(* let batch = batch?: the query's error becomes the worker's result.      *)
ReceiveError ==
    /\ worker = "receiving"
    /\ Receive
    /\ ~IsBatch(NextMessage)
    /\ Decide(Failed(NextMessage.of))
    /\ UNCHANGED <<callVars, localVars, fileCols, rowCount, sealed, reply, call, view>>

(* Faulty variant: the rows are counted, the file is never finished.       *)
FinishWriterSkipped ==
    /\ worker = "receiving"
    /\ AtEnd
    /\ Decide(Saved(rowCount))
    /\ UNCHANGED <<producerVars, fileCols, rowCount, sealed, reply, call, view>>

FinishWriter ==
    /\ worker = "receiving"
    /\ AtEnd
    /\ \/ Decide(Saved(rowCount)) /\ sealed' = TRUE
       \/ Decide(Failed("writer")) /\ UNCHANGED sealed
    /\ UNCHANGED <<producerVars, fileCols, rowCount, reply, call, view>>

(* The oneshot is answered while the thread still owns the batch receiver. *)
SendReply ==
    /\ worker = "replying"
    /\ reply' = verdict
    /\ worker' = "leaving"
    /\ UNCHANGED <<producerVars, fileCols, rowCount, sealed, verdict, call, view>>

LeaveWorker ==
    /\ worker = "leaving"
    /\ DropReceiver
    /\ worker' = "gone"
    /\ UNCHANGED <<callVars, localVars, fileCols, rowCount, sealed, verdict,
                   reply, call, view>>

Worker ==
    \/ OpenWriter \/ WriteBatch \/ ReceiveError \/ FinishWriter
    \/ SendReply \/ LeaveWorker

(* A panic in a file format library: both channel ends of the thread are   *)
(* dropped unanswered, which save reports as a cancelled worker.           *)
WorkerPanics ==
    /\ worker = "receiving"
    /\ CanReceive \/ AtEnd
    /\ worker' = "gone"
    /\ reply' = Dropped
    /\ DropReceiver
    /\ UNCHANGED <<callVars, localVars, fileCols, rowCount, sealed, verdict,
                   call, view>>

-----------------------------------------------------------------------------

Finished == pc = "ended" /\ worker = "gone" /\ UNCHANGED vars

Next == Future \/ FuturePanics \/ Worker \/ WorkerPanics \/ Finished

(* The runtime polls the future, the thread is scheduled, the database     *)
(* answers and file operations return.                                     *)
Spec == Init /\ [][Next]_vars /\ WF_vars(Future) /\ WF_vars(Worker)

-----------------------------------------------------------------------------
(* Properties.                                                             *)

TypeOK ==
    /\ ProducerTypeOK
    /\ pc \in {"open", "loop", "send", "final", "returned", "drop", "await", "ended"}
    /\ worker \in {"opening", "receiving", "replying", "leaving", "gone"}
    /\ fileCols \in ColumnState
    /\ rowCount \in Nat
    /\ sealed \in BOOLEAN
    /\ verdict \in Verdicts
    /\ reply \in Verdicts
    /\ call \in {"pending", "ok", "err", "died"}
    /\ view \in {NoView, ErrorView} \union [status : {"success"}, rows : Nat]

(* save answers Ok only when the finished export holds every row of the    *)
(* statement, and the session then counts the same rows.                   *)
OkMeansWhole ==
    call = "ok" => sealed /\ rowCount = total /\ view = SuccessView(total)

(* A query that failed part way is never answered or recorded as a         *)
(* success, whatever the worker was doing when the error came.             *)
ErrorNotSwallowed ==
    outcome = "err" =>
        /\ ~sealed
        /\ call \in {"pending", "err"}
        /\ view.status # "success"

(* An export that was finished holds the whole result, unless the future   *)
(* that fed it panicked: the worker takes the dropped sender for the end.  *)
SealedIsWhole == sealed => rowCount = total \/ outcome = "panic"

(* The caller is told of a failed query only if the query failed.  When it *)
(* did not and there is still no export, the reason is the file or a dead  *)
(* worker, never the columns of the batches.  (Of a query and a file that  *)
(* both fail the caller is told the one that reached the worker first.)    *)
ErrorIsHonest ==
    /\ reply = Failed("query") => outcome = "err"
    /\ outcome = "ok" /\ pc = "ended" /\ ~sealed =>
          reply \in {Failed("writer"), Dropped}

(* The worker may be gone, full or slow, the query may fail at any row:    *)
(* save always answers (or its future died), and the worker thread always  *)
(* ends, even with nobody to answer to.                                    *)
SaveReturns == <>(call # "pending") /\ <>(worker = "gone")

(* Why, without any scheduling: the future and the worker never wait for   *)
(* each other.  Whoever waits for room in the channel, for an answer or    *)
(* for a batch is waited for by nobody it waits for, and when the future   *)
(* is over the worker does not wait for more.                              *)
FutureSends ==
    \/ pc = "send"
    \/ pc = "final" /\ FinalBatchDue
    \/ pc = "returned" /\ outcome = "err"
FutureWaits ==
    \/ FutureSends /\ rxOpen /\ ~HasRoom
    \/ pc = "await" /\ reply = Undecided
WorkerWaits == worker = "receiving" /\ InFlight = 0 /\ txOpen
NoWaitCycle ==
    /\ FutureWaits => worker # "gone" /\ ~WorkerWaits
    /\ WorkerWaits => pc # "ended"

(* ... and nothing is done over and over: each step of a save leaves fewer *)
(* to make, whatever fails, whoever dies and however slow the worker is.   *)
WorkerRank ==
    CASE worker = "opening" -> 4 [] worker = "receiving" -> 3 [] worker = "replying" -> 2
      [] worker = "leaving" -> 1 [] worker = "gone" -> 0
FutureTail ==
    CASE pc = "drop" -> 2 [] pc = "await" -> 1 [] pc = "ended" -> 0 [] OTHER -> 3
FutureSteps == LoopSteps + FutureTail
StepsLeft == 2 * FutureSteps + InFlight + WorkerRank
SaveRunsDown == [][StepsLeft' \in Nat /\ StepsLeft' < StepsLeft]_vars

(* The pipeline implements the promise of AtomicSave.                      *)
Promise == INSTANCE AtomicSave WITH
    stored <- IF sealed THEN rowCount ELSE 0,
    told <- call

ImplementsAtomicSave == Promise!Spec
=============================================================================
