---------------------------- MODULE DuckDbDriver ----------------------------
(***************************************************************************)
(* Who may use the one connection of a DuckDbDriver, and when              *)
(* (src/drivers/duckdb.rs).  query, save, configureS3 and close are        *)
(* synchronous: they run on the JavaScript thread and lock the connection  *)
(* there.  Each queryStream starts a thread that keeps the connection      *)
(* locked while it sends its batches on a channel of its own; the          *)
(* JavaScript thread asks for them, one at a time, when it is not in one   *)
(* of those calls.  Batches are counted, what is in them is in             *)
(* BatchProducer.                                                          *)
(***************************************************************************)
EXTENDS Naturals

CONSTANTS
    Streams,    \* the queryStream calls that may be made
    Capacity,   \* batches a channel holds, 2 in the code
    MaxBatches, \* bound on the batches of a result
    MaxCalls,   \* bound on the synchronous calls
    Js,         \* the JavaScript thread as a lock holder
    Nobody      \* the connection is not locked

ASSUME DriverAssumption ==
    /\ Capacity \in Nat \ {0}
    /\ MaxBatches \in Nat \ {0}
    /\ MaxCalls \in Nat
    /\ Js \notin Streams
    /\ Nobody \notin Streams \union {Js}

VARIABLES
    lock,      \* holder of the connection mutex
    poisoned,  \* a holder panicked
    open,      \* the Option<Connection> is Some
    js,        \* the JavaScript thread: idle, waiting for the lock, inside
    op,        \* the synchronous call it is in: use or close
    calls,     \* synchronous calls made so far
    thread,    \* control point of each stream's thread
    left,      \* batches each thread has still to send
    queue,     \* messages in each stream's channel
    asked,     \* a read of the stream is outstanding in the runtime
    rxOpen     \* the stream's receiver is alive

connVars == <<lock, poisoned, open>>
jsVars == <<js, op, calls>>
streamVars == <<thread, left, queue, asked, rxOpen>>
vars == <<connVars, jsVars, streamVars>>

Init ==
    /\ lock = Nobody /\ poisoned = FALSE /\ open = TRUE
    /\ js = "idle" /\ op = "use" /\ calls = 0
    /\ thread = [s \in Streams |-> "unborn"]
    /\ left = [s \in Streams |-> 0]
    /\ queue = [s \in Streams |-> 0]
    /\ asked = [s \in Streams |-> FALSE]
    /\ rxOpen = [s \in Streams |-> FALSE]

GoTo(s, label) == thread' = [thread EXCEPT ![s] = label]

(* Faulty variant: a poisoned lock is used all the same (into_inner).      *)
UsablePoisoned == open
(* lock().map_err(..)? and as_ref().ok_or_else(..)?                        *)
Usable == open /\ ~poisoned

-----------------------------------------------------------------------------
(* The JavaScript thread.                                                  *)

QueryStream(s) ==
    /\ js = "idle" /\ thread[s] = "unborn"
    /\ GoTo(s, "locking")
    /\ \E n \in 1 .. MaxBatches : left' = [left EXCEPT ![s] = n]
    /\ rxOpen' = [rxOpen EXCEPT ![s] = TRUE]
    /\ UNCHANGED <<connVars, jsVars, queue, asked>>

(* The stream is pulled.                                                   *)
Ask(s) ==
    /\ js = "idle" /\ rxOpen[s] /\ ~asked[s]
    /\ asked' = [asked EXCEPT ![s] = TRUE]
    /\ UNCHANGED <<connVars, jsVars, thread, left, queue, rxOpen>>

Cancel(s) ==
    /\ js = "idle" /\ rxOpen[s]
    /\ rxOpen' = [rxOpen EXCEPT ![s] = FALSE]
    /\ asked' = [asked EXCEPT ![s] = FALSE]
    /\ queue' = [queue EXCEPT ![s] = 0]
    /\ UNCHANGED <<connVars, jsVars, thread, left>>

(* query, save and configureS3 ("use") or close reach connection.lock().   *)
CallDriver ==
    /\ js = "idle" /\ calls < MaxCalls
    /\ js' = "waiting"
    /\ op' \in {"use", "close"}
    /\ calls' = calls + 1
    /\ UNCHANGED <<connVars, streamVars>>

(* A poisoned lock makes every call an error; a closed connection all but  *)
(* close.                                                                  *)
CallAdmitted == IF op = "close" THEN ~poisoned ELSE Usable

CallLocks ==
    /\ js = "waiting" /\ lock = Nobody
    /\ IF CallAdmitted THEN lock' = Js /\ js' = "inside"
                       ELSE js' = "idle" /\ UNCHANGED lock
    /\ UNCHANGED <<poisoned, open, op, calls, streamVars>>

(* The statement runs, or fails, or the connection is taken and dropped;   *)
(* the guard is dropped on every path.                                     *)
CallReturns ==
    /\ js = "inside"
    /\ js' = "idle" /\ lock' = Nobody
    /\ open' = (open /\ op = "use")
    /\ UNCHANGED <<poisoned, op, calls, streamVars>>

JsCall == CallLocks \/ CallReturns

-----------------------------------------------------------------------------
(* The thread of a stream.                                                 *)

StreamLocks(s) ==
    /\ thread[s] = "locking" /\ lock = Nobody
    /\ IF Usable THEN lock' = s /\ GoTo(s, "preparing")
                 ELSE GoTo(s, "record-error") /\ UNCHANGED lock
    /\ UNCHANGED <<poisoned, open, jsVars, left, queue, asked, rxOpen>>

(* The producer returns: its guard is dropped before the call is recorded. *)
ProducerReturns(s, label) == lock' = Nobody /\ GoTo(s, label)

(* prepare and query, then the rows of one batch; either may fail.  The    *)
(* last batch may hold fewer rows, or none when it only tells the columns. *)
Prepare(s) ==
    /\ thread[s] = "preparing"
    /\ \/ GoTo(s, "reading") /\ UNCHANGED lock
       \/ ProducerReturns(s, "record-error")
    /\ UNCHANGED <<poisoned, open, jsVars, left, queue, asked, rxOpen>>

(* Faulty variant: the connection is unlocked while a batch is sent.       *)
ReadBatchUnlocks(s) ==
    /\ thread[s] = "reading"
    /\ \/ left[s] > 0 /\ ProducerReturns(s, "sending")
       \/ left[s] = 0 /\ ProducerReturns(s, "record")
       \/ ProducerReturns(s, "record-error")
    /\ UNCHANGED <<poisoned, open, jsVars, left, queue, asked, rxOpen>>

ReadBatch(s) ==
    /\ thread[s] = "reading"
    /\ \/ left[s] > 0 /\ GoTo(s, "sending") /\ UNCHANGED lock
       \/ left[s] = 0 /\ ProducerReturns(s, "record")
       \/ ProducerReturns(s, "record-error")
    /\ UNCHANGED <<poisoned, open, jsVars, left, queue, asked, rxOpen>>

(* A panic in the conversion of a value unwinds through the guard.         *)
ReadPanics(s) ==
    /\ thread[s] = "reading"
    /\ ProducerReturns(s, "done")
    /\ poisoned' = TRUE
    /\ UNCHANGED <<open, jsVars, left, queue, asked, rxOpen>>

HasRoom(s) == queue[s] < Capacity

(* blocking_send, the connection still locked: it waits for room, or fails *)
(* when the receiver is gone.                                              *)
SendBatch(s) ==
    /\ thread[s] = "sending" /\ rxOpen[s] /\ HasRoom(s)
    /\ queue' = [queue EXCEPT ![s] = @ + 1]
    /\ left' = [left EXCEPT ![s] = @ - 1]
    /\ GoTo(s, "reading")
    /\ UNCHANGED <<connVars, jsVars, asked, rxOpen>>

(* Faulty variant: a refused batch is sent again.                          *)
SendRefusedRetries(s) ==
    /\ thread[s] = "sending" /\ ~rxOpen[s]
    /\ UNCHANGED vars

SendRefused(s) ==
    /\ thread[s] = "sending" /\ ~rxOpen[s]
    /\ ProducerReturns(s, "record")
    /\ UNCHANGED <<poisoned, open, jsVars, left, queue, asked, rxOpen>>

(* The call is recorded in the session, which can fail.                    *)
Record(s) ==
    /\ \/ thread[s] = "record" /\ (GoTo(s, "done") \/ GoTo(s, "report"))
       \/ thread[s] = "record-error" /\ GoTo(s, "report")
    /\ UNCHANGED <<connVars, jsVars, left, queue, asked, rxOpen>>

ReportError(s) ==
    /\ thread[s] = "report"
    /\ \/ rxOpen[s] /\ HasRoom(s) /\ queue' = [queue EXCEPT ![s] = @ + 1]
       \/ ~rxOpen[s] /\ UNCHANGED queue
    /\ GoTo(s, "done")
    /\ UNCHANGED <<connVars, jsVars, left, asked, rxOpen>>

Thread(s) ==
    \/ StreamLocks(s) \/ Prepare(s) \/ ReadBatch(s)
    \/ SendBatch(s) \/ SendRefused(s) \/ Record(s) \/ ReportError(s)

(* The runtime answers a read that is outstanding, with a message or the   *)
(* end of the stream.                                                      *)
Deliver(s) ==
    /\ asked[s]
    /\ \/ /\ queue[s] > 0
          /\ queue' = [queue EXCEPT ![s] = @ - 1]
          /\ UNCHANGED rxOpen
       \/ /\ queue[s] = 0 /\ thread[s] = "done"
          /\ rxOpen' = [rxOpen EXCEPT ![s] = FALSE]
          /\ UNCHANGED queue
    /\ asked' = [asked EXCEPT ![s] = FALSE]
    /\ UNCHANGED <<connVars, jsVars, thread, left>>

-----------------------------------------------------------------------------

Finished ==
    /\ js = "idle" /\ calls = MaxCalls
    /\ \A s \in Streams : thread[s] = "done" /\ ~rxOpen[s]
    /\ UNCHANGED vars

Next ==
    \/ CallDriver \/ JsCall
    \/ \E s \in Streams :
          QueryStream(s) \/ Ask(s) \/ Cancel(s) \/ Thread(s) \/ ReadPanics(s) \/ Deliver(s)
    \/ Finished

(* Threads and runtime are scheduled; what JavaScript does between two     *)
(* calls is its own affair.                                                *)
Spec ==
    /\ Init /\ [][Next]_vars
    /\ WF_vars(JsCall)
    /\ \A s \in Streams : WF_vars(Thread(s)) /\ WF_vars(Deliver(s))

(* ... or it reads every stream on, whenever it is not inside a call.      *)
ReadingSpec == Spec /\ \A s \in Streams : WF_vars(Ask(s))

-----------------------------------------------------------------------------
(* Properties.                                                             *)

Threads == {"unborn", "locking", "preparing", "reading", "sending",
            "record", "record-error", "report", "done"}

TypeOK ==
    /\ lock \in Streams \union {Js, Nobody}
    /\ poisoned \in BOOLEAN /\ open \in BOOLEAN
    /\ js \in {"idle", "waiting", "inside"}
    /\ op \in {"use", "close"}
    /\ calls \in 0 .. MaxCalls
    /\ thread \in [Streams -> Threads]
    /\ left \in [Streams -> 0 .. MaxBatches]
    /\ queue \in [Streams -> 0 .. Capacity]
    /\ asked \in [Streams -> BOOLEAN]
    /\ rxOpen \in [Streams -> BOOLEAN]

Using(s) == thread[s] \in {"preparing", "reading", "sending"}

(* A stream reads only from an open connection that it alone has locked:   *)
(* close waits for it and never drops the connection under its statement.  *)
UsedWhileOpen ==
    /\ \A s \in Streams : Using(s) => lock = s /\ open
    /\ js = "inside" => lock = Js
    /\ lock = Js => js = "inside"
    /\ \A s \in Streams : lock = s => Using(s)

(* One panic while the connection is locked ends its life: nobody uses it  *)
(* again, and close cannot drop it either.                                 *)
PoisonBarsEveryone == [][poisoned => lock' = Nobody /\ open' = open]_vars

(* A stream that is cancelled gives up the connection, whatever the        *)
(* JavaScript thread is blocked in.                                        *)
CancelFreesLock ==
    \A s \in Streams : (lock = s /\ ~rxOpen[s]) ~> (lock # s)

(* As long as every result fits its channel a call that waits for the      *)
(* connection gets it, whatever becomes of the streams; with more batches  *)
(* it may wait for ever.                                                   *)
ResultsFit == \A s \in Streams : left[s] <= Capacity
CallAnswered == []ResultsFit => (js = "waiting") ~> (js = "idle")

(* Why: then no thread ever stands at a full channel with the connection   *)
(* locked, however its stream is read and whoever calls.                   *)
Stuck(s) == thread[s] = "sending" /\ rxOpen[s] /\ ~HasRoom(s)
NeverStuck == []ResultsFit => [](\A s \in Streams : ~Stuck(s))

(* close returns (tests/duckdb_smoke.rs:101, "duckdb close should          *)
(* succeed").                                                              *)
CloseReturns == (js = "waiting" /\ op = "close") ~> (js = "idle")
=============================================================================
