----------------------------- MODULE PoolDriver -----------------------------
(***************************************************************************)
(* The life of a pooled driver (src/drivers/postgres.rs, mysql.rs): calls  *)
(* that clone the pool out of the driver, wait for one of its few          *)
(* connections, twice, and give it back; streams whose reader may stand    *)
(* still with a connection in use; and close, which takes the pool away    *)
(* from later calls and waits for the connections still out.               *)
(*                                                                         *)
(* The rows of a call are abstracted to whether it is asked for none, for  *)
(* as many as its channel holds ("fit") or for more ("overflow"): what is  *)
(* in the batches is in QueryStream and SavePipeline.                      *)
(***************************************************************************)
EXTENDS Naturals, FiniteSets

CONSTANTS
    Calls,          \* query, queryStream and save calls
    Closers,        \* close calls
    MaxConnections  \* max_connections(5) of the pool

ASSUME PoolAssumption ==
    /\ MaxConnections \in Nat \ {0}
    /\ IsFiniteSet(Calls)

VARIABLES
    handle,     \* the driver's Option<Pool>: "some" or "taken"
    closed,     \* the pool is marked closed
    held,       \* calls that have a connection
    pc,         \* control point of each call
    asked,      \* what each call is: kind and rows
    outcome,    \* what each call's work came to
    late,       \* the call began after some close had returned
    reader,     \* the reader of each stream: "still" or "moved"
    closer      \* control point of each close

vars == <<handle, closed, held, pc, asked, outcome, late, reader, closer>>

-----------------------------------------------------------------------------

(* save has no limit; a query collects its rows and needs no channel.      *)
Requests ==
    [kind : {"query"}, rows : {"none", "fit"}]
    \union [kind : {"save"}, rows : {"fit"}]
    \union [kind : {"stream"}, rows : {"none", "fit", "overflow"}]

(* connect: the pool is up.                                                *)
Init ==
    /\ handle = "some" /\ closed = FALSE /\ held = {}
    /\ pc = [c \in Calls |-> "new"]
    /\ asked \in [Calls -> Requests]
    /\ outcome = [c \in Calls |-> "pending"]
    /\ late = [c \in Calls |-> FALSE]
    /\ reader = [c \in Calls |-> "still"]
    /\ closer = [k \in Closers |-> "new"]

CloseReturned(k) == closer[k] \in {"closed", "ignored"}

-----------------------------------------------------------------------------
(* A call.                                                                 *)

GoTo(c, label) == pc' = [pc EXCEPT ![c] = label]

Ends(c, label, result) ==
    /\ GoTo(c, label)
    /\ outcome' = [outcome EXCEPT ![c] = result]

(* self.pool()?: a clone of the pool, or "connection is already closed".   *)
(* query and save record that error; queryStream throws it unrecorded.     *)
Begin(c) ==
    /\ pc[c] = "new"
    /\ IF handle = "some"
       THEN GoTo(c, "describe") /\ UNCHANGED outcome
       ELSE Ends(c, IF asked[c].kind = "stream" THEN "done" ELSE "record", "err")
    /\ late' = [late EXCEPT ![c] = \E k \in Closers : CloseReturned(k)]
    /\ UNCHANGED <<handle, closed, held, asked, reader, closer>>

ConnectionFree == ~closed /\ Cardinality(held) < MaxConnections

Acquire(c) == ConnectionFree /\ held' = held \union {c}

(* Faulty variant: the connection stays with the call.                     *)
HeldOn(c) == held
(* A connection goes back when what borrowed it is dropped.                *)
HeldWithout(c) == held \ {c}

(* pool.describe(sql).await.ok(): on a connection of its own, given back   *)
(* before the query asks for one; whatever goes wrong is ignored.          *)
AcquireToDescribe(c) ==
    /\ pc[c] = "describe"
    /\ Acquire(c)
    /\ GoTo(c, "describing")
    /\ UNCHANGED <<handle, closed, asked, outcome, late, reader, closer>>

Described(c) ==
    /\ pc[c] = "describing"
    /\ held' = HeldWithout(c)
    /\ GoTo(c, "fetch")
    /\ UNCHANGED <<handle, closed, asked, outcome, late, reader, closer>>

(* Acquiring fails when the pool is closed, when the server does not let   *)
(* a connection open, and when none came free in time.                     *)
NotDescribed(c) ==
    /\ pc[c] = "describe"
    /\ GoTo(c, "fetch")
    /\ UNCHANGED <<handle, closed, held, asked, outcome, late, reader, closer>>

(* With a limit of 0 the loop is not entered, and fetch is lazy: the call  *)
(* succeeds without a connection, even on a pool that was closed meanwhile. *)
NothingToFetch(c) ==
    /\ pc[c] = "fetch" /\ asked[c].rows = "none"
    /\ Ends(c, "record", "ok")
    /\ UNCHANGED <<handle, closed, held, asked, late, reader, closer>>

AcquireToFetch(c) ==
    /\ pc[c] = "fetch" /\ asked[c].rows # "none"
    /\ Acquire(c)
    /\ GoTo(c, "fetching")
    /\ UNCHANGED <<handle, closed, asked, outcome, late, reader, closer>>

(* Faulty variant: waiting for a connection has no end but close.          *)
FetchRefusedClosed(c) ==
    /\ pc[c] = "fetch" /\ asked[c].rows # "none" /\ closed
    /\ Ends(c, "record", "err")
    /\ UNCHANGED <<handle, closed, held, asked, late, reader, closer>>

FetchRefused(c) ==
    /\ pc[c] = "fetch" /\ asked[c].rows # "none"
    /\ Ends(c, "record", "err")
    /\ UNCHANGED <<handle, closed, held, asked, late, reader, closer>>

(* A stream with more batches than its channel holds comes to a send that  *)
(* waits for the reader.  The worker of a save always takes its batches.   *)
WaitsForReader(c) == asked[c].rows = "overflow" /\ reader[c] = "still"

FillsChannel(c) ==
    /\ pc[c] = "fetching" /\ WaitsForReader(c)
    /\ GoTo(c, "sending")
    /\ UNCHANGED <<handle, closed, held, asked, outcome, late, reader, closer>>

(* Faulty variant: a send that failed is tried again.                      *)
SendsAgain(c) ==
    /\ pc[c] = "sending" /\ ~WaitsForReader(c)
    /\ UNCHANGED vars

(* It goes on with a reader that drains the channel, or has cancelled.     *)
SendsOn(c) ==
    /\ pc[c] = "sending" /\ ~WaitsForReader(c)
    /\ GoTo(c, "fetching")
    /\ UNCHANGED <<handle, closed, held, asked, outcome, late, reader, closer>>

(* A row failed, the last row was read, or nobody listens any more; the    *)
(* row stream is dropped before the call is recorded.                      *)
Fetched(c) ==
    /\ pc[c] = "fetching"
    /\ \/ ~WaitsForReader(c) /\ Ends(c, "record", "ok")
       \/ Ends(c, "record", "err")
    /\ held' = HeldWithout(c)
    /\ UNCHANGED <<handle, closed, asked, late, reader, closer>>

(* A panic in the conversion of a value unwinds the task through its row   *)
(* stream; nothing is recorded.                                            *)
Panics(c) ==
    /\ pc[c] = "fetching"
    /\ Ends(c, "done", "panic")
    /\ held' = HeldWithout(c)
    /\ UNCHANGED <<handle, closed, asked, late, reader, closer>>

(* The record in the session, which may fail, ends the call; a success     *)
(* that cannot be recorded becomes an error.                               *)
Record(c) ==
    /\ pc[c] = "record"
    /\ Ends(c, "done", outcome[c]) \/ Ends(c, "done", "err")
    /\ UNCHANGED <<handle, closed, held, asked, late, reader, closer>>

Call(c) ==
    \/ AcquireToDescribe(c) \/ Described(c) \/ NotDescribed(c)
    \/ NothingToFetch(c) \/ AcquireToFetch(c) \/ FetchRefused(c)
    \/ FillsChannel(c) \/ SendsOn(c) \/ Fetched(c) \/ Record(c)

(* The reader of a stream makes up its mind: to read it all or to cancel.  *)
ReaderMoves(c) ==
    /\ pc[c] # "new" /\ asked[c].rows = "overflow" /\ reader[c] = "still"
    /\ reader' = [reader EXCEPT ![c] = "moved"]
    /\ UNCHANGED <<handle, closed, held, pc, asked, outcome, late, closer>>

-----------------------------------------------------------------------------
(* close.                                                                  *)

CloserGoTo(k, label) == closer' = [closer EXCEPT ![k] = label]

(* Faulty variant: the pool is cloned out of the driver, not taken.        *)
TakePoolClones(k) ==
    /\ closer[k] = "new"
    /\ CloserGoTo(k, "took")
    /\ UNCHANGED <<handle, closed, held, pc, asked, outcome, late, reader>>

(* guard.take(): only one close gets the pool, the others return at once.  *)
TakePool(k) ==
    /\ closer[k] = "new"
    /\ CloserGoTo(k, IF handle = "some" THEN "took" ELSE "ignored")
    /\ handle' = "taken"
    /\ UNCHANGED <<closed, held, pc, asked, outcome, late, reader>>

(* pool.close() marks the pool closed ...                                  *)
MarkClosed(k) ==
    /\ closer[k] = "took"
    /\ closed' = TRUE
    /\ CloserGoTo(k, "waiting")
    /\ UNCHANGED <<handle, held, pc, asked, outcome, late, reader>>

(* Faulty variant: pool.close() without the await.                         *)
PoolClosedUnawaited(k) ==
    /\ closer[k] = "waiting"
    /\ CloserGoTo(k, "closed")
    /\ UNCHANGED <<handle, closed, held, pc, asked, outcome, late, reader>>

(* ... and completes when every connection came back.                      *)
PoolClosed(k) ==
    /\ closer[k] = "waiting"
    /\ held = {}
    /\ CloserGoTo(k, "closed")
    /\ UNCHANGED <<handle, closed, held, pc, asked, outcome, late, reader>>

Close(k) == MarkClosed(k) \/ PoolClosed(k)

-----------------------------------------------------------------------------

Finished ==
    /\ \A c \in Calls : pc[c] = "done"
    /\ \A k \in Closers : CloseReturned(k)
    /\ UNCHANGED vars

Next ==
    \/ \E c \in Calls : Begin(c) \/ Call(c) \/ Panics(c) \/ ReaderMoves(c)
    \/ \E k \in Closers : TakePool(k) \/ Close(k)
    \/ Finished

(* The runtime polls every call and close; the database answers or fails.  *)
(* What is called, and when a reader reads, is up to JavaScript.           *)
(* The steps of one call may keep it busy only for a while, so weak        *)
(* fairness does; no call is promised a connection, others may be faster.  *)
Spec ==
    /\ Init /\ [][Next]_vars
    /\ \A c \in Calls : WF_vars(Call(c))
    /\ \A k \in Closers : WF_vars(Close(k))

-----------------------------------------------------------------------------
(* Properties.                                                             *)

TypeOK ==
    /\ handle \in {"some", "taken"}
    /\ closed \in BOOLEAN
    /\ held \subseteq Calls /\ Cardinality(held) <= MaxConnections
    /\ pc \in [Calls -> {"new", "describe", "describing", "fetch", "fetching",
                          "sending", "record", "done"}]
    /\ asked \in [Calls -> Requests]
    /\ outcome \in [Calls -> {"pending", "ok", "err", "panic"}]
    /\ late \in [Calls -> BOOLEAN]
    /\ reader \in [Calls -> {"still", "moved"}]
    /\ closer \in [Closers -> {"new", "took", "waiting", "closed", "ignored"}]

(* A call that waits for a connection has none, so calls never wait for    *)
(* each other in a circle although each needs a connection twice; a call   *)
(* that is recorded or over has given its own back, whatever became of it. *)
NoHoldAndWait ==
    \A c \in Calls : c \in held <=> pc[c] \in {"describing", "fetching", "sending"}

(* When the close that took the pool returns, nobody uses a connection,    *)
(* and nobody ever gets one again: not even a call that had cloned the     *)
(* pool before and was still waiting.                                      *)
CloseIsFinal ==
    (\E k \in Closers : closer[k] = "closed") => held = {}

(* A call made after any close returned is refused, also after a second    *)
(* one that returned before the first, and even when it would not have     *)
(* needed a connection.                                                    *)
LateCallRefused ==
    \A c \in Calls : late[c] /\ pc[c] = "done" => outcome[c] = "err"

(* A query or save always comes to an end, though streams nobody reads may *)
(* keep every connection, and though close may come in between.            *)
CallsSettle ==
    \A c \in Calls :
        (pc[c] # "new" /\ asked[c].kind # "stream") ~> (pc[c] = "done")

(* When no reader stands still for ever close returns, panics and          *)
(* cancelled streams notwithstanding.                                      *)
ReadersMove == \A c \in Calls : WF_vars(ReaderMoves(c))
CloseReturns ==
    ReadersMove => \A k \in Closers : (closer[k] = "took") ~> (closer[k] = "closed")
=============================================================================
