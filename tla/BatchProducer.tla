---------------------------- MODULE BatchProducer ---------------------------
(***************************************************************************)
(* The producer half of queryStream and save: the functions                *)
(* stream_{postgres,mysql,clickhouse,duckdb}_query_to_channel.  One        *)
(* instance is one call; it reads the rows of a statement, packs them into *)
(* batches of batchSize and sends them on the channel, and returns         *)
(* Ok(sent_rows) or the first error.  What its caller does with that       *)
(* result is in QueryStream and SavePipeline, which extend this module and *)
(* continue from pc = "returned".                                          *)
(*                                                                         *)
(* The four functions share one loop and differ in how they open the       *)
(* statement and learn its columns:                                        *)
(*   "sqlx"        Postgres, Supabase, MySQL, Doris and StarRocks: a       *)
(*                 describe whose failure is ignored, with the first row   *)
(*                 as fallback;                                            *)
(*   "duckdb"      the prepared statement's metadata, always present;      *)
(*   "clickhouse"  two header lines in front of the rows.                  *)
(***************************************************************************)
EXTENDS BatchChannel

CONSTANTS
    Drivers,        \* which of the kinds above a configuration explores
    MaxRows,        \* bound on the rows a statement returns
    None,           \* Option::None for an argument left out
    DefaultLimit,   \* DEFAULT_QUERY_LIMIT, 1000 in the code
    DefaultBatch    \* DEFAULT_STREAM_BATCH_SIZE, 200 in the code

ASSUME ProducerAssumption ==
    /\ Drivers \subseteq {"sqlx", "duckdb", "clickhouse"}
    /\ MaxRows \in Nat
    /\ None \notin Nat
    /\ DefaultLimit \in Nat
    /\ DefaultBatch \in Nat

VARIABLES
    (* the call and the statement it runs: fixed once it starts *)
    driver,     \* kind of driver
    schema,     \* "meta" when the result has columns, "empty" when it has none
    total,      \* rows the database would return
    limit,      \* resolved limit
    batchSize,  \* resolved batch size
    (* locals of the function *)
    pc,         \* control point of the task that runs it
    columns,    \* columns: Option<Vec<ColumnMeta>>
    header,     \* ClickHouse header lines read (names, types)
    rows,       \* rows.len(), the rows not yet in a batch
    sentRows,   \* sent_rows
    emitted,    \* emitted
    outcome     \* what the function returned

callVars == <<driver, schema, total, limit, batchSize>>
localVars == <<pc, columns, header, rows, sentRows, emitted, outcome>>
producerVars == <<channelVars, callVars, localVars>>

-----------------------------------------------------------------------------

ResolveQueryLimit(arg) == IF arg = None THEN DefaultLimit ELSE arg

ResolveStreamBatchSize(arg) ==
    LET size == IF arg = None THEN DefaultBatch ELSE arg
    IN  IF size < 1 THEN 1 ELSE size

(* usize::MAX, the limit save passes: more rows than a statement returns.  *)
Unlimited == MaxRows + 1

(* What a call is asked for: the rows of the statement up to the limit.    *)
WholeResult == IF limit < total THEN limit ELSE total

(* The results a statement can have; of ClickHouse, total is the rows of   *)
(* the body that arrives, which may end before its header does.  A         *)
(* ClickHouse statement without columns answers with an empty body; a      *)
(* DuckDB statement always has a column; a Postgres row may have none      *)
(* (SELECT FROM t).                                                        *)
StatementShape ==
    /\ driver \in Drivers
    /\ schema \in {"empty", "meta"}
    /\ total \in 0 .. MaxRows
    /\ driver = "clickhouse" /\ schema = "empty" => total = 0
    /\ driver = "duckdb" => schema = "meta"

ProducerInit ==
    /\ ChannelInit
    /\ StatementShape
    /\ pc = "open"
    /\ columns = "none"
    /\ header = 0
    /\ rows = 0
    /\ sentRows = 0
    /\ emitted = FALSE
    /\ outcome = "running"

-----------------------------------------------------------------------------
(* Opening the statement.                                                  *)

(* pool.describe(sql).await.ok(): a failed describe is not an error.  The  *)
(* query itself starts with the first try_next, so this step cannot fail.  *)
OpenSqlx ==
    /\ pc = "open" /\ driver = "sqlx"
    /\ columns' \in {"none", schema}
    /\ pc' = "loop"
    /\ UNCHANGED <<channelVars, callVars, header, rows, sentRows, emitted, outcome>>

(* Under the connection lock: closed or poisoned connection, prepare and   *)
(* query errors all return early; otherwise the columns are known.         *)
OpenDuckDb ==
    /\ pc = "open" /\ driver = "duckdb"
    /\ \/ columns' = schema /\ pc' = "loop" /\ UNCHANGED outcome
       \/ pc' = "returned" /\ outcome' = "err" /\ UNCHANGED columns
    /\ UNCHANGED <<channelVars, callVars, header, rows, sentRows, emitted>>

(* fetch_bytes can refuse the request; the columns come with the body.     *)
OpenClickHouse ==
    /\ pc = "open" /\ driver = "clickhouse"
    /\ \/ pc' = "loop" /\ UNCHANGED outcome
       \/ pc' = "returned" /\ outcome' = "err"
    /\ UNCHANGED <<channelVars, callVars, columns, header, rows, sentRows, emitted>>

-----------------------------------------------------------------------------
(* The loop: while sent_rows < limit.                                      *)

WantsMore == sentRows < limit

HeaderRead == driver = "clickhouse" => header = 2

(* One of the two header lines of JSONCompactEachRowWithNamesAndTypes.     *)
ReadHeaderLine ==
    /\ pc = "loop" /\ WantsMore
    /\ ~HeaderRead /\ schema = "meta"
    /\ header' = header + 1
    /\ columns' = IF header' = 2 THEN schema ELSE columns
    /\ UNCHANGED <<channelVars, callVars, pc, rows, sentRows, emitted, outcome>>

(* Faulty variant: a batch is sent one row late.                           *)
BatchFullLate(n) == n > batchSize
BatchFull(n) == n >= batchSize

RowAvailable == HeaderRead /\ sentRows < total

FetchRow ==
    /\ pc = "loop" /\ WantsMore
    /\ RowAvailable
    /\ columns' = IF columns = "none" THEN schema ELSE columns
    /\ rows' = rows + 1
    /\ sentRows' = sentRows + 1
    /\ pc' = IF BatchFull(rows') THEN "send" ELSE "loop"
    /\ UNCHANGED <<channelVars, callVars, header, emitted, outcome>>

(* A network, server or decoding error at any row: the rows collected since *)
(* the last batch are dropped with the function's frame.                    *)
FetchFails ==
    /\ pc = "loop" /\ WantsMore
    /\ pc' = "returned"
    /\ outcome' = "err"
    /\ rows' = 0
    /\ UNCHANGED <<channelVars, callVars, columns, header, sentRows, emitted>>

(* No row is left.  The body of a ClickHouse answer may end before or      *)
(* between its header lines: the loop takes that for the end, and the      *)
(* columns stay unknown.                                                   *)
SourceExhausted == sentRows = total

LeaveLoop ==
    /\ pc = "loop"
    /\ ~WantsMore \/ SourceExhausted
    /\ pc' = "final"
    /\ UNCHANGED <<channelVars, callVars, columns, header, rows, sentRows, emitted, outcome>>

-----------------------------------------------------------------------------
(* Sending.                                                                *)

(* columns.clone().unwrap_or_default() with the rows taken from the vector *)
CurrentBatch ==
    Batch(sentRows - rows, sentRows, IF columns = "none" THEN "empty" ELSE columns)

(* Faulty variant: the vector of rows is cloned, not taken.                *)
RowsNotTaken == rows
(* mem::take leaves the vector of rows empty for the next batch.           *)
RowsAfterTake == 0

SendBatch ==
    /\ pc = "send"
    /\ Send(CurrentBatch)
    /\ rows' = RowsAfterTake
    /\ emitted' = TRUE
    /\ pc' = "loop"
    /\ UNCHANGED <<callVars, columns, header, sentRows, outcome>>

Return ==
    /\ pc' = "returned"
    /\ outcome' = "ok"
    /\ rows' = 0
    /\ UNCHANGED <<callVars, columns, header, sentRows, emitted>>

(* Faulty variants: the result of send is ignored; it is sent again.       *)
SendRefusedKeepsReading ==
    /\ pc = "send"
    /\ SendRefused
    /\ pc' = "loop"
    /\ UNCHANGED <<callVars, columns, header, rows, sentRows, emitted, outcome>>

SendRefusedRetries ==
    /\ pc = "send"
    /\ SendRefused
    /\ UNCHANGED <<callVars, localVars>>

(* if sender.send(..).await.is_err() { return Ok(sent_rows) }              *)
SendBatchRefused ==
    /\ pc = "send"
    /\ SendRefused
    /\ Return

(* Faulty variants: no header for an empty result; no tail after a batch.   *)
FinalBatchDueNoHeader == rows > 0
FinalBatchDueNoTail == ~emitted /\ (rows > 0 \/ columns = "meta")
(* The tail of a result, or a batch without rows that only tells the       *)
(* columns of an empty result.                                             *)
FinalBatchDue == rows > 0 \/ (~emitted /\ columns = "meta")

SendFinal ==
    /\ pc = "final"
    /\ FinalBatchDue
    /\ Send(CurrentBatch) \/ SendRefused
    /\ Return

SkipFinal ==
    /\ pc = "final"
    /\ ~FinalBatchDue
    /\ Return
    /\ UNCHANGED channelVars

-----------------------------------------------------------------------------

ProducerNext ==
    \/ OpenSqlx \/ OpenDuckDb \/ OpenClickHouse
    \/ ReadHeaderLine \/ FetchRow \/ FetchFails \/ LeaveLoop
    \/ SendBatch \/ SendBatchRefused
    \/ SendFinal \/ SkipFinal

(* Reading a row ran into a panic in the value conversion (sqlx and duckdb *)
(* panic on some values, a Postgres 'infinity' date for one).  The task    *)
(* unwinds: every Sender it owns is dropped and nothing else runs.         *)
ProducerPanics ==
    /\ pc = "loop" /\ WantsMore
    /\ RowAvailable /\ driver # "clickhouse"
    /\ pc' = "ended"
    /\ outcome' = "panic"
    /\ rows' = 0
    /\ DropSenders
    /\ UNCHANGED <<callVars, columns, header, sentRows, emitted>>

ProducerTypeOK ==
    /\ ChannelTypeOK
    /\ driver \in Drivers
    /\ schema \in {"empty", "meta"}
    /\ total \in 0 .. MaxRows
    /\ limit \in Nat
    /\ batchSize \in Nat \ {0}
    /\ columns \in ColumnState
    /\ header \in 0 .. 2
    /\ rows \in Nat
    /\ sentRows \in 0 .. total
    /\ emitted \in BOOLEAN
    /\ outcome \in {"running", "ok", "err", "panic"}

(* How many steps of the loop are left at most: two for a row, one for it  *)
(* and one for the batch it may fill, two for the header, and a way out.   *)
LoopRank ==
    CASE pc = "open" -> 4 [] pc = "send" -> 3 [] pc = "loop" -> 2 [] pc = "final" -> 1
      [] OTHER -> 0
LoopSteps == 2 * (total - sentRows) + (2 - header) + LoopRank
=============================================================================
