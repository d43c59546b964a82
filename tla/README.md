# Verification of db-native

db-native is a native Node.js add-on (Rust, napi) that gives JavaScript one
interface to several databases: Postgres and Supabase, MySQL, Doris and
StarRocks, ClickHouse, and an embedded DuckDB. Every driver offers `query`,
`queryStream` (a `ReadableStream` of batches), `save` (a result written to a
CSV, JSON, Excel, Parquet or ORC file), `close` and `getSession`. This directory
holds TLA+ models of the code in `../src`, TLC configurations that check them
and TLAPS proofs about them. Paths below are relative to the repository root
(`src/drivers/mysql.rs` is the Rust file).

Parse with SANY, check with `tlc -config X.cfg M.tla`, prove with
`tlapm M.tla`. `PROJECT.json` lists components, runs, mutants, the source lines
of every definition, hazards, findings and theorems.

## 1. Inventory

| Part | State | Operations | Interacts through |
|---|---|---|---|
| Query streams (`stream_*_query_to_channel`, `query_stream` in `src/drivers/*.rs`) | rows collected, `sent_rows`, `emitted`, columns | open, read a row, send a batch, send the tail, record, report, end | `mpsc::channel(2)` to the reader, the session, a pool connection or the DuckDB lock |
| Async save (`save`, `save_internal`, `spawn_streaming_save_worker`) | the same, and the worker's writer | the stream loop into a channel; worker writes; oneshot answer | channel of two to a thread, oneshot back, the session |
| Session recorder (`src/session.rs`) | list of views, counter, `session.json`, its temporary file | `new`, `record_success`, `record_error`, `info` | a mutex shared by all tasks and threads of a driver; the file system |
| Pooled drivers (`postgres.rs`, `mysql.rs`) | `Mutex<Option<Pool>>`, five connections | `query`, `queryStream`, `save`, `close` | the sqlx pool |
| DuckDB driver (`duckdb.rs`) | `Arc<Mutex<Option<Connection>>>` | synchronous `query`, `save`, `configureS3`, `close` on the JavaScript thread; one thread per `queryStream` | the mutex, one channel per stream |
| ClickHouse driver (`clickhouse.rs`) | `Mutex<Option<Client>>` | as the pooled ones, over HTTP | one request per call |
| File writers (`StreamingSaveWriter` in `save.rs`) | per format: file, header written, schema, row count | open, write a batch, finish; append modes | the file system |
| Column inference (`infer_column_types`, `build_schema`, `build_array`) | the types fixed by the first batch | infer, build a batch | used by Parquet and ORC writers |
| Value conversion (`value_from_row`, `value_ref_to_json`) | none | pure | used by all loops |

What is hard, and what makes each part correct:

* **Streams.** A task reads ahead of a reader that may stop, cancel or never get
  the stream; errors come at any row; the limit cuts anywhere; the call is
  recorded between the last batch and the end of the stream. Correct means: rows
  arrive in order, once; a clean end means all rows and a record that says so; an
  error the reader sees is in the session; a cancelled stream lets go.
* **Save.** A future and a thread end in any order; each may fail or die while
  the other waits. Correct means: Ok only for a whole file; no failed query looks
  like a success; the call answers and the thread ends.
* **Session.** Calls record concurrently, file operations fail, the process
  dies. Correct means: the file parses at any time, holds what was acknowledged,
  and generated names are distinct.
* **Pool.** Calls need a connection twice and there are few; close runs against
  calls that already have the pool. Correct means: no hold-and-wait, close leaves
  nothing in use, later calls are refused, calls and close come to an end.
* **DuckDB.** A thread keeps a mutex over a blocking send; the JavaScript thread
  locks the same mutex. Correct means: only an open connection is used, panics
  bar it, calls get it — the last of which fails (finding 2).
* **ClickHouse.** Two parsers of one answer; close does not wait for calls.
  Correct means: both parsers give the rows of the answer or an error, and a
  call that runs on is still recorded and answered.
* **Writers.** Targets are opened before the statement is known to be good,
  appends cut the bracket of an array, saves die inside a row. Correct means: Ok
  only for a readable file with exactly the rows that belong there; an append
  never loses any (the first fails in one case, finding 3).
* **Columns.** Types are fixed by the first batch. Correct means: nothing of
  that batch becomes null, the type is no wider than needed, and a later value is
  lost only where all rows together would have had another type.

## 2. Modules

| Module | Models |
|---|---|
| `BatchChannel` | tokio's bounded channel as the code uses it. The queue is an append-only sequence `sent` and a read counter `taken`. A batch is a run of row numbers `lo + 1 .. hi` and the columns it carries, so that lost, repeated or swapped rows show. |
| `BatchProducer` (extends it) | the loop the four `stream_*_query_to_channel` functions share. They differ in how they open the statement and learn its columns: `OpenSqlx`, `OpenDuckDb`, `OpenClickHouse` + `ReadHeaderLine`. |
| `QueryStream` (extends it) | the spawned task after the loop (`RecordSuccess`, `RecordError`, `ReportFailure`, `EndTask`), its panic, and the reader (`Pull`, `PullEnd`, `Cancel`, `StreamRejected`, `Release`). |
| `RowStream` | the abstract promise of `queryStream`: rows in order and once, one end or one failure, and what the session says by then. |
| `SavePipeline` (extends `BatchProducer`) | the future of `save` after the loop (`ForwardError`, `DropSender`, `Answer`), the worker thread (`OpenWriter` .. `LeaveWorker`) and the panic of either. |
| `AtomicSave` | the abstract promise of save: the export is sealed once, the caller is told once, "ok" only for a whole export. |
| `SessionRecorder` | `record` and `write_document`, one action per file operation, under the mutex. |
| `DriverSession` (extends it) | the calls of a driver with its session: take the client, work, record, answer; close at any time. A `queryStream` is spawned before its stream is made, which may fail (`StreamCreated`), waits in a full channel for its own reader, and runs on when the reader leaves. The module conjoins the recorder's steps with the state of the calls, so "recorded" is a state of the file. |
| `SaveWriter` | `StreamingSaveWriter`: `Check` and `Open` of the five formats and two modes, `WriteBatch` into a buffer, `Flush` of any part of it, `Finish`, `Abandon`. A file is a sequence of pieces: header, comma, brackets, magic and footer, two pieces per row. |
| `ExportFile` | the abstract promise of saves to one path: each is one step that appends or replaces rows; after an error a first part of them. |
| `ColumnarWriter` | one column of a Parquet or ORC file: inference row by row over the first batch, then building every batch under that type. The tables `PostgresKinds` .. `ClickHouseKinds` say which kinds of values the conversions give for a type of column. |
| `ClickHouseParser` | the parser of `query` and the loop of `queryStream` and `save`, fed with the same lines. |
| `DuckDbDriver` | who holds the connection: the JavaScript thread in a synchronous call, or a stream's thread while it prepares, reads and sends. |
| `PoolDriver` | calls and closes of a pooled driver: clone the pool, acquire to describe, give back, acquire to fetch, give back, record; take the pool, mark it closed, wait. |
| `MC*` | values of constants that a `.cfg` cannot express, and symmetry. |
| `*Proofs` | TLAPS proofs. `BatchProducerProofs` holds lemmas about the loop that both `QueryStreamProofs` and `SavePipelineProofs` cite; `DriverSessionProofs` proves about the recorder alone first and then under the calls of a driver; `DriverProofs` holds what is proved of the DuckDB connection and of the ClickHouse parsers. |

One action is one stretch of code between points where another actor may run
(an await, a send, a lock, a file operation). The twin functions of the drivers
are one definition each; `PROJECT.json` points at one of the twins and
`BatchProducer` names the differences. Definitions commented *Faulty variant*
are plausible bugs; no specification uses them, they exist to show that each
property can fail (`mutants`).

A session is written by every driver in the same way; `DriverSession` takes
ClickHouse, whose close lets calls run on. Saves of `SaveWriter` are the worker
threads of `SavePipeline` and DuckDB's synchronous save alike; the latter opens
its target before it looks at the connection or the statement, which is `Open`
followed by `Abandon`.

What the models leave out: texts of errors, SQL, and of the values of rows all
but the kinds in `ColumnarWriter`. Panics that
are modelled are those of a value conversion; a panic in a synchronous DuckDB
call crosses a foreign-function boundary and ends the process, after which
nothing is left to model.

## 3. Runs

| Run | Asks |
|---|---|
| `query_stream` | rows in order and once (`InOrder`); clean end complete and recorded (`CleanEndIsComplete`); errors seen are recorded (`ErrorSeenIsRecorded`); sizes and columns of batches (`BatchShape`); when a stream may end without any batch (`SilentStream`); by how much the session may overstate what was received (`CountOvershoot`); cancelled streams end (`CancelReleases`); a reader that reads on comes to the end or an error (`ReaderSettles`); refinement of `RowStream` |
| `save_pipeline` | `OkMeansWhole`, `ErrorNotSwallowed`, `SealedIsWhole`, `ErrorIsHonest`; the call answers and the worker ends (`SaveReturns`); refinement of `AtomicSave` |
| `driver_session` | the file parses and holds what was acknowledged (`FileParses`, `AckedIsOnDisk`), generated names (`AutoNamesDistinct`), the callers and the file tell the same story (`SessionIsHonest`), a call whose answer JavaScript had comes before every call that began later (`RealTimeOrder`), every call is told unless its own reader stands still and a stream whose receiver is gone still ends and is recorded (`EveryCallTold`), with failing create, write and rename, crashes, panics and close |
| `session_flush` | finding 1 |
| `duckdb_lock` | `UsedWhileOpen`, `PoisonBarsEveryone`, `CancelFreesLock`; calls are answered while results fit the channel (`CallAnswered`) |
| `duckdb_close` | finding 2 |
| `pool_driver` | `NoHoldAndWait`, `CloseIsFinal`, `LateCallRefused`; queries and saves settle though unread streams keep the pool (`CallsSettle`); close returns when no reader stands still for ever (`CloseReturns`) |
| `save_files` | saves in a row, failing anywhere: `OkIsReadable`, `AppendKeepsContent`; refinement of `ExportFile` |
| `save_overlap` | two appends to one CSV at once lose nothing of each other (`AppendsLoseNothing`) |
| `save_cut` | finding 3 |
| `clickhouse_parsers` | both parsers against one reference and against each other (`QueryIsExact`, `StreamIsExact`) |
| `columnar_writer` | `FirstBatchWhole`, `NarrowestType`, `LostOnlyIfWider`, `StableIsExact` |

`duckdb_lock` switches the deadlock check off: the state of finding 2, where the
stream thread and the JavaScript thread wait for each other, really is a stop.
All other passing runs check it; the end of all actors is the action `Finished`
(`Idle` in `DriverSession`).

Type invariants are theorems and are not checked again by a run.

### Bounds

* `query_stream`: up to 6 rows, batches of 1 (asked for as 0), 2 and 3, limits 0,
  1, 4, 5 and none, capacity 2. This includes no rows, a tail, a last batch that
  is exactly full, a limit inside a batch and at its end, and, with batches of
  one, more batches than the channel and the producer hold together.
* `save_pipeline`: up to 9 rows in batches of 2: five batches, so that worker
  and producer each wait for the other, and a tail.
* `driver_session`: two calls, which can be anywhere in each other's way: one
  records while the other waits for the mutex, fails, panics, leaves or begins on the
  answer of the first; close and a crash anywhere. The channel of a stream is full up
  to twice, so that one stands still and the other must not mind, and one goes on
  after a wait and then waits again. Calls are given no names. All its safety
  properties are theorems too, for any number of calls, waits and any names;
  `session_flush`: two calls, with a name that looks generated.
* `duckdb_lock`: two streams of up to 3 batches, one more than the channel
  holds, and two calls; `duckdb_close`: one stream of up to 4.
* `pool_driver`: two calls and two closes on one connection: a call waits while
  the other holds, and close waits for either. The code has five connections;
  `MaxConnections` is a parameter of the proofs.
* `save_files`: three saves of up to two rows in one or two batches: a save can
  spoil what the next finds and the third shows what the second made of it;
  every format and every pair of modes. Saves differ by their mode and their rows
  only, so permutations of them are one state (`AnyOrder` of `MCSaveWriter`; no
  property of the run is a liveness property). `save_overlap`: two saves suffice for
  pieces of one to fall between those of the other. `save_cut`: two.
* `clickhouse_parsers`: five lines: two blank ones beside a header and a row, or
  three rows under limits of 0, 1, 2 and more than there are; arrays of one or
  two elements, of strings or not.
* `columnar_writer`: four rows in batches of one or two: a first batch with two
  values in either order, and two later ones.

### Fairness

Tasks, threads and the worker are weakly fair: the runtime polls what can run,
databases and file operations answer or fail, and a blocked send or lock goes on
once it can. In the pool each call is weakly fair as a whole; no call is promised
a connection, waiting ends because `FetchRefused` covers the acquire timeout.
JavaScript is not fair: what it calls, and whether a reader reads, is free.
Claims about readers that do read have that as their antecedent (`ReaderReads`,
`ReadersMove`, `ResultsFit`); finding 2 adds it as fairness (`ReadingSpec` of
`DuckDbDriver`) to show that close stands still even then. In `DriverSession`
each call is weakly fair once it began: the server answers or fails, the mutex
of the session is handed on, `ReadableStream::new` returns, and the promise of
`query` and `save` is settled. A task that waits in a full channel waits for its
reader, and that a stream is read is not in the specification: `EveryCallTold`
has it as the antecedent of the stream's own call (`ReaderReads(c)`) and of no
other. Nothing promises that a call begins, that close is
called or that the process lives on. `SaveWriter`, `ClickHouseParser` and
`ColumnarWriter` have no liveness of their own; that a save ends is
`SaveReturns`.

## 4. Findings

1. **A lost flush replaces the session file** (`session_flush`,
   `src/session.rs:166`). `write_document` moves a `BufWriter` into
   `serde_json::to_writer_pretty`. Its buffer is flushed when it is dropped, and
   drop discards the error. The torn temporary file is then renamed over the
   good `session.json` and `record` returns Ok. All other file errors are
   handled well: `driver_session` passes.
2. **close can deadlock** (`duckdb_close`, `src/drivers/duckdb.rs:248` and
   `:160`). The thread of a stream keeps the connection mutex while
   `blocking_send` waits for room in a channel of two. `close` (like `query`,
   `save` and `configureS3`) waits for the mutex on the JavaScript thread, the
   only one that could read the stream. `CallAnswered` shows the border: results
   of at most two batches never do this.
3. **An append accepts a cut file** (`save_cut`, `src/save.rs:636`).
   `inspect_json_array_for_append` takes a file that starts with `[` and ends
   with `]` for an array. A save that died inside a row, right after the bracket
   of an array in it, leaves such a file; the next append removes that bracket,
   writes its rows after the torn one and returns Ok. `save_files` allows for
   the same cuts and shows that files which were readable stay so, and that no
   row is lost (`OkIsReadable` and `AppendKeepsContent` hold).

Other behaviours are named in properties, not as findings: a task whose
value conversion panics ends its stream cleanly but short and unrecorded
(`CleanEndIsComplete`), and the future of a save that panics lets the worker
finish a short file (`SealedIsWhole`); in the latter case nobody is told "ok".
Half a header of ClickHouse is an error to `query` and an empty result to
`queryStream` and `save`, and with a limit of 0 `queryStream` reads no header
(`StreamIsExact`); `SilentStream` names both among the streams that end without
a batch. When `ReadableStream::new` fails JavaScript gets an exception for a call
that runs on and is recorded (`SessionIsHonest` counts it among the recorded
ones, `EveryCallTold` says that it ends).

Columns of unsigned integers, doubles, JSON or unions, and of text and blobs in
MySQL, Doris and StarRocks, may lose later values to null in Parquet and ORC.
The last is because `value_from_row` asks for a `JsonValue` before a `String`
(`src/drivers/mysql.rs:456`), which sqlx grants for these types: the text `123`
becomes a number, and a first batch of such texts a column of integers.
`StableIsExact` names the SQL types that never lose any, `LostOnlyIfWider` says
when it may happen.

## 5. Proofs

All proofs hold for every value of the constants under the named assumptions of
the modules (`CapacityAssumption`, `ProducerAssumption`, `ArgAssumption`,
`RecorderAssumption`, `WaitAssumption`, `DriverAssumption`, `ParserAssumption`, `PoolAssumption`,
`ColumnAssumption`, `WriterAssumption`); further hypotheses are named with the theorem.

* **Producer** (`BatchProducerProofs`). `ProducerInv`: batches chain end to end
  and only the last message may be an error (`Chained`); while the function runs
  its rows in hand and the rows on the channel add up to `sentRows`
  (`RowsAccounted`); it stays within the limit and leaves the loop with all it
  was asked for (`LimitKept`). Each step keeps it, and a function that returns
  Ok to an open channel has sent the whole result. `BatchInv` adds what is in the
  batches: all but the last are full and have the columns (`Shaped`, and `Packed`
  for the rows in hand), which columns each driver knows when (`Learned`), and how
  far the rows read may be ahead of those received (`Lagging`). `LoopRunsDown` bounds
  the steps the loop has left (`LoopSteps`: two for a row, its own and that of the
  batch it may fill).
* **Query stream** (`QueryStreamProofs`): `TypeOK`, `InOrder`,
  `CleanEndIsComplete`, `ErrorSeenIsRecorded`, `BatchShape`, `SilentStream`,
  `CountOvershoot`. `InOrder` alone is not inductive; to show a clean end complete
  one must know that the sender is dropped only after the record, and what the
  record counted. `CountOvershoot` speaks of the reader's place `taken`, but only
  `Lagging`, for every place on the channel, is kept by the loop. `SilentStream`
  needs that a function that returned Ok without a batch knew of no columns.
  `Spec => ImplementsRowStream`: pulling a batch is `Deliver`, the record is `Log`, a
  panic is `Break`, and a reader that ends, fails or leaves is `CloseAs`; the theorems
  about ends and errors, taken in the next state, are what `CloseAs` asks for.
* **Save** (`SavePipelineProofs`): `TypeOK`, `OkMeansWhole`,
  `ErrorNotSwallowed`, `SealedIsWhole` and `Spec => ImplementsAtomicSave`. The
  strengthening `CollectingInv` says that as long as the worker collects, the
  receiver is alive and so every row of a successful query, or the error of a
  failed one, is on the channel before the sender is dropped; hence the worker
  cannot reach the end of the channel after a failed query. `SealedInv` ties the
  finished file to the answer. In the refinement finishing is `Seal`, the answer
  and the death of the future are `Tell`, all else stutters. `ErrorIsHonest`
  follows from `BlameInv`: only a failed query puts an error on the channel, and
  since all batches have the same columns the worker's own verdicts are those of
  its file.
* **What liveness rests on.** Liveness itself is out of reach, its safety half is not:
  nobody is waited for by whom it waits for, and every step leaves fewer to make. So
  whoever is scheduled comes to its end. For a save `NoWaitCycle` (from `LifeInv`: the
  receiver lives while the worker collects, and the answer is there before the worker
  goes) and `SaveRunsDown`; for a stream `StandsOnlyForReader` and `StreamRunsDown`. Both
  measures count the sender's steps twice and each message on the channel once, so that a
  send and a receive both lower them. For the session `NobodyStuck` (from `LockInv`: who
  holds the mutex is between its push and its return): a call waits for its own
  reader or for a call in the middle of its record, never for the reader of another; for DuckDB `NeverStuck`, while
  results fit their channels (`Fitting`: what is queued and what is left fit together).
  These six are theorems and are in no `.cfg`: TLC finds no violation when they are
  added to one, but the runs ask for the liveness itself.
* **Session** (`DriverSessionProofs`, first part): `TypeOK` and
  `AutoNamesDistinct` of `SessionRecorder` for all faults, `FileParses` and
  `AckedIsOnDisk` for all faults but the lost flush (finding 1 is why that
  assumption is needed). The invariant describes what the temporary file is at
  each control point of the holder of the mutex.
* **Driver and session** (`DriverSessionProofs`): every step of `DriverSession`
  is one of `SessionRecorder` or leaves its variables alone (`SessionSteps`), so
  its invariants carry over; `HonestInv` adds that views are of ended calls and
  say how they ended, that whoever was in `record` has a view, and what a caller
  may have been told, an exception while its task runs on included. From it follow
  `SessionIsHonest` (no lost flush) and `RealTimeOrder`: a call that appends has no
  answer yet, so none of the calls before it in the session began after its answer.
* **Columns** (`ColumnarWriterProofs`): `TypeOK` and the four properties of the
  run for any sizes, `StableIsExact` for the SQL types in `StableColumns`. `WidenHolds` (a wider type holds what the old one held) and
  `WidenNarrowest` (it goes no further than the value asks for) are the lemmas;
  the invariant carries both along the rows the inference has seen, and once more
  for the history variable `whole`.
* **Writers** (`SaveWriterProofs`), for any number of saves, any rows, batches
  and buffer cuts, all five formats, failures and deaths at any point, the cuts of
  finding 3 included. With saves that do not overlap (`~Overlap`):
  - `AppendKeepsContent`, also for overlapping appends to a CSV. `Alone` says that
    at most one save works and that its position is the end of the file, so that
    each write is `file \o bytes`; only cutting the closing bracket is left.
  - `Spec => ImplementsExportFile`. What is on disk at a step says nothing of the
    rows in the buffer; `Accounted` says that file and buffer together hold the
    rows that stay and those received, so any first part of the buffer that the
    file sees is a first part of the rows (`TakenUp`).
  - `OkIsReadable`. `Whole` says that file, buffer and the lead still due are
    what a readable file of the same rows has before its end, and that JSON knows
    whether an array has rows yet (`Noticed`), without which the comma before the
    next row would be wrong. It speaks of saves that found a readable file, as
    the property does.
  - `TypeOK`, also for overlapping appends to a CSV: nobody writes behind the end
    of the file, so it has no zeros (`NoHoles`).

  With overlapping appends to one CSV (`CsvAppends`): `AppendsLoseNothing`. Pieces
  of the others are everywhere, so `AllInOrder` is about each save's own pieces,
  `Kept` of the file and then of its buffer: together they are all it got. Whoever
  found the file empty has the header first in its buffer; if two did, the file has
  two, and the property only says that it starts with one.

  All of these rest on lemmas about `Kept`, `Rows`, `Plain` and `Bracketed` of
  `a \o b`. The library's induction theorems take an operator as a parameter,
  which no installed prover can instantiate; the module proves induction over
  naturals and sequences from well-foundedness instead, with a set in place of the
  predicate (`Least`, `Climb`, `SeqClimb`), and gets at the recursive function
  inside `Kept` through a function defined by the same equation (`UpToDefined`).
* **DuckDB** (`DriverProofs`, first part): `TypeOK`, `UsedWhileOpen`,
  `PoisonBarsEveryone`, `NeverStuck`.
* **ClickHouse parsers** (`DriverProofs`, second part): `ParserTypeOK`, `QueryIsExact`,
  `StreamIsExact`, for answers, limits and headers of any size. The reference selects
  the lines that are not blank from the whole answer, so each new line asks for what an
  induction over the answer would give. `Collected` says what the recursive function
  inside `Meaningful` is and is kept by each line, so the invariant carries the induction
  along with the run. `QueryFollows` says what `query` has read of the lines it needs,
  `Twins` that the other loop is in the same state but for the two differences.
* **Pool** (`PoolDriverProofs`): `TypeOK`, `NoHoldAndWait`, `CloseIsFinal`,
  `LateCallRefused`. `ClosingInv` orders taking, marking and waiting;
  `LateInv` says that a call that found the pool gone never asks for a
  connection.

Only model-checked: the liveness properties `CancelReleases`, `ReaderSettles`,
`SaveReturns`, `EveryCallTold`, `CancelFreesLock`, `CallAnswered`, `CallsSettle`
and `CloseReturns` (they need fairness and `ENABLED`, which the prover does not
handle). Every other property of a passing run is also a theorem.

## 6. Not modelled

* Saves that overlap otherwise than as appends to one CSV: the code does nothing
  to order them and any file may come of it, so there is nothing to state.
* The columns of a CSV that is appended to, and columns of one name: a row is
  its number in the models (`hazards` lists both).
* The text of single SQL values (dates, decimals, bytes): formatting by
  libraries, no state.
* `save_query_result` and the other collecting save functions: no caller outside
  tests.
* The macros that forward to the shared drivers, connection and S3 settings:
  single statements.
