# readql in TLA+

readql serves the result of read-only SQL queries on one SQLite file over HTTP,
as CSV or as Parquet, streamed while the query runs. This directory holds TLA+
specifications of its core, TLC configurations that check them on small
instances, and proofs for all instances. Paths below are relative to the
directory of the crate (`src/db/csv.rs` is `src/src/db/csv.rs` from here).

## 1. The system

    client --GET /?sql=--> root (handlers.rs) --get_connection--> pool (db/pool.rs)
                             |  tokio::spawn + Connection::call
                             |  --> thread of the connection: the query's closure
                             |        db/csv.rs:     CsvWriter -> ChunkWriter
                             |        db/parquet.rs: producer -> batch channel
                             |                       -> consumer (blocking thread)
                             |                       -> ArrowWriter -> ChunkWriter
                             |  <-- oneshot: prepared / schema / error
                             |  <-- chunk channel (16 items) --+
                             v
              MetricTrackingStream = response body --chunks--> client
                             |  on None, or on Drop
                             v
                ServerMetrics (metrics.rs) <--snapshot-- GET /api/metrics

| component | state it keeps | operations | hard behaviour | what makes it correct |
|---|---|---|---|---|
| `ChunkWriter`, chunk channel (`db/chunk_writer.rs`) | buffer; bounded mpsc channel | write, flush, blocking send, send of an error by another handle | the receiver goes at any point; a full channel blocks the thread | bytes arrive once and in order; nobody stays blocked behind a receiver that is gone |
| response body (`handlers.rs`) | bytes sent, status, `finished`, a shared row counter | poll_next, finish_tracking, Drop | the end, an error and the drop in any combination; the future of `root` dropped at its await | each request recorded once, with what the client got |
| CSV pipeline (`db/csv.rs`) | statement, position in the result, oneshot | prepare, step, write, flush, report | failure midway; client gone; closure never run | a body ends cleanly only if it is the whole result |
| Parquet pipeline (`db/parquet.rs`) | accumulator, batch channel, encoder | schema, append, batch, encode, close, report from two threads | an error that overtakes queued batches while the consumer closes the file as if all were well | the same, and no row lost between the threads |
| pool and connections (`db/pool.rs`, tokio-rusqlite) | `next_index`; a queue of closures for each connection | get_connection, call, run | head-of-line blocking; closures that survive their request; a thread that dies in a panic | fair sharing; isolation; connections come back |
| sessions (SQLite, through `db/*.rs`) | per connection: the schema last read, a snapshot, a transaction | prepare, take column names, step, finalize | what one request leaves behind meets the next one; another program writes meanwhile | a result is no older than its request; the header belongs to the rows |
| metrics (`metrics.rs`) | atomics, ring of 60 buckets, clients, log of 30 | request_started, record_request, snapshot | no lock or order covers two parts; a late thread meets a ring that moved on | the parts agree at rest; a bucket belongs to one second |
| CSV format (`csv.rs`) | - | escape, write header and row | quoting; NULL, empty string, records of one empty field | a parser gets back the fields |
| Arrow types (`parquet_format.rs`, `db/raw_statement.rs`) | builders | infer, append, finish | types from a declaration or the first row; SQLite's casts | a value is kept, or is a documented conversion |
| Studio page (`ui.rs`, `static/index.html`) | calls under way, what is shown, status line and its timers, history | run, load tables, poll metrics, copy, reload | overlapping calls answered in any order; timers that restore an old text | the page shows one answer, and an old one only after an overlap |
| log of recent queries (`handlers.rs`, `metrics.rs`, the dashboard) | the text of a query on one line | log, show, run again | joining lines changes the meaning of some queries | running a logged query again is the same query |
| startup (`main.rs`, `db/pool.rs`) | connections opened so far | open the pool, bind the listeners, serve | any step may fail | nothing is served by a part of the pool |
| errors (`error.rs`), scripts | - | - | - | - |

`PROJECT.json` lists, under `hazards`, what is hard to test in this code, at the
line where it bites, with the properties that cover it.

## 2. Modules

| module | models | note |
|---|---|---|
| `ChunkWriter` | `ChunkWriter` and the chunk channel | operators; EXTENDed by the pipelines |
| `ResponseBody` | `root` from its await on, `MetricTrackingStream`, the client | EXTENDS `ChunkWriter` |
| `ResultStream` | the promise to a client, whatever the format | abstract specification |
| `CsvStream` | `query_as_csv_stream`, `write_csv_results` | EXTENDS `ResponseBody`, implements `ResultStream` |
| `ParquetStream` | `query_as_parquet_stream`, producer and consumer | EXTENDS `ResponseBody`, implements `ResultStream` |
| `QueryServer` | several requests, the connection threads, the request counters | a stream is a number of items here |
| `ConnectionPool` | startup, the turns of the pool, the sessions of its connections | SQLite's part is external |
| `ServerMetrics` | `metrics.rs` | one step for each atomic and each lock |
| `CsvFormat` | `CsvWriter` against `parseCSV`, the result grid and the list of tables of the page | character by character |
| `ArrowColumn` | type inference, value conversion and batches of one column | a cell says what is left of the value |
| `Studio` | `executeQuery`, `loadTables`, `fetchMetrics`, `pushHistory`, `copySnippet` of the page | a handler runs to its next await in one step |
| `QueryLog` | `format_query_for_logging` and the click on a recent query | a character is one of five classes |
| `MCQueryServer`, `MCConnectionPool`, `MCServerMetrics`, `MCStudio` | model values, event sets, symmetry | for TLC |
| `ResponseBodyProofs` | lemmas about `ChunkWriter` and `ResponseBody` | EXTENDed by the proofs about both pipelines |
| `CsvStreamProofs`, `ParquetStreamProofs` | theorems about the pipelines | |
| `QueryServerProofs`, `ConnectionPoolProofs` | theorems about the counters and queues, the pool and its sessions | |
| `ServerMetricsProofs` | theorems about the metrics and their snapshots | |
| `FormatProofs` | theorems about the CSV and its parser, a column of Parquet and the log of queries, lemmas about `FlattenSeq` | EXTENDS the three, which is why the definitions of `ArrowColumn` and `QueryLog` have names of their own |
| `StudioProofs` | theorems about the page | |

How state and actions correspond to the code:

* **Bytes.** A byte is its position in the output and a chunk is a range of
  positions. `written` counts the bytes `write` has accepted, `shipped` is where
  the buffer begins; `outgoing` is the chunk (if any) for which `blocking_send`
  waits. `received` is what the body has polled, and `Delivered` what
  `bytes_sent` is in the code: the end of a chain of ranges from 0. An `Err` is an
  empty range at the place where it was queued.
* **The receiver.** It is dropped with the future of `root` (`Cancel`), with a
  failed answer (`Reject`) or with the body (`DropBody`). `blocking_send`
  completes when there is a slot (`ShipChunk`) or when the receiver is gone
  (`BrokenPipe`).
* **CSV.** The closure is at `worker`: waiting in the connection's queue, in the
  loop over the rows, in the last flush, failing, or over. A record is its length
  (`RecordSizes`); CsvWriter passes it on in as many writes as its fields need,
  so `WriteBytes` takes any part of what is left. The statement may fail to
  prepare, to bind or to step at every point where the code asks SQLite, and
  `write_row` may fail at any column of a record. The closure may be dropped unrun (`ConnectionClosed`).
* **Parquet.** A batch is its number of rows. The file is a magic number, one
  unit for each row and a footer; the encoder holds units back as long as it
  likes (row groups, its own `BufWriter`) and lets go of the rest on `close`. The
  first step of the statement belongs to the schema, before the answer
  (`OfferSchema`); a result without columns has no batch. The producer's
  `chunk_sender` carries only the error of the query. A builder of a text or blob
  column panics when one batch outgrows its 32-bit offsets (`AppendPanics`): the
  producer's thread unwinds, its senders go without an Err, and the consumer
  closes the file. `CleanEndIsWhole` and the refinement say that this is the only
  way to a clean end without the whole result.
* **QueryServer.** `Dispatch` is `root` from its first line to its await (no other
  task runs `root` in between), `Refuse` the early returns; `calls[c]` is the
  queue of closures of connection c. Producing an item needs a slot in the
  request's channel, and the thread stays with its closure until that returns,
  which is where requests come to wait for each other. A panic (`Panic`) ends the
  thread: it takes along the closures that wait for it, and later calls of that
  connection fail at once (`Call`), because it stays in the pool.
* **ConnectionPool.** A version stands for the whole content of the database, its
  schema and its rows. `Prepare` fixes the column names by the schema the
  connection has read last, or reads it again; `Select` is the first step, which
  takes the snapshot and has SQLite prepare again if the schema is another one.
  The text of a request is a query, BEGIN or COMMIT: a read-only connection
  accepts both, and what they leave is the session the next request finds.
  `Stop` is every early return of the closure, `Exhaust` the end of the result.
  The pool is opened connection by connection (`OpenConnection`), and any step of
  `main` may end the process (`StartFails`).
* **Metrics.** A request goes through the atomics of `request_started` and of
  `record_request` in program order or, with `InOrder = FALSE`, in any order that
  Relaxed operations on different atomics permit; then reads the clock, then
  takes the three locks one after the other. Bytes, rows and duration are one
  `amount`.
* **CSV format.** `Header` and `Row` append the text of a record, which is how
  `write_header` and `write_row` leave it whatever slices `write_escaped_field`
  passes on; `i`, `inQuotes`, `currentVal`, `currentRow` and `rows` are the
  variables of `parseCSV`, with an action for each branch of its loop. The parser
  runs when the body is complete, as `await res.text()` has it. `Spaces` are the
  characters CSV does not quote but `trim` strips. `TableList` is what `loadTables`
  takes from the text, up to the HTML it makes of it.
* **Arrow column.** A declaration is the set of the keywords in it, so a text like
  FLOATING POINT is {FLOA, INT}. A value is a storage class and a form; a cell is
  what the conversion has left of it (`kept`, `rounded`, `truncated`, `default`,
  ...). The forms tell apart what the two ways of the code do: `append_value` parses
  with Rust's parsers, which take "inf" and "nan" for doubles and no blanks around a
  number, and writes a real with ryu; `append_raw_row` leaves both to SQLite, which
  takes "inf" for 0 and whose text of a real may have another exponent or fewer
  digits (`Respelled`, `rendered`). What SQLite's `sqlite3_column_*` functions make
  of a value is taken from SQLite's documentation, as is its affinity (`Favoured`).
* **Studio.** `calls` are the requests the page has sent; an answer may come in any
  order, be an error, or come never. What each of them writes to the page is one
  step, since no other handler runs in between. `numbers` are the row count,
  duration and size, which an error leaves alone. A timer of `copySnippet` carries
  the text it found; `belongs` and `outdated` are history variables that say
  whether it is still the text of the page. `Reload` leaves the history alone.
* **QueryLog.** What matters of a character is whether it is a blank, a line break,
  a quote, a comment's dashes or anything else. `Meaning` is SQL's reading of a
  text, in which layout and comments count only as separators.

## 3. Runs

| run | instance | shows |
|---|---|---|
| `csv_stream` | chunks of 2, channel of 2, records of 1 or 3, up to 3 rows | a record may be shorter and longer than a chunk, the channel fills, the buffer is empty or not at the flush: order of bytes, one report that is true, clean end only for a whole result, an Err for a failed one, chunk sizes, refinement of `ResultStream`; and the closure and the request always end |
| `parquet_stream` | batches of 2, batch channel of 2, chunks of 2, channel of 2, up to 6 rows | three full batches, so the producer blocks on the batch channel while the consumer blocks on the chunk channel; results that are and are not a multiple of the batch; no row lost between the threads, a clean end only for a whole result or after a panic, refinement of `ResultStream`, and both threads and the body end |
| `query_server` | 3 requests, 2 connections, one client that may stall, any thread may die | the counters are exact but for cancelled requests; nobody waits for what cannot come any more; every request ends and returns its connection unless it shares it with the stalled client, whatever threads have died |
| `connection_pool` | 4 requests, 1 or 2 connections, index of 3, one outside commit | the index wraps around in the middle of a turn; a query on each connection before and after the commit, with and without a transaction in between: turns, whole pool, fresh results, stale headers at most once |
| `server_metrics` | 3 requests, 2 clients, ring of 2, log of 2, clock over 3 seconds, atomics in any order, delays of up to 2 seconds | agreement at rest, exact history but for the bucket of a thread that comes too late, log |
| `metrics_snapshot` | 2 requests, 1 snapshot, ring of 2, atomics in program order, delays of up to 2 seconds | what a snapshot guarantees |
| `csv_format` | up to 2 columns, 4 fields in all, 3 characters in all, of quote, comma, CR, LF, a blank and one other | every field of up to two characters next to any other, quotes alone, doubled and at either end, blank lines, a statement without columns: the parser is in step with the writer at every record, the grid is the result, and when the list of tables is right |
| `arrow_column` | declarations of up to 2 of 12 keywords, or none; 3 rows of any of 21 kinds of value; batches of 2 | a full and a partial batch; what inferred types keep, for a declaration and for a first row; where `append_raw_row` and `append_value` differ |
| `studio` | 4 texts, history of 3, 3 calls until a reload, 2 timers | three calls of one kind overlap in every way; the history overflows; a copy during a query and during another copy: what the page may show, and what the history holds |
| `query_log` | queries of up to 6 characters | a literal with blanks of its own, a comment with code below it, blanks in between: which logged queries are the same when they are run again |
| `query_server_gauge`, `stale_header` | the smallest that show it | the disagreements of section 5 |

Bounds. The pipelines have no counter that matters beyond the next boundary:
one chunk more than the channel holds and one batch more than the batch channel
holds reach every blocking situation, and both instances go beyond that. Two
requests on one connection suffice for a queue, two connections for isolation,
and four requests take two connections through an index of 3 that wraps in the
middle of a turn. An outside writer matters by being before, between or after two
requests of one connection, for which one commit is enough in TLC; the proofs
are for any number. The ring is 2 seconds and the clock goes round it, starting at `RingSize` so that
no bucket is claimed by second 0, as in real time; a thread may be late by the
whole ring. `MaxRows`, `MaxItems`, `MaxTime`, `MaxLag`, `MaxVersion`, `MaxCalls`,
`MaxTimers`, `MaxColumns`, `MaxCells`, `MaxField`, `MaxText`, `MaxKeywords` and
`MaxLength` bound what the code leaves open and are named as bounds in
the modules; `ChunkSize` (65536), `ChannelCapacity` (16), `BatchSize` (65356),
`BatchCapacity` (8), `RingSize` (60), `MaxRecent` (30), `MaxHistory` (15) and
`IndexRange` (2^64) are the code's constants, scaled down. A name of a table has up to two characters in
`csv_format`, so a blank is at one of its ends or is all of it; a blank inside a
longer one, which trimming leaves alone, is reached by `TableShows` only. Every
property of a passing run has a mutant, a changed definition
that stands next to its original, under which TLC finds it violated.

Deadlock is checked in all runs but those of the metrics, which end when every
request has been recorded, and that of the log, which ends when a text is as long
as the bound and cannot be run; the page can always be reloaded, and the others have a `Terminated` step for the states in
which everything is over.

Fairness (`FairSpec`, in the runs with liveness properties). Threads and runtime keep running: weak
fairness on the closure, on the producer, on the consumer, on a connection's
thread and on the handler. A connected client keeps reading: weak fairness on
polling the body. The server has no timeout, so about a client that stays and
does not read nothing can be promised, and `Isolation` is what is left: such
clients (`Stalled`) have no fairness on reading, and hold up their own connection
only. A thread that has died is not waited for: its closures are answered when it
dies, and later ones when they are called. hyper drops a body after its end or its error: weak fairness on
`DropResponse` once the body is no longer streaming. Disconnecting is never fair.
A query that steps for ever without yielding a row is outside all models, since
nothing in the code would end it.

## 4. Proofs

Each theorem holds for every value of the constants that the module's assumption
allows (sizes, capacities and ranges are positive; nothing bounds requests, rows,
connections, calls or texts). None of the properties is inductive as it stands,
and what follows names the invariant that is. Every invariant a run checks, every
refinement and `FreshRead` is proved; what is left to TLC is liveness ("Only
model-checked" below).

### The pipelines

| theorem | states, of `CsvStream` | of `ParquetStream` |
|---|---|---|
| `TypeCorrect` | `[]TypeOK` | part of `IInv` |
| `ByteOrder` | `[]BytesInOrder` | the same |
| `OneReport` | `[]RecordedOnce` | the same |
| `TrueReport` | `[]EventMatchesBody` | the same |
| `WholeResult`, `WholeFile` | `[]CleanEndIsWhole` | `[]CleanEndIsWhole` |
| `FailureReaches` | `[]FailureIsQueued` | |
| `RecordCovers` | `[]RecordedCoversDelivered` | |
| `SizesOfChunks` | `[]ChunkSizes` | |
| `RowsKept` | | `[]RowsConserved` |
| `Implementation` | `Spec => ImplementsResult` | `Spec => ImplementsResult` |

The invariant has one layer for each module:

* `WriterInv` (ResponseBodyProofs): received, queued and outgoing items form a
  chain in which every range goes forward (`Positions`), and no end of it lies
  beyond what was written. The lemmas say what appending to a chain and taking
  its head does; each operator of `ChunkWriter` has a lemma that it keeps
  `WriterInv`.
* `BodyInv` (ResponseBodyProofs): `WriterInv`, how `response`, the receiver and
  `finished` go together (`Handler`), and what an event that exists says
  (`Reported`). Each operator of `ResponseBody` has a lemma; a step of the
  producer needs one lemma for all (`ProducerKeepsInv`).
* CsvStream: `Worker`, `Failed`, `Complete` say where the closure stands, which
  decides what the handler was told and whether the buffer is shipped; a closure
  that is over without SQLITE_DONE has an Err as the last item of the channel;
  a complete body was the whole result. The heart is `DrainedIsWhole`: with the
  closure over and the channel drained, either everything was delivered or an
  Err is still to come. `RecordCovers` and `SizesOfChunks` rest on invariants of
  their own, about the records that end within the bytes shipped and about the
  chunks under way.
* ParquetStream: `Producing` and `Consuming` say where each thread stands, and
  `Ended` what a thread that is over has left: an Err for the client, or all of
  its work. A panic makes the second weaker (`AllRows`), which is why `Conserved`
  keeps count of the rows the panic took: fewer are encoded than fetched, and the
  consumer notices. `RowsIn` needs no sum, since all batches but the last are full.

The refinements map `WriteBytes`, `StepDone` and the encoder's writes to
`Produce`, the three answers to `Answer`, polling a chunk to `Deliver`, an Err or a
drop to `Break`, None to `EndCleanly`, and everything else to a stutter.

### Requests and connections

| theorem | states |
|---|---|
| `ExactGauge` | `[]GaugeIsExact` of `QueryServer` |
| `NobodyInVain` | `[]NobodyWaitsInVain` of `QueryServer` |
| `WholePool` | `[]ServesWithWholePool` of `ConnectionPool` |
| `TakeTurns` | `[]RoundRobin` of `ConnectionPool` |
| `StaleHeaders` | `[]StaleHeaderOnce` of `ConnectionPool` |
| `Freshness` | `FreshRead` of `ConnectionPool`, an action property |

`ExactGauge` is inductive once the requests counted are known to be finitely many
(`Counted`), each step moving one of them from a set to another. `NobodyInVain`
rests on two facts that hold together. The queue of a living thread holds its pending
closures, each once, and a dead thread has none (`QueueInv`). And a handler that waits
has a closure, which answers before it runs on and at the latest when it is dropped
(`WaitInv`). What the thread is held up by, if anything, is the closure at the head of
its queue, whose full channel its client can read from.


The `IInv` of the pool adds to the types: requests have open connections (`Pooled`);
a connection runs one closure at a time, and its active statement is that closure's
(`Exclusive`); a snapshot is held by an active statement or a transaction, and is
of the schema read last (`Sessions`); a prepared statement has the schema of its
connection, and no result is newer than that (`Headers`). `FreshRead` is then one
step: when a request is about to step there is no active statement, so an old
snapshot can only be a transaction's. `StaleHeaderOnce` is inductive together with
`Headers`: a header is stale only if the snapshot is newer than all that was read
on the connection before, so nobody else has read that version. For `TakeTurns`,
`Turns` counts the wraps of the index: the connections before the one whose turn
it is are one request ahead, and a wrap in the middle of a round leaves them so.

### Metrics

| theorem | states |
|---|---|
| `TypeCorrect` | `[]TypeOK` |
| `ConsistentAtRest` | `[]AtRestConsistent` |
| `ExactHistory` | `[]HistoryIsExact` |
| `NewestFirst` | `[]RecentIsNewest` |
| `TrueLine` | `[]PointsAreTrue` |
| `CoversSettled` | `[]SnapshotCoversSettled` |

Each atomic counts the requests that are done with it, though they may have others
still to update (`Count`, `Tally`): which ones is said by `Begun` and `Reported`, from
the list each request still has to work through, in any order. A sum over requests is
the cardinality of the set of its units, so the lemmas need no recursion. The
clients' figures add up to those of all requests (`ClientTally`). For the ring,
nobody is ahead of the clock, a bucket never shows more than its second had, and is
exact until a thread a whole round late has been to it (`Ring`). A reader in the
middle of a snapshot is covered for all it has read so far (`Covers`), and what has
been read can only grow behind it (`Kept`). That counters are not negative, which
`TypeOK` claims, follows from what they count.

### The two formats

| theorem | states |
|---|---|
| `InStep` | `[]RecordsInStep` of `CsvFormat` |
| `GridShows` | `[]GridIsResult` of `CsvFormat` |
| `TableShows` | `[]TableListIsExact` of `CsvFormat` |
| `EveryRow` | `[]RowsKeepTheirPlace` of `ArrowColumn` |
| `DeclaredColumn` | `[]DeclaredTypeKeeps` of `ArrowColumn` |
| `SampledColumn` | `[]SampledTypeKeeps` of `ArrowColumn` |
| `TwoAppenders` | `[]AppendersAgree` of `ArrowColumn` |

Both are about concatenations. FlattenSeq is recursive, and the lemmas under it are
by induction: a set of numbers (`Induction`) in place of a predicate, which the
provers could not instantiate. `FlatAt` says which character stands where in a
concatenation: a part, and a place in it.

CSV. `RecordsInStep` speaks of the ends of records only, and says nothing of a parser
in the middle of a field, so the invariant follows it to the character. Its place in
the text is a record, a field of that record and a number `j` of characters of the
field as it was written (`InField`); `Scan` says what it then holds: outside quotes the
first `j` characters, inside them the value up to as many of its characters as begin
there, each quote counted twice, and after the closing quote all of the value.
`ScanStep` is the heart: the character at that place decides which action is taken,
and the action leads to the next place or, for a doubled quote, the one after. It is
where the quoting matters: a quote that is followed by a quote is never the closing one,
since after that one there is a comma or a carriage return (`RecordAt`). At the end of a
record the row is that record, and it is kept if it is not blank (`Kept`). `IInv` is
this place for `i` (`Parsed`) and that the text is the records written (`Written`).
`GridShows` is the same at the end of the text, where all records have been read and,
by the property's condition, kept.

`TableShows` needs of the state only `Written`; the rest is about `TableList` of any
such text. The lines of a text are those of its prefixes, one character more at a time
(`Opens`): a line that is finished stays, the last one grows (`GrowIs`). As long as the
names are plain (`Listable`), each is a line of its own with a carriage return at its
end (`SeveralIs`), which trimming takes away and nothing else (`TrimPlain`). For the
converse take the first name that is not plain. It is not empty and has no white space
at its ends, since no name in the list does (`ListSolid`), so it was written in quotes; its line begins with one quote more than
twice the quotes the name begins with (`QuotedLine`), and so does the line when it is
trimmed, whatever comes after: it is not the name (`QuotedList`).

Parquet. The column is `FlattenSeq(batches)` and the appender; `FlattenAppend` says
that a batch that is sent leaves it as it is. The type is inferred once
(`TypeInferred`), and each cell is what `append_raw_row` makes of its row's value
(`CellsPlaced`); the rest is by the cases of type, storage class and form, for
declarations with any number of keywords. `TwoAppenders` compares the two conversions
value by value, and its four exceptions are where they part.

### The page

| theorem | states |
|---|---|
| `NewestAnswer` | `[]StaleOnlyByOverlap` |
| `PageAgrees` | `[]PageAgreesAtRest` |
| `LatestFirst` | `[]HistoryIsRecency` |

Of two calls of one kind the older was under way when the newer began or has ended
(`Overlaps`), and what a part of the page shows is an answer to a call of its kind
(`Shown`). An answer that comes late is then of a call every newer one overlapped.
`Page` adds what the status and each pending timer say while no query is under way,
and that the numbers are of a query that overlaps all that are (`StatusFits`,
`NumbersFit`). `Recency` is the history read from the end of the list of successes,
position by position; a text that succeeds again moves everything between by one,
in both.

### The log of queries

| theorem | states |
|---|---|
| `ReplayShows` | `[]ReplayIsExact` |

The state is simple (`LogInv`: what is run is the first text or its line, and a line is
logged as it is, `LogAgain`); the proof is about any text and its line. Both
`FormatQueryForLogging` and `Read` are recursive functions over the prefixes of a text,
and the text and its line are compared prefix by prefix: as long as every blank of a
literal is a single space and no comment has ended, they are read alike (`InLine`,
`InLineStep`). Take the first place where that fails.

* It is a blank in a literal (`Blurs`). At that place of what is read the line has
  another character, and what is read never shrinks (`ReadOn`, `LineOn`): the two mean
  different things whatever follows (`Blurred`).
* It is a line break that ends a comment (`Breaks`). The line stays in that comment to
  its end (`LineComments`), and the text is read from there on as if it began there
  (`ReadShift`): the two mean the same if and only if what follows means nothing
  (`Broken`), and then nothing goes wrong there either (`RestSilent`).

`LogMeaning` puts the cases together, with `PlainSilent` for what `Plain` says of each
place.

### Only model-checked

Liveness (`WorkerEnds`, `BodyEnds`, `WorkersEnd`, `Isolation`): the prover has neither
fairness nor ENABLED.

## 5. Where code and documents disagree

Each of these is a run that TLC finds violated; `findings` in `PROJECT.json`
quotes the lines.

1. `GaugeReturnsToZero`: a client that disconnects while its query is being
   prepared leaves `active_requests` one too high for ever. `GaugeIsExact` says
   that nothing else makes it drift.
2. `HeaderNamesColumns`: the column names are taken before the first step. If
   another program has changed the schema since the connection read it, SQLite
   prepares the statement again at that step, and the header is that of the old
   schema. `StaleHeaderOnce` says how often: once for each connection and schema.

Five more are worth knowing, although the properties that hold say them:

* `db/mod.rs:31` has "~1 MB max in-memory"; a chunk may exceed `CHUNK_SIZE` by the
  longest single write, so 16 of them are not bounded by 1 MB (`ChunkSizes`).
* A snapshot is called "point-in-time" (`metrics.rs:250`) but is gathered piece by
  piece; `SnapshotCoversSettled` and `PointsAreTrue` are what it guarantees.
* A malformed query is answered 400, as `error.rs` says, and recorded as 500.
* A row counts as "streamed" when it is fetched, so the rows in the writer's buffer
  and in the channel are recorded although a client that leaves never gets them.
  `RecordedCoversDelivered` is the direction that holds.
* A connection that a request has left in a transaction keeps its snapshot from
  the first query on: later requests, of whatever client, read old data there
  (`FreshRead`). One whose thread has died stays in the pool and fails every
  request that is given it (`Isolation`).

The formats have limits. In CSV, NULL and the empty text are the same,
and a record of one such field is a blank line, which the Studio page drops
(`RecordsInStep` says that nothing else is lost). `loadTables` takes a name that needs
quotes in its CSV form, and trims the others (`TableListIsExact`).
In Parquet a value that does not fit the type of its column is replaced by what
SQLite casts it to, where `append_value`, the function the unit test goes
through, stores NULL: the text "true" in a BOOLEAN column is exported as false. The
texts "inf" and "nan" in a column of doubles are exported as 0, where `append_value`
stores the double (`AppendersAgree`). A real in a column of text, which a first NULL
is enough for, is exported as SQLite writes it, perhaps with fewer digits
(`SampledTypeKeeps`). The log joins the lines of a query, so one with a line comment
or with line breaks in a literal is another query when it is run from the
dashboard (`ReplayIsExact`). And on the page an answer that is slow replaces a
newer one (`StaleOnlyByOverlap`), after which numbers and status may be of
different queries (`PageAgreesAtRest`).

## 6. What is left out

* Panics other than that of the producer, aborts and the shutdown of the process;
  nothing is persisted by the server, so there is no recovery.
* The limit of tokio's blocking threads, compression of the body, HTTP itself.
* A write of the encoder's buffer while it is dropped after its own error: it
  follows an Err and is never delivered.
* Of SQLite's sessions: ATTACH, temporary tables and PRAGMAs, which a request can
  leave behind as it can a transaction; locks and busy timeouts (an outcome of a
  step); the encodings of a Parquet file and its pages.
* Numbers as digits: that `ryu` and SQLite write some reals differently is modelled,
  what they write is not; nor is the last bit of a decimal text with more digits
  than a double has, which the two parsers might round differently. The decoding of
  bytes as UTF-8 on the page, so a blob in CSV is one that decodes.
* What the browser makes of HTML: `loadTables` puts the names into `innerHTML`
  unescaped (`static/index.html:1029`), so a name with `<` or `&`, though it is in
  the list `TableListIsExact` speaks of, is not what the reader sees.
* `last_second` and `last_seen`, which no operation reads back into a figure, the
  averages and rates derived from the ring, and poisoned locks (nothing panics
  while holding one).
* A system clock that is set back. (A thread that is late by `RingSize` seconds or
  more is in the model.)
* On the page: drawing, the settings dialog beyond the reload of the tables, the
  links for export, and two tabs that overwrite each other's stored history.
* The choice of the format from the parameter or the Accept header, and the text
  of answers (`error.rs`): straight-line code without state.
* The benchmark and demo scripts, which are clients and a generator of data.

## 7. Plan

No safety property of a run is left to prove. What would extend the project is more
of the program: the parts of section 6, of which the sessions SQLite keeps (ATTACH,
temporary tables) and two tabs with one stored history have the most state.
