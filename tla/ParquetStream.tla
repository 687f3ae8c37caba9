----------------------------- MODULE ParquetStream -----------------------------
(***************************************************************************)
(* One Parquet request (src/src/db/parquet.rs): the producer steps the     *)
(* query on the connection's thread and gathers rows into batches, the     *)
(* consumer encodes them on a blocking thread and writes the file through  *)
(* the ChunkWriter.  Both hold a sender of the chunk channel; the producer *)
(* uses its own only to report that the query failed.                      *)
(*                                                                         *)
(* A batch is the number of rows in it.  The file is abstracted to a magic *)
(* number, one unit for each row and a footer; the encoder keeps units     *)
(* back (row groups, BufWriter) and releases them when it likes, all of    *)
(* them by the time it is closed.                                          *)
(***************************************************************************)
EXTENDS ResponseBody

CONSTANTS
  BatchSize,       \* ROW_BATCH_SIZE
  BatchCapacity,   \* RECORD_BATCH_CHANNEL_CAPACITY
  MaxRows          \* bound: rows a query may return

ASSUME ParquetAssumption ==
  /\ BatchSize \in Nat \ {0}
  /\ BatchCapacity \in Nat \ {0}
  /\ MaxRows \in Nat

VARIABLES
  producer,     \* where the closure stands, see ProducerSteps
  schema,       \* the oneshot: "empty", "ok", "error", or "gone" unanswered
  accumulated,  \* rows in the RecordBatchAccumulator
  batch,        \* <<n>> while blocking_send waits with a batch of n rows
  exhausted,    \* sqlite3_step has returned SQLITE_DONE
  panicked,     \* the closure ended in a panic
  batches,      \* the batches inside the batch channel
  batchEnd,     \* "open" until its receiver is dropped
  consumer,     \* where consume_parquet_batches stands, see ConsumerSteps
  held,         \* units inside the encoder
  encoded       \* rows given to the encoder

producerVars == <<producer, schema, accumulated, batch, exhausted, panicked>>
batchVars == <<batches, batchEnd>>
consumerVars == <<consumer, held, encoded>>
pipeVars == <<producerVars, batchVars, consumerVars>>
vars == <<writerVars, channelVars, bodyVars, rows, pipeVars>>

\* queued   in the connection's call queue   row      a row is current
\* step     about to step                    last     after SQLITE_DONE
\* sending  the last batch                   failing  the query failed
\* done     the closure and its senders are gone
ProducerSteps == {"queued", "row", "step", "last", "sending", "failing", "done"}

\* absent     not spawned                    creating  in create_parquet_writer
\* receiving  in blocking_recv               writing   in write(&batch)
\* closing    in close, writing the rest     flushing  in close, final flush
\* failing    write or close returned Err    done      the task is over
ConsumerSteps == {"absent", "creating", "receiving", "writing", "closing",
                  "flushing", "failing", "done"}

Init ==
  /\ BodyInit
  /\ producer = "queued" /\ schema = "empty"
  /\ accumulated = 0 /\ batch = <<>> /\ exhausted = FALSE
  /\ panicked = FALSE
  /\ batches = <<>> /\ batchEnd = "open"
  /\ consumer = "absent" /\ held = 0 /\ encoded = 0

--------------------------------------------------------------------------------
(* The producer, on the connection's thread.                               *)

ProducerKeeps == UNCHANGED <<panicked, writerVars, bodyVars, batchVars, consumerVars>>

\* Mutant: the oneshot outlives the closure and is never answered.
DropSchemaSender_Leak == UNCHANGED schema

DropSchemaSender == schema' = "gone"

\* The connection's thread is gone and the closure is dropped unrun.
ConnectionClosed ==
  /\ producer = "queued"
  /\ producer' = "done" /\ DropSchemaSender
  /\ ProducerKeeps /\ UNCHANGED <<channelVars, rows, accumulated, batch, exhausted>>

\* The statement cannot be prepared, or its first step fails.
StartFails ==
  /\ producer = "queued"
  /\ producer' = "done" /\ schema' = "error"
  /\ ProducerKeeps /\ UNCHANGED <<channelVars, rows, accumulated, batch, exhausted>>

\* The first step tells whether there is a row; the schema goes to the handler
\* unless it is gone, which ends the closure.
OfferSchema ==
  /\ producer = "queued"
  /\ \/ /\ Closed
        /\ producer' = "done"
        /\ UNCHANGED <<schema, exhausted>>
     \/ /\ ~Closed /\ MaxRows > 0
        /\ schema' = "ok" /\ producer' = "row"
        /\ UNCHANGED exhausted
     \/ /\ ~Closed
        /\ schema' = "ok" /\ producer' = "last"
        /\ exhausted' = TRUE
  /\ ProducerKeeps /\ UNCHANGED <<channelVars, rows, accumulated, batch>>

\* Count the current row and append it; a full accumulator becomes a batch.
AppendRow ==
  /\ producer = "row"
  /\ rows' = rows + 1
  /\ producer' = "step"
  /\ \/ /\ accumulated + 1 >= BatchSize
        /\ batch' = <<accumulated + 1>>
        /\ accumulated' = 0
     \/ /\ accumulated + 1 < BatchSize
        /\ accumulated' = accumulated + 1
        /\ UNCHANGED batch
  /\ ProducerKeeps /\ UNCHANGED <<channelVars, schema, exhausted>>

\* A builder panics at the row, which has been counted: the text of one batch
\* has outgrown its 32-bit offsets.  The rows gathered go with the accumulator,
\* and no Err is sent.
AppendPanics ==
  /\ producer = "row"
  /\ rows' = rows + 1
  /\ producer' = "done" /\ accumulated' = 0
  /\ panicked' = TRUE
  /\ UNCHANGED <<writerVars, channelVars, bodyVars, schema, batch, exhausted,
                 batchVars, consumerVars>>

\* Mutant: a failing step ends the query quietly.
StepFails_Quietly == producer' = "last" /\ UNCHANGED exhausted

StepFails == producer' = "failing" /\ UNCHANGED exhausted

\* Step the statement, once the batch, if any, is away.
Step ==
  /\ producer = "step" /\ batch = <<>>
  /\ \/ /\ rows < MaxRows
        /\ producer' = "row"
        /\ UNCHANGED exhausted
     \/ /\ producer' = "last"
        /\ exhausted' = TRUE
     \/ StepFails
  /\ ProducerKeeps /\ UNCHANGED <<channelVars, rows, schema, accumulated, batch>>

\* Mutant: only an empty result gets a last batch.
LastBatchDue_IfEmpty == rows = 0

LastBatchDue == accumulated # 0 \/ rows = 0

\* The remainder becomes the last batch, an empty one if there was no row at
\* all.  A result without columns has no batch: finish_batch refuses it.
LastBatch ==
  /\ producer = "last"
  /\ accumulated' = 0
  /\ \/ /\ LastBatchDue
        /\ batch' = <<accumulated>>
        /\ producer' = "sending"
     \/ /\ ~LastBatchDue \/ rows = 0
        /\ producer' = "done"
        /\ UNCHANGED batch
  /\ ProducerKeeps /\ UNCHANGED <<channelVars, rows, schema, exhausted>>

SendBatch ==
  /\ batch # <<>>
  /\ batchEnd = "open" /\ Len(batches) < BatchCapacity
  /\ batches' = batches \o batch
  /\ batch' = <<>>
  /\ producer' = IF producer = "sending" THEN "done" ELSE producer
  /\ UNCHANGED <<writerVars, channelVars, bodyVars, rows, consumerVars,
                 schema, accumulated, exhausted, panicked, batchEnd>>

\* The consumer is gone: nothing is left to produce for.
BatchRefused ==
  /\ batch # <<>> /\ batchEnd = "dropped"
  /\ batch' = <<>>
  /\ producer' = "done"
  /\ ProducerKeeps /\ UNCHANGED <<channelVars, rows, schema, accumulated, exhausted>>

\* Report the failed query on the chunk channel, past the batches under way.
ReportQueryFailure ==
  /\ producer = "failing"
  /\ SendFailure
  /\ producer' = "done"
  /\ UNCHANGED <<bodyVars, rows, schema, accumulated, batch, exhausted, panicked, batchVars, consumerVars>>

--------------------------------------------------------------------------------
(* The consumer, on a blocking thread.                                     *)

ConsumerKeeps == UNCHANGED <<bodyVars, rows, producerVars>>

CreateWriter ==
  /\ consumer = "creating"
  /\ \/ /\ consumer' = "receiving"
        /\ held' = 1
     \/ /\ consumer' = "failing"
        /\ UNCHANGED held
  /\ ConsumerKeeps /\ UNCHANGED <<writerVars, channelVars, batchVars, encoded>>

ReceiveBatch ==
  /\ consumer = "receiving" /\ batches # <<>>
  /\ batches' = Tail(batches)
  /\ held' = held + Head(batches)
  /\ encoded' = encoded + Head(batches)
  /\ consumer' = "writing"
  /\ ConsumerKeeps /\ UNCHANGED <<writerVars, channelVars, batchEnd>>

\* The batch channel is drained and its sender gone: close the encoder, which
\* adds the footer.  The producer may be gone because the query failed.
BatchesEnd ==
  /\ consumer = "receiving" /\ batches = <<>> /\ producer = "done"
  /\ consumer' = "closing"
  /\ held' = held + 1
  /\ ConsumerKeeps /\ UNCHANGED <<writerVars, channelVars, batchVars, encoded>>

\* The encoder writes some of what it holds.
EmitUnits ==
  /\ consumer \in {"writing", "closing"}
  /\ \E n \in 1 .. held :
       /\ Write(n)
       /\ held' = held - n
  /\ ConsumerKeeps /\ UNCHANGED <<channelVars, batchVars, consumer, encoded>>

BatchWritten ==
  /\ consumer = "writing" /\ outgoing = <<>>
  /\ consumer' = "receiving"
  /\ ConsumerKeeps /\ UNCHANGED <<writerVars, channelVars, batchVars, held, encoded>>

CloseFlush ==
  /\ consumer = "closing" /\ held = 0
  /\ Flush
  /\ consumer' = "flushing"
  /\ ConsumerKeeps /\ UNCHANGED <<channelVars, batchVars, held, encoded>>

\* The encoder itself fails, while it writes a batch or the footer.
EncoderFails ==
  /\ consumer \in {"writing", "closing"} /\ outgoing = <<>>
  /\ consumer' = "failing"
  /\ ConsumerKeeps /\ UNCHANGED <<writerVars, channelVars, batchVars, held, encoded>>

Ship ==
  /\ ShipChunk
  /\ UNCHANGED <<bodyVars, rows, pipeVars>>

WriteFails ==
  /\ BrokenPipe
  /\ consumer' = "failing"
  /\ ConsumerKeeps /\ UNCHANGED <<batchVars, held, encoded>>

\* Mutant: the receiver of the batches lives on.
DropBatchEnd_Leak == UNCHANGED batchVars

DropBatchEnd == batchEnd' = "dropped" /\ batches' = <<>>

\* The task ends and with it the receiver of the batches.
ConsumerDone ==
  /\ consumer' = "done"
  /\ DropBatchEnd
  /\ ConsumerKeeps /\ UNCHANGED <<held, encoded>>

ConsumerReturns ==
  /\ consumer = "flushing" /\ outgoing = <<>>
  /\ ConsumerDone
  /\ UNCHANGED <<writerVars, channelVars>>

ReportEncoderFailure ==
  /\ consumer = "failing"
  /\ SendFailure
  /\ ConsumerDone

--------------------------------------------------------------------------------
(* The handler and the client.                                             *)

\* query_as_parquet_stream spawns the consumer as soon as it has the schema.
AcceptStream ==
  /\ schema = "ok"
  /\ Accept
  /\ consumer' = "creating"
  /\ UNCHANGED <<producerVars, batchVars, held, encoded>>

RejectStream ==
  /\ schema \in {"error", "gone"}
  /\ Reject
  /\ DropBatchEnd
  /\ UNCHANGED <<producerVars, consumerVars>>

CancelRequest ==
  /\ Cancel
  /\ DropBatchEnd
  /\ UNCHANGED <<producerVars, consumerVars>>

SendersGone == producer = "done" /\ consumer \in {"absent", "done"}

PollBody == (Poll \/ PollNone(SendersGone)) /\ UNCHANGED pipeVars

DropResponse == DropBody /\ UNCHANGED pipeVars

--------------------------------------------------------------------------------
Produce ==
  \/ ConnectionClosed \/ StartFails \/ OfferSchema
  \/ AppendRow \/ AppendPanics \/ Step \/ LastBatch
  \/ SendBatch \/ BatchRefused \/ ReportQueryFailure

Consume ==
  \/ CreateWriter \/ ReceiveBatch \/ BatchesEnd
  \/ EmitUnits \/ BatchWritten \/ CloseFlush \/ EncoderFails
  \/ Ship \/ WriteFails \/ ConsumerReturns \/ ReportEncoderFailure

Terminated == SendersGone /\ BodyGone /\ UNCHANGED vars

Next ==
  \/ Produce \/ Consume
  \/ AcceptStream \/ RejectStream \/ CancelRequest
  \/ PollBody \/ DropResponse
  \/ Terminated

Spec == Init /\ [][Next]_vars

\* Both threads and the runtime keep running, and a client that stays
\* connected keeps reading; the body is dropped after its end.
Fairness ==
  /\ WF_vars(Produce) /\ WF_vars(Consume)
  /\ WF_vars(AcceptStream \/ RejectStream)
  /\ WF_vars(PollBody)
  /\ WF_vars(DropResponse /\ response # "streaming")

FairSpec == Spec /\ Fairness

--------------------------------------------------------------------------------
\* The batches on their way to the consumer, oldest first.
UnderWay == batches \o batch

\* The rows in a run of batches of which all but the last are full.
RowsIn(s) == IF s = <<>> THEN 0 ELSE (Len(s) - 1) * BatchSize + s[Len(s)]

\* Batches lose and repeat no row: every batch but the last is full, and every
\* row counted is in the accumulator, on its way to the consumer or encoded, as
\* long as somebody takes the batches and no panic took the accumulator away
\* (parquet.rs, execute_parquet_producer and consume_parquet_batches).
RowsConserved ==
  batchEnd = "open" =>
    /\ \A i \in 1 .. Len(UnderWay) - 1 : UnderWay[i] = BatchSize
    /\ ~panicked => rows = accumulated + RowsIn(UnderWay) + encoded

\* The length of a whole file, which has a magic number and a footer.
FileOf(n) == n + 2

\* What is written is all there will be: the whole result, or, after a panic of
\* the producer, a valid file of the batches that were away before it.
Whole ==
  /\ (exhausted /\ encoded = rows) \/ panicked
  /\ written = FileOf(encoded)

\* A body that ends without an error is a whole file, magic number, batches and
\* footer, and lacks rows only if the producer panicked: the consumer closes the
\* file whatever became of the query, and an Err is all that tells a client of a
\* query that failed.  The record counts every row that was read, those lost in
\* a panic too (parquet.rs, the producer and the consumer).
CleanEndIsWhole ==
  response = "complete" =>
    /\ (exhausted /\ encoded = rows) \/ (panicked /\ encoded < rows)
    /\ Delivered = FileOf(encoded)
    /\ \A i \in 1 .. Len(events) : events[i].rows = rows

--------------------------------------------------------------------------------
\* The promise to the client, where a panic of the producer ends the result.
Result == INSTANCE ResultStream WITH
  state <- response, produced <- written,
  whole <- Whole, delivered <- Delivered

\* The Parquet pipeline implements the promise made to the client.
ImplementsResult == Result!Spec

\* The connection and the blocking thread are given back.
WorkersEnd == <>[](producer = "done" /\ consumer \in {"absent", "done"})

\* And the request comes to an end for the client.
BodyEnds == <>BodyGone
================================================================================
