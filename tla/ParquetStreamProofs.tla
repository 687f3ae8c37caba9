-------------------------- MODULE ParquetStreamProofs --------------------------
(***************************************************************************)
(* Theorems about ParquetStream for every chunk size, batch size, channel  *)
(* capacity and number of rows.  The inductive invariant joins that of the *)
(* response body (ResponseBodyProofs) with what the positions of the two   *)
(* threads say of the batches, of the file and of the errors under way;    *)
(* the conservation of rows, the whole file at a clean end and the         *)
(* refinement of ResultStream follow from it.                              *)
(***************************************************************************)
EXTENDS ParquetStream, ResponseBodyProofs

PipeTypeOK ==
  /\ producer \in ProducerSteps
  /\ schema \in {"empty", "ok", "error", "gone"}
  /\ accumulated \in Nat
  /\ batch \in Seq(Nat)
  /\ exhausted \in BOOLEAN
  /\ panicked \in BOOLEAN
  /\ batches \in Seq(Nat)
  /\ batchEnd \in {"open", "dropped"}
  /\ consumer \in ConsumerSteps
  /\ held \in Nat
  /\ encoded \in Nat

Waiting == response \in {"waiting", "streaming"}

\* Where the producer stands tells what it has told the handler, what it has
\* gathered and whether it waits with a batch.
Producing ==
  /\ producer = "queued" =>
       schema = "empty" /\ rows = 0 /\ accumulated = 0 /\ batches = <<>> /\ consumer = "absent"
  /\ schema = "empty" /\ Waiting => producer = "queued"
  /\ producer \in {"row", "step", "last", "sending", "failing"} => schema = "ok"
  /\ schema \in {"error", "gone"} => producer = "done"
  /\ batch # <<>> => producer \in {"step", "sending"}
  /\ producer = "sending" => batch # <<>>
  /\ producer \in {"last", "sending"} => exhausted
  /\ exhausted => producer \in {"last", "sending", "done"}
  /\ panicked => producer = "done" /\ accumulated = 0 /\ ~exhausted
  /\ accumulated < BatchSize /\ accumulated <= rows
  /\ exhausted /\ producer # "last" => accumulated = 0

\* Where the consumer stands tells whether there is a body, who takes batches
\* and how much of the file is written.
Consuming ==
  /\ consumer = "absent" <=> response \in {"waiting", "rejected", "cancelled"}
  /\ consumer # "absent" => schema = "ok"
  /\ consumer \in {"absent", "creating"} => held = 0 /\ encoded = 0 /\ written = 0
  /\ batchEnd = "dropped" <=> consumer = "done" \/ response \in {"rejected", "cancelled"}
  /\ batchEnd = "dropped" => batches = <<>>
  /\ outgoing # <<>> => consumer \in {"writing", "closing", "flushing"}
  /\ consumer \in {"receiving", "writing"} => written + held = 1 + encoded
  /\ consumer \in {"closing", "flushing"} =>
       written + held = 2 + encoded /\ producer = "done" /\ batches = <<>>
  /\ consumer = "flushing" => held = 0 /\ shipped = written
  /\ consumer \in {"failing", "done"} => written <= 2 + encoded
  /\ written = 2 + encoded => producer = "done"

\* The rows under way, while somebody takes them.
Full(s) == \A i \in 1 .. Len(s) : s[i] = BatchSize
FullButLast(s) == \A i \in 1 .. Len(s) - 1 : s[i] = BatchSize

Conserved ==
  batchEnd = "open" =>
    /\ FullButLast(UnderWay)
    /\ producer \in {"row", "step", "last"} => Full(UnderWay)
    /\ ~panicked => rows = accumulated + RowsIn(UnderWay) + encoded
    /\ panicked => rows > RowsIn(UnderWay) + encoded

\* An Err waits for the client, if there is one.
ErrWaits == Waiting => \E i \in 1 .. Len(channel) : channel[i].err

\* All rows of the query are in the file, or all that a panic has left.
AllRows == (exhausted /\ encoded = rows) \/ (panicked /\ encoded < rows)

\* A thread that has given up has left an Err for the client, and the one that
\* has not has done all its work.
Ended ==
  /\ producer = "done" /\ batchEnd = "open" /\ schema = "ok" =>
       exhausted \/ panicked \/ ErrWaits
  /\ consumer = "done" =>
       \/ ErrWaits
       \/ /\ producer = "done" /\ AllRows
          /\ written = 2 + encoded /\ shipped = written

Complete ==
  response = "complete" =>
    /\ SendersGone /\ AllRows
    /\ written = 2 + encoded /\ Delivered = written
    /\ \A i \in 1 .. Len(events) : events[i].rows = rows

IInv == BodyInv /\ PipeTypeOK /\ Producing /\ Consuming /\ Conserved /\ Ended /\ Complete

--------------------------------------------------------------------------------
(* Runs of batches.                                                        *)

\* A run of full batches holds as many rows as its length tells.
LEMMA FullRun ==
  ASSUME ParquetAssumption, NEW s \in Seq(Nat), Full(s)
  PROVE  FullButLast(s) /\ RowsIn(s) = Len(s) * BatchSize
<1>1. BatchSize \in Nat /\ Len(s) \in Nat
  BY DEF ParquetAssumption
<1>2. FullButLast(s)
  BY <1>1 DEF Full, FullButLast
<1>3. CASE s = <<>>
  <2>1. Len(s) = 0 /\ 0 * BatchSize = 0
    BY <1>1, <1>3
  <2> QED BY <1>2, <1>3, <2>1 DEF RowsIn
<1>4. CASE s # <<>>
  <2>1. Len(s) \in 1 .. Len(s)
    BY <1>1, <1>4, EmptySeq
  <2>2. s[Len(s)] = BatchSize
    BY <2>1 DEF Full
  <2>3. (Len(s) - 1) * BatchSize + BatchSize = Len(s) * BatchSize
    BY <1>1
  <2> QED BY <1>2, <1>4, <2>2, <2>3 DEF RowsIn
<1> QED BY <1>3, <1>4

\* A batch behind a run of full ones adds its rows to the run (parquet.rs, the
\* producer's append and finish).
LEMMA RunAppend ==
  ASSUME ParquetAssumption, NEW s \in Seq(Nat), Full(s), NEW n \in Nat
  PROVE  /\ s \o <<n>> \in Seq(Nat)
         /\ FullButLast(s \o <<n>>)
         /\ n = BatchSize => Full(s \o <<n>>)
         /\ RowsIn(s \o <<n>>) = RowsIn(s) + n
<1> DEFINE t == s \o <<n>>
           k == Len(s)
<1>1. /\ t \in Seq(Nat) /\ k \in Nat /\ Len(t) = k + 1 /\ t # <<>>
      /\ t[k + 1] = n /\ \A i \in 1 .. k : t[i] = s[i]
  <2>1. t = Append(s, n)
    BY AppendIsConcat
  <2> QED BY <2>1, AppendProperties, LenProperties
<1>2. \A i \in 1 .. k : s[i] = BatchSize
  BY DEF Full
<1> HIDE DEF t, k
<1>3. FullButLast(t)
  BY <1>1, <1>2 DEF FullButLast
<1>4. n = BatchSize => Full(t)
  BY <1>1, <1>2 DEF Full
<1>5. RowsIn(s) = k * BatchSize
  BY FullRun DEF k
<1>6. RowsIn(t) = (k + 1 - 1) * BatchSize + n
  BY <1>1 DEF RowsIn
<1>7. k + 1 - 1 = k
  BY <1>1
<1> QED BY <1>1, <1>3, <1>4, <1>5, <1>6, <1>7 DEF t

\* The first batch takes its rows from the run (parquet.rs, the consumer's
\* receive).
LEMMA RunTail ==
  ASSUME ParquetAssumption, NEW s \in Seq(Nat), s # <<>>, FullButLast(s)
  PROVE  /\ FullButLast(Tail(s)) /\ (Full(s) => Full(Tail(s)))
         /\ RowsIn(s) = Head(s) + RowsIn(Tail(s))
         /\ Head(s) \in Nat
<1> DEFINE t == Tail(s)
           k == Len(s)
<1>1. /\ k \in Nat \ {0} /\ s[1] = Head(s) /\ Head(s) \in Nat
      /\ t \in Seq(Nat) /\ Len(t) = k - 1
      /\ \A i \in 1 .. Len(t) : t[i] = s[i + 1]
      /\ BatchSize \in Nat
  BY HeadTailProperties, EmptySeq DEF ParquetAssumption
<1>2. \A i \in 1 .. k - 1 : s[i] = BatchSize
  BY DEF FullButLast
<1>3. RowsIn(s) = (k - 1) * BatchSize + s[k]
  BY DEF RowsIn
<1>4. Full(s) => \A i \in 1 .. k : s[i] = BatchSize
  BY DEF Full
<1> HIDE DEF t, k
<1>5. FullButLast(t)
  <2> SUFFICES ASSUME NEW i \in 1 .. Len(t) - 1 PROVE t[i] = BatchSize
    BY DEF FullButLast
  <2>1. i \in 1 .. Len(t) /\ i + 1 \in 1 .. k - 1
    BY <1>1
  <2> QED BY <1>1, <1>2, <2>1
<1>6. Full(s) => Full(t)
  <2> SUFFICES ASSUME Full(s), NEW i \in 1 .. Len(t) PROVE t[i] = BatchSize
    BY DEF Full
  <2>1. i + 1 \in 1 .. k
    BY <1>1
  <2> QED BY <1>1, <1>4, <2>1
<1>7. CASE k = 1
  <2>1. t = <<>> /\ RowsIn(t) = 0
    BY <1>1, <1>7, EmptySeq DEF RowsIn
  <2>2. (k - 1) * BatchSize = 0
    BY <1>1, <1>7
  <2> QED BY <1>1, <1>3, <1>5, <1>6, <1>7, <2>1, <2>2 DEF t
<1>8. CASE k # 1
  <2>1. /\ k - 1 \in 1 .. Len(t) /\ Len(t) = k - 1 /\ k - 1 + 1 = k
        /\ 1 \in 1 .. k - 1 /\ t # <<>>
    BY <1>1, <1>8
  <2>2. t[Len(t)] = s[k] /\ Head(s) = BatchSize
    BY <1>1, <1>2, <2>1
  <2>3. RowsIn(t) = (k - 1 - 1) * BatchSize + s[k]
    BY <2>1, <2>2 DEF RowsIn
  <2>4. (k - 1) * BatchSize = BatchSize + (k - 1 - 1) * BatchSize
    BY <1>1
  <2>5. s[k] \in Nat /\ (k - 1 - 1) * BatchSize \in Int
    BY <1>1, <2>1, <2>2
  <2> QED BY <1>1, <1>3, <1>5, <1>6, <2>2, <2>3, <2>4, <2>5 DEF t
<1> QED BY <1>7, <1>8

\* Taking the first batch off the channel takes it off the run under way.
LEMMA UnderWayTail ==
  ASSUME NEW s \in Seq(Nat), NEW b \in Seq(Nat), s # <<>>
  PROVE  /\ s \o b \in Seq(Nat) /\ s \o b # <<>>
         /\ Tail(s) \o b = Tail(s \o b) /\ Head(s \o b) = Head(s)
<1> DEFINE t == s \o b
           left == Tail(s) \o b
<1>1. Len(s) \in Nat \ {0} /\ Len(b) \in Nat
  BY EmptySeq, LenProperties
<1>2. /\ t \in Seq(Nat) /\ Len(t) = Len(s) + Len(b)
      /\ \A i \in 1 .. Len(s) + Len(b) : t[i] = IF i <= Len(s) THEN s[i] ELSE b[i - Len(s)]
  BY ConcatProperties
<1>3. /\ Tail(s) \in Seq(Nat) /\ Len(Tail(s)) = Len(s) - 1
      /\ \A i \in 1 .. Len(s) - 1 : Tail(s)[i] = s[i + 1]
  BY HeadTailProperties
<1>4. /\ left \in Seq(Nat) /\ Len(left) = (Len(s) - 1) + Len(b)
      /\ \A i \in 1 .. (Len(s) - 1) + Len(b) :
           left[i] = IF i <= Len(s) - 1 THEN Tail(s)[i] ELSE b[i - (Len(s) - 1)]
  BY <1>3, ConcatProperties
<1> HIDE DEF t, left
<1>5. t # <<>> /\ Head(t) = Head(s)
  <2>1. t # <<>>
    BY <1>1, <1>2, EmptySeq
  <2>2. t[1] = s[1]
    BY <1>1, <1>2
  <2> QED BY <2>1, <2>2
<1>6. /\ Tail(t) \in Seq(Nat) /\ Len(Tail(t)) = Len(t) - 1
      /\ \A i \in 1 .. Len(Tail(t)) : Tail(t)[i] = t[i + 1]
  BY <1>2, <1>5, HeadTailProperties
<1>7. ASSUME NEW i \in 1 .. (Len(s) - 1) + Len(b) PROVE left[i] = t[i + 1]
  <2>1. i + 1 \in 1 .. Len(s) + Len(b)
    BY <1>1
  <2>2. CASE i <= Len(s) - 1
    <3>1. i \in 1 .. Len(s) - 1 /\ i + 1 <= Len(s)
      BY <1>1, <2>2
    <3> QED BY <1>2, <1>3, <1>4, <2>1, <2>2, <3>1
  <2>3. CASE ~(i <= Len(s) - 1)
    <3>1. ~(i + 1 <= Len(s)) /\ (i + 1) - Len(s) = i - (Len(s) - 1)
      BY <1>1, <2>3
    <3> QED BY <1>2, <1>4, <2>1, <2>3, <3>1
  <2> QED BY <2>2, <2>3
<1>8. Len(left) = Len(Tail(t))
  BY <1>1, <1>2, <1>4, <1>6
<1>9. \A i \in 1 .. Len(left) : left[i] = Tail(t)[i]
  BY <1>4, <1>6, <1>7, <1>8
<1>10. left = Tail(t)
  BY <1>4, <1>6, <1>8, <1>9, SeqEqual
<1> QED BY <1>2, <1>5, <1>10 DEF t, left

\* A run under way keeps its rows when its last batch is sent.
LEMMA UnderWaySent ==
  ASSUME NEW s \in Seq(Nat), NEW b \in Seq(Nat)
  PROVE  (s \o b) \o <<>> = s \o b /\ s \o <<>> = s /\ s \o b \in Seq(Nat)
<1>1. s \o b \in Seq(Nat)
  BY ConcatProperties
<1> QED BY <1>1, ConcatEmptySeq

\* The rows of a run are a number.
LEMMA RowsAreNat ==
  ASSUME ParquetAssumption, NEW s \in Seq(Nat)
  PROVE  RowsIn(s) \in Nat
<1>1. CASE s = <<>>
  BY <1>1 DEF RowsIn
<1>2. CASE s # <<>>
  <2>1. Len(s) \in Nat \ {0} /\ s[Len(s)] \in Nat /\ BatchSize \in Nat
    BY <1>2, EmptySeq DEF ParquetAssumption
  <2>2. (Len(s) - 1) * BatchSize \in Nat
    BY <2>1
  <2> QED BY <1>2, <2>1, <2>2 DEF RowsIn
<1> QED BY <1>1, <1>2

--------------------------------------------------------------------------------
\* The invariant holds initially.
LEMMA InitIInv == ParquetAssumption /\ Init => IInv
<1> SUFFICES ASSUME ParquetAssumption, Init PROVE IInv
  OBVIOUS
<1>1. BodyInv
  BY BodyInitInv DEF Init
<1>2. PipeTypeOK
  <2>1. batch \in Seq(Nat) /\ batches \in Seq(Nat)
    BY DEF Init
  <2>2. exhausted \in BOOLEAN /\ panicked \in BOOLEAN
    BY DEF Init
  <2> QED BY <2>1, <2>2 DEF Init, PipeTypeOK, ProducerSteps, ConsumerSteps
<1>3. Producing /\ Consuming
  BY DEF ParquetAssumption, Init, BodyInit, WriterInit, Producing, Consuming
<1>4. Conserved
  <2>1. UnderWay = <<>>
    BY DEF Init, UnderWay
  <2> QED BY <2>1 DEF Init, BodyInit, Conserved, FullButLast, RowsIn
<1>5. Ended /\ Complete
  BY DEF Init, BodyInit, Ended, Complete
<1> QED BY <1>1, <1>2, <1>3, <1>4, <1>5 DEF IInv

\* The invariant does not depend on anything outside vars.
LEMMA StutterKeepsIInv == IInv /\ UNCHANGED vars => IInv'
<1> SUFFICES ASSUME IInv, UNCHANGED vars PROVE IInv'
  OBVIOUS
<1> USE DEF vars, pipeVars, producerVars, batchVars, consumerVars
<1>1. BodyInv'
  BY StutterKeepsInv, ProducerKeepsInv
     DEF IInv, BodyInv, BodyTypeOK, channelVars
<1>2. PipeTypeOK'
  BY DEF IInv, PipeTypeOK
<1>3. (Producing /\ Consuming /\ Conserved)'
  BY DEF IInv, Producing, Consuming, Conserved, Waiting, UnderWay, writerVars, bodyVars
<1>4. (Ended /\ Complete)'
  BY DEF IInv, Ended, Complete, ErrWaits, Waiting, AllRows, SendersGone, writerVars,
         channelVars, bodyVars, trackingVars, Delivered, End
<1> QED BY <1>1, <1>2, <1>3, <1>4 DEF IInv

\* Whoever acts has not ended, so the body is not complete (parquet.rs).
LEMMA ActorsAreActive ==
  ASSUME IInv
  PROVE  /\ Produce => producer # "done" /\ response # "complete"
         /\ Consume => consumer \notin {"absent", "done"} /\ response # "complete"
<1>1. Produce => producer # "done"
  BY DEF IInv, Producing, Produce, ConnectionClosed, StartFails, OfferSchema, AppendRow,
         AppendPanics, Step, LastBatch, SendBatch, BatchRefused, ReportQueryFailure
<1>2. Consume => consumer \notin {"absent", "done"}
  BY DEF IInv, Consuming, Consume, CreateWriter, ReceiveBatch, BatchesEnd, EmitUnits,
         BatchWritten, CloseFlush, EncoderFails, Ship, WriteFails, ConsumerReturns,
         ReportEncoderFailure, ShipChunk, BrokenPipe
<1> QED BY <1>1, <1>2 DEF IInv, Complete, SendersGone

\* An error that has been sent waits, or there is nobody to wait for
\* (blocking_send of Err).
LEMMA SentErrWaits ==
  ASSUME BodyInv, SendFailure, UNCHANGED bodyVars
  PROVE  ErrWaits'
<1>1. CASE Closed
  <2>1. ~Waiting
    BY <1>1 DEF BodyInv, Handler, Waiting
  <2> QED BY <2>1 DEF ErrWaits, Waiting, bodyVars
<1>2. CASE ~Closed
  <2>1. channel' = Append(channel, Failure) /\ channel \in Seq(Item)
    BY <1>2 DEF SendFailure, BodyInv, BodyTypeOK, WriterTypeOK
  <2>2. Failure \in Item /\ Failure.err
    BY PositionsAreNat DEF Failure, Item, BodyInv, BodyTypeOK
  <2>3. /\ Len(channel') \in 1 .. Len(channel')
        /\ channel'[Len(channel')] = Failure
    BY <2>1, <2>2, AppendProperties, LenProperties
  <2> QED BY <2>2, <2>3 DEF ErrWaits
<1> QED BY <1>1, <1>2

\* An error keeps waiting while items are queued behind it.
LEMMA QueuedErrWaits ==
  ASSUME BodyInv, ErrWaits, UNCHANGED bodyVars,
         \/ UNCHANGED channel
         \/ ShipChunk
         \/ SendFailure
  PROVE  ErrWaits'
<1>1. Waiting' = Waiting
  BY DEF Waiting, bodyVars
<1>2. CASE UNCHANGED channel
  BY <1>1, <1>2 DEF ErrWaits
<1>3. CASE ShipChunk
  <2>1. /\ channel' = channel \o outgoing
        /\ channel \in Seq(Item) /\ outgoing \in Seq(Item)
    BY <1>3 DEF ShipChunk, BodyInv, BodyTypeOK, WriterTypeOK
  <2>2. \A i \in 1 .. Len(channel) : i \in 1 .. Len(channel') /\ channel'[i] = channel[i]
    BY <2>1, ConcatProperties, LenProperties
  <2> QED BY <1>1, <2>2 DEF ErrWaits
<1>4. CASE SendFailure
  BY <1>4, SentErrWaits
<1> QED BY <1>2, <1>3, <1>4

\* What every step of the producer leaves alone, and what follows from that for
\* the body and the part of the invariant about its clean end.
LEMMA ProducerFrame ==
  ASSUME IInv, Produce
  PROVE  /\ BodyInv' /\ Complete'
         /\ UNCHANGED <<consumerVars, bodyVars, writerVars, receiver, received, batchEnd>>
         /\ Waiting' = Waiting /\ producer # "done"
         /\ ErrWaits => ErrWaits'
<1> USE DEF IInv
<1>1. UNCHANGED <<consumerVars, bodyVars, writerVars, receiver, received, batchEnd>>
  BY DEF Produce, ConnectionClosed, StartFails, OfferSchema, AppendRow, AppendPanics, Step,
         LastBatch, SendBatch, BatchRefused, ReportQueryFailure, SendFailure, ProducerKeeps,
         channelVars, batchVars
<1>2. UNCHANGED channel \/ SendFailure
  BY DEF Produce, ConnectionClosed, StartFails, OfferSchema, AppendRow, AppendPanics, Step,
         LastBatch, SendBatch, BatchRefused, ReportQueryFailure, channelVars
<1>3. rows' = rows \/ rows' = rows + 1
  BY DEF Produce, ConnectionClosed, StartFails, OfferSchema, AppendRow, AppendPanics, Step,
         LastBatch, SendBatch, BatchRefused, ReportQueryFailure
<1>4. WriterInv'
  BY <1>1, <1>2, StutterKeepsInv, SendFailureKeepsInv DEF BodyInv, channelVars
<1>5. rows' \in Nat
  BY <1>3 DEF BodyInv, BodyTypeOK
<1>6. BodyInv'
  BY <1>1, <1>4, <1>5, ProducerKeepsInv
<1>7. producer # "done" /\ Complete'
  <2>1. producer # "done" /\ response # "complete" /\ response' = response
    BY <1>1, ActorsAreActive DEF bodyVars
  <2> QED BY <2>1 DEF Complete
<1>8. Waiting' = Waiting /\ (ErrWaits => ErrWaits')
  BY <1>1, <1>2, QueuedErrWaits DEF Waiting, bodyVars
<1> QED BY <1>1, <1>6, <1>7, <1>8

\* Every step of the producer keeps the invariant (parquet.rs,
\* execute_parquet_producer).
LEMMA ProduceKeepsIInv ==
  ASSUME ParquetAssumption, IInv, Produce
  PROVE  IInv'
<1> USE DEF IInv
<1>0. /\ BodyInv' /\ Complete'
      /\ UNCHANGED <<consumer, held, encoded, response, finished, events, written, shipped,
                     outgoing, receiver, received, batchEnd>>
      /\ Waiting' = Waiting /\ Closed' = Closed /\ producer # "done"
      /\ ErrWaits => ErrWaits'
  BY ProducerFrame DEF consumerVars, bodyVars, trackingVars, writerVars, Closed
<1>a. /\ Waiting => ~Closed
      /\ accumulated \in Nat /\ BatchSize \in Nat \ {0} /\ rows \in Nat
      /\ batch \in Seq(Nat) /\ batches \in Seq(Nat)
      /\ UnderWay \in Seq(Nat)
      /\ batches \o <<>> = batches
  BY UnderWaySent DEF BodyInv, BodyTypeOK, Handler, Waiting, PipeTypeOK, ParquetAssumption,
         UnderWay
<1>1. CASE ConnectionClosed \/ StartFails \/ OfferSchema
  <2>1. /\ producer = "queued" /\ producer' \in {"done", "row", "last"}
        /\ UNCHANGED <<channel, rows, accumulated, batch, panicked, batches>>
        /\ \/ schema' \in {"gone", "error"} /\ producer' = "done" /\ UNCHANGED exhausted
           \/ schema' = schema /\ producer' = "done" /\ Closed /\ UNCHANGED exhausted
           \/ schema' = "ok" /\ producer' = "row" /\ ~Closed /\ UNCHANGED exhausted
           \/ schema' = "ok" /\ producer' = "last" /\ ~Closed /\ exhausted' = TRUE
    BY <1>1 DEF ConnectionClosed, StartFails, OfferSchema, DropSchemaSender, ProducerKeeps,
                channelVars, batchVars
  <2>2. PipeTypeOK'
    BY <1>0, <2>1 DEF PipeTypeOK, ProducerSteps
  <2>3. Producing'
    BY <1>0, <1>a, <2>1 DEF Producing, PipeTypeOK
  <2>4. Consuming'
    BY <1>0, <2>1 DEF Consuming, Producing
  <2>5. batches = <<>> /\ batch = <<>> /\ UnderWay = <<>> /\ UnderWay' = <<>>
    BY <2>1 DEF Producing, UnderWay
  <2>6. Conserved'
    BY <1>0, <2>1, <2>5 DEF Conserved, Full, FullButLast, RowsIn, Producing
  <2>7. Ended'
    BY <1>0, <1>a, <2>1 DEF Ended, Producing, Consuming
  <2> QED BY <1>0, <2>2, <2>3, <2>4, <2>6, <2>7
<1>2. CASE AppendRow
  <2>1. /\ producer = "row" /\ producer' = "step" /\ rows' = rows + 1
        /\ UNCHANGED <<channel, schema, exhausted, panicked, batches>>
        /\ \/ /\ accumulated + 1 = BatchSize /\ batch' = <<BatchSize>> /\ accumulated' = 0
           \/ /\ accumulated + 1 < BatchSize /\ accumulated' = accumulated + 1
              /\ UNCHANGED batch
        /\ batch = <<>> /\ ~exhausted /\ ~panicked /\ schema = "ok"
    <3>1. accumulated < BatchSize
      BY DEF Producing
    <3>2. accumulated + 1 >= BatchSize => accumulated + 1 = BatchSize
      BY <3>1, <1>a
    <3>3. /\ producer = "row" /\ batch = <<>> /\ ~exhausted /\ ~panicked /\ schema = "ok"
      BY <1>2 DEF AppendRow, Producing
    <3> QED BY <1>2, <3>2, <3>3 DEF AppendRow, ProducerKeeps, channelVars, batchVars
  <2>2. PipeTypeOK'
    <3>1. accumulated' \in Nat
      BY <1>a, <2>1
    <3>2. <<BatchSize>> \in Seq(Nat)
      BY <1>a
    <3>3. batch' \in Seq(Nat)
      BY <1>a, <2>1, <3>2
    <3> QED BY <1>0, <2>1, <3>1, <3>3 DEF PipeTypeOK, ProducerSteps
  <2>3. Producing' /\ Consuming'
    BY <1>0, <1>a, <2>1 DEF Producing, Consuming
  <2>4. Conserved'
    <3> SUFFICES ASSUME batchEnd = "open" PROVE Conserved'
      BY <1>0 DEF Conserved
    <3>1. /\ UnderWay = batches /\ Full(batches) /\ encoded \in Nat /\ RowsIn(batches) \in Nat
          /\ rows = accumulated + RowsIn(batches) + encoded
      BY <1>a, <2>1, RowsAreNat DEF Conserved, UnderWay, PipeTypeOK
    <3>2. CASE batch' = <<BatchSize>> /\ accumulated + 1 = BatchSize /\ accumulated' = 0
      <4>1. UnderWay' = batches \o <<BatchSize>>
        BY <2>1, <3>2 DEF UnderWay
      <4>2. /\ Full(UnderWay') /\ FullButLast(UnderWay')
            /\ RowsIn(UnderWay') = RowsIn(batches) + BatchSize
        BY <1>a, <3>1, <4>1, RunAppend
      <4>3. encoded' = encoded /\ rows' = rows + 1
        BY <1>0, <2>1
      <4>4. rows' = accumulated' + RowsIn(UnderWay') + encoded'
        BY <1>a, <3>1, <3>2, <4>2, <4>3
      <4> QED BY <2>1, <4>2, <4>4 DEF Conserved
    <3>3. CASE batch' = batch /\ accumulated' = accumulated + 1
      <4>1. UnderWay' = batches
        BY <1>a, <2>1, <3>3 DEF UnderWay
      <4>2. FullButLast(batches)
        BY <1>a, <3>1, FullRun
      <4>3. rows' = accumulated' + RowsIn(UnderWay') + encoded'
        BY <1>0, <1>a, <2>1, <3>1, <3>3, <4>1
      <4> QED BY <2>1, <3>1, <4>1, <4>2, <4>3 DEF Conserved
    <3> QED BY <2>1, <3>2, <3>3
  <2>5. Ended'
    BY <1>0, <2>1 DEF Ended
  <2> QED BY <1>0, <2>2, <2>3, <2>4, <2>5
<1>3. CASE AppendPanics
  <2>1. /\ producer = "row" /\ producer' = "done" /\ rows' = rows + 1 /\ accumulated' = 0
        /\ panicked' = TRUE
        /\ UNCHANGED <<channel, schema, exhausted, batch, batches>>
        /\ batch = <<>> /\ ~exhausted /\ ~panicked /\ schema = "ok"
    BY <1>3 DEF AppendPanics, Producing, channelVars, batchVars
  <2>2. PipeTypeOK'
    BY <1>0, <2>1 DEF PipeTypeOK, ProducerSteps
  <2>3. Producing' /\ Consuming'
    BY <1>0, <1>a, <2>1 DEF Producing, Consuming
  <2>4. Conserved'
    <3> SUFFICES ASSUME batchEnd = "open" PROVE Conserved'
      BY <1>0 DEF Conserved
    <3>1. /\ UnderWay' = UnderWay /\ FullButLast(UnderWay) /\ encoded \in Nat
          /\ RowsIn(UnderWay) \in Nat
          /\ rows = accumulated + RowsIn(UnderWay) + encoded
      BY <1>a, <2>1, RowsAreNat DEF Conserved, UnderWay, PipeTypeOK
    <3>2. rows' > RowsIn(UnderWay') + encoded'
      BY <1>0, <1>a, <2>1, <3>1
    <3> QED BY <2>1, <3>1, <3>2 DEF Conserved
  <2>5. Ended'
    BY <1>0, <2>1 DEF Ended
  <2> QED BY <1>0, <2>2, <2>3, <2>4, <2>5
<1>4. CASE Step
  <2>1. /\ producer = "step" /\ producer' \in {"row", "last", "failing"} /\ batch = <<>>
        /\ exhausted' = IF producer' = "last" THEN TRUE ELSE exhausted
        /\ UNCHANGED <<channel, rows, schema, accumulated, batch, panicked, batches>>
        /\ ~exhausted /\ ~panicked /\ schema = "ok"
    BY <1>4 DEF Step, StepFails, Producing, ProducerKeeps, channelVars, batchVars
  <2>2. PipeTypeOK'
    BY <1>0, <2>1 DEF PipeTypeOK, ProducerSteps
  <2>3. Producing' /\ Consuming'
    BY <1>0, <1>a, <2>1 DEF Producing, Consuming, PipeTypeOK
  <2>4. Conserved'
    BY <1>0, <2>1 DEF Conserved, UnderWay
  <2>5. Ended'
    BY <1>0, <2>1 DEF Ended
  <2> QED BY <1>0, <2>2, <2>3, <2>4, <2>5
<1>5. CASE LastBatch
  <2>1. /\ producer = "last" /\ accumulated' = 0 /\ exhausted /\ ~panicked
        /\ \/ batch' = <<accumulated>> /\ producer' = "sending"
           \/ accumulated = 0 /\ producer' = "done" /\ UNCHANGED batch
        /\ UNCHANGED <<channel, rows, schema, exhausted, panicked, batches>>
        /\ batch = <<>> /\ schema = "ok"
    <3>1. producer = "last" /\ exhausted /\ ~panicked /\ batch = <<>> /\ schema = "ok"
      BY <1>5 DEF LastBatch, Producing
    <3>2. rows = 0 => accumulated = 0
      BY <1>a DEF Producing
    <3>3. \/ batch' = <<accumulated>> /\ producer' = "sending"
          \/ /\ ~LastBatchDue \/ rows = 0
             /\ producer' = "done" /\ UNCHANGED batch
      BY <1>5 DEF LastBatch
    <3> QED BY <1>5, <3>1, <3>2, <3>3 DEF LastBatch, LastBatchDue, ProducerKeeps, channelVars, batchVars
  <2>2. PipeTypeOK'
    <3>1. <<accumulated>> \in Seq(Nat)
      BY <1>a
    <3>2. batch' \in Seq(Nat)
      BY <1>a, <2>1, <3>1
    <3> QED BY <1>0, <2>1, <3>2 DEF PipeTypeOK, ProducerSteps
  <2>3. Producing' /\ Consuming'
    <3>1. <<accumulated>> # <<>>
      OBVIOUS
    <3>2. batch' # <<>> <=> producer' = "sending"
      BY <2>1, <3>1
    <3>3. Producing'
      BY <1>0, <1>a, <2>1, <3>2 DEF Producing
    <3> QED BY <1>0, <2>1, <3>3 DEF Consuming
  <2>4. Conserved'
    <3> SUFFICES ASSUME batchEnd = "open" PROVE Conserved'
      BY <1>0 DEF Conserved
    <3>1. /\ UnderWay = batches /\ Full(batches) /\ encoded \in Nat /\ RowsIn(batches) \in Nat
          /\ rows = accumulated + RowsIn(batches) + encoded
      BY <1>a, <2>1, RowsAreNat DEF Conserved, UnderWay, PipeTypeOK
    <3>2. CASE batch' = <<accumulated>> /\ producer' = "sending"
      <4>1. UnderWay' = batches \o <<accumulated>>
        BY <2>1, <3>2 DEF UnderWay
      <4>2. /\ FullButLast(UnderWay')
            /\ RowsIn(UnderWay') = RowsIn(batches) + accumulated
        BY <1>a, <3>1, <4>1, RunAppend
      <4>3. encoded' = encoded /\ rows' = rows /\ accumulated' = 0
        BY <1>0, <2>1
      <4>4. rows' = accumulated' + RowsIn(UnderWay') + encoded'
        BY <1>a, <3>1, <4>2, <4>3
      <4> QED BY <2>1, <3>2, <4>2, <4>4 DEF Conserved
    <3>3. CASE batch' = batch /\ producer' = "done" /\ accumulated = 0
      <4>1. UnderWay' = batches
        BY <1>a, <2>1, <3>3 DEF UnderWay
      <4>2. FullButLast(batches)
        BY <1>a, <3>1, FullRun
      <4>3. rows' = accumulated' + RowsIn(UnderWay') + encoded'
        BY <1>0, <1>a, <2>1, <3>1, <3>3, <4>1
      <4> QED BY <2>1, <3>3, <4>1, <4>2, <4>3 DEF Conserved
    <3> QED BY <2>1, <3>2, <3>3
  <2>5. Ended'
    BY <1>0, <2>1 DEF Ended
  <2> QED BY <1>0, <2>2, <2>3, <2>4, <2>5
<1>6. CASE SendBatch
  <2>1. /\ batch # <<>> /\ batch' = <<>> /\ batches' = UnderWay /\ batchEnd = "open"
        /\ producer' = IF producer = "sending" THEN "done" ELSE producer
        /\ producer \in {"step", "sending"}
        /\ UNCHANGED <<channel, rows, schema, accumulated, exhausted, panicked>>
    BY <1>6 DEF SendBatch, UnderWay, Producing, channelVars
  <2>2. UnderWay' = UnderWay
    BY <1>a, <2>1, UnderWaySent DEF UnderWay
  <2>3. PipeTypeOK'
    <3>1. batch' \in Seq(Nat)
      BY <2>1
    <3> QED BY <1>0, <1>a, <2>1, <3>1 DEF PipeTypeOK, ProducerSteps
  <2>4. Producing' /\ Consuming'
    BY <1>0, <1>a, <2>1 DEF Producing, Consuming
  <2>5. Conserved'
    BY <1>0, <2>1, <2>2 DEF Conserved
  <2>6. Ended'
    BY <1>0, <2>1 DEF Ended, Producing
  <2> QED BY <1>0, <2>3, <2>4, <2>5, <2>6
<1>7. CASE BatchRefused \/ ReportQueryFailure
  <2>1. /\ \/ batch # <<>> /\ batchEnd = "dropped" /\ batch' = <<>>
           \/ producer = "failing" /\ UNCHANGED batch /\ SendFailure
        /\ producer' = "done"
        /\ producer \in {"step", "sending", "failing"}
        /\ UNCHANGED <<rows, schema, accumulated, exhausted, panicked, batches>>
    BY <1>7 DEF BatchRefused, ReportQueryFailure, Producing, ProducerKeeps, batchVars
  <2>2. PipeTypeOK'
    <3>1. batch' = batch \/ batch' = <<>>
      BY <2>1
    <3>2. <<>> \in Seq(Nat)
      OBVIOUS
    <3>3. batch' \in Seq(Nat)
      BY <1>a, <3>1, <3>2
    <3> QED BY <1>0, <2>1, <3>3 DEF PipeTypeOK, ProducerSteps
  <2>3. Producing' /\ Consuming'
    BY <1>0, <1>a, <2>1 DEF Producing, Consuming
  <2>4. Conserved'
    BY <1>0, <2>1 DEF Conserved, UnderWay
  <2>5. Ended'
    <3>1. batchEnd = "open" => ErrWaits'
      <4>1. batchEnd = "open" => SendFailure /\ UNCHANGED bodyVars
        BY <2>1, ProducerFrame
      <4> QED BY <4>1, SentErrWaits
    <3> QED BY <1>0, <2>1, <3>1 DEF Ended
  <2> QED BY <1>0, <2>2, <2>3, <2>4, <2>5
<1> QED BY <1>1, <1>2, <1>3, <1>4, <1>5, <1>6, <1>7 DEF Produce


\* The encoder's writes continue the file (parquet.rs, the ArrowWriter over the
\* ChunkWriter).
LEMMA EmitKeepsInv ==
  ASSUME IInv, EmitUnits
  PROVE  /\ WriterInv'
         /\ held' \in Nat /\ written' \in Nat
         /\ written' + held' = written + held /\ held # 0
<1>1. PICK n \in 1 .. held : Write(n) /\ held' = held - n
  BY DEF EmitUnits
<1>2. n \in Nat /\ n # 0 /\ held \in Nat /\ written \in Nat /\ n <= held
  BY <1>1 DEF IInv, PipeTypeOK, BodyInv, BodyTypeOK, WriterTypeOK
<1>3. WriterInv /\ UNCHANGED channelVars
  BY DEF IInv, BodyInv, EmitUnits
<1>4. WriterInv'
  BY <1>1, <1>2, <1>3, WriteKeepsInv
<1>5. written' = written + n
  BY <1>1 DEF Write
<1> QED BY <1>1, <1>2, <1>4, <1>5

\* What every step of the consumer leaves alone, and what follows from that for
\* the body, the producer and the clean end.
LEMMA ConsumerFrame ==
  ASSUME IInv, Consume
  PROVE  /\ BodyInv' /\ Complete' /\ Producing'
         /\ UNCHANGED <<producerVars, bodyVars, rows, receiver, received>>
         /\ Waiting' = Waiting /\ consumer \notin {"absent", "done"}
         /\ response \notin {"waiting", "rejected", "cancelled"}
         /\ schema = "ok" /\ batchEnd = "open" /\ producer # "queued"
         /\ ErrWaits => ErrWaits'
<1> USE DEF IInv
<1>1. UNCHANGED <<producerVars, bodyVars, rows, receiver, received>>
  BY DEF Consume, CreateWriter, ReceiveBatch, BatchesEnd, EmitUnits, BatchWritten,
         CloseFlush, EncoderFails, Ship, WriteFails, ConsumerReturns, ConsumerDone,
         ReportEncoderFailure, ConsumerKeeps, ShipChunk, BrokenPipe, SendFailure,
         channelVars, pipeVars
<1>2. UNCHANGED channel \/ ShipChunk \/ SendFailure
  BY DEF Consume, CreateWriter, ReceiveBatch, BatchesEnd, EmitUnits, BatchWritten,
         CloseFlush, EncoderFails, Ship, WriteFails, ConsumerReturns,
         ReportEncoderFailure, BrokenPipe, channelVars
<1>3. \/ UNCHANGED <<writerVars, channelVars>>
      \/ EmitUnits
      \/ Flush /\ UNCHANGED channelVars
      \/ ShipChunk \/ BrokenPipe \/ SendFailure
  BY DEF Consume, CreateWriter, ReceiveBatch, BatchesEnd, BatchWritten, CloseFlush,
         EncoderFails, Ship, WriteFails, ConsumerReturns, ReportEncoderFailure
<1>4. WriterInv'
  BY <1>3, StutterKeepsInv, EmitKeepsInv, FlushKeepsInv, ShipKeepsInv, BrokenPipeKeepsInv,
     SendFailureKeepsInv DEF BodyInv
<1>5. BodyInv'
  BY <1>1, <1>4, ProducerKeepsInv DEF BodyInv, BodyTypeOK
<1>6. /\ consumer \notin {"absent", "done"} /\ response # "complete" /\ response' = response
      /\ response \notin {"waiting", "rejected", "cancelled"}
      /\ schema = "ok" /\ batchEnd = "open"
  BY <1>1, ActorsAreActive DEF Consuming, PipeTypeOK, bodyVars
<1>7. producer # "queued"
  BY <1>6 DEF Producing
<1>8. Producing' /\ Complete' /\ Waiting' = Waiting
  BY <1>1, <1>6, <1>7 DEF Producing, Complete, Waiting, producerVars, bodyVars
<1>9. ErrWaits => ErrWaits'
  BY <1>1, <1>2, QueuedErrWaits
<1> QED BY <1>1, <1>5, <1>6, <1>7, <1>8, <1>9

\* A file without its footer is shorter than a whole one.
LEMMA ShortFile ==
  ASSUME NEW w \in Nat, NEW h \in Nat, NEW n \in Nat, w + h = 1 + n
  PROVE  w # 2 + n
OBVIOUS

\* Every step of the consumer keeps the invariant (parquet.rs,
\* consume_parquet_batches).
LEMMA ConsumeKeepsIInv ==
  ASSUME ParquetAssumption, IInv, Consume
  PROVE  IInv'
<1> USE DEF IInv
<1>0. /\ BodyInv' /\ Complete' /\ Producing'
      /\ UNCHANGED <<producer, schema, accumulated, batch, exhausted, panicked, rows, response>>
      /\ Waiting' = Waiting /\ consumer \notin {"absent", "done"}
      /\ response \notin {"waiting", "rejected", "cancelled"}
      /\ schema = "ok" /\ batchEnd = "open" /\ producer # "queued"
      /\ ErrWaits => ErrWaits'
  BY ConsumerFrame DEF producerVars, bodyVars
<1>a. /\ held \in Nat /\ encoded \in Nat /\ written \in Nat /\ rows \in Nat
      /\ accumulated \in Nat /\ shipped \in Nat
      /\ batches \in Seq(Nat) /\ batch \in Seq(Nat) /\ UnderWay \in Seq(Nat)
  BY UnderWaySent DEF BodyInv, BodyTypeOK, WriterTypeOK, PipeTypeOK, UnderWay
<1>1. CASE CreateWriter
  <2>1. /\ consumer = "creating" /\ consumer' \in {"receiving", "failing"}
        /\ held' = IF consumer' = "receiving" THEN 1 ELSE held
        /\ held = 0 /\ encoded = 0 /\ written = 0
        /\ UNCHANGED <<written, shipped, outgoing, batches, batchEnd, encoded>>
    BY <1>1 DEF CreateWriter, Consuming, writerVars, batchVars
  <2>2. PipeTypeOK'
    BY <1>0, <2>1 DEF PipeTypeOK, ConsumerSteps
  <2>3. Consuming'
    BY <1>0, <1>a, <2>1 DEF Consuming
  <2>4. Conserved' /\ Ended'
    BY <1>0, <2>1 DEF Conserved, UnderWay, Ended
  <2> QED BY <1>0, <2>2, <2>3, <2>4
<1>2. CASE ReceiveBatch
  <2> DEFINE h == Head(batches)
  <2>1. /\ consumer = "receiving" /\ consumer' = "writing" /\ batches # <<>>
        /\ batches' = Tail(batches)
        /\ held' = held + h /\ encoded' = encoded + h
        /\ UNCHANGED <<written, shipped, outgoing, batchEnd>>
    BY <1>2 DEF ReceiveBatch, writerVars
  <2>2. h \in Nat /\ batches' \in Seq(Nat)
    BY <1>a, <2>1, HeadTailProperties
  <2>3. UnderWay # <<>> /\ UnderWay' = Tail(UnderWay) /\ Head(UnderWay) = h
    <3>1. UnderWay' = Tail(batches) \o batch
      BY <1>0, <2>1 DEF UnderWay
    <3> QED BY <1>a, <2>1, <3>1, UnderWayTail DEF UnderWay
  <2> HIDE DEF h
  <2>4. held' \in Nat /\ encoded' \in Nat
    BY <1>a, <2>1, <2>2
  <2>5. PipeTypeOK'
    BY <1>0, <2>1, <2>2, <2>4 DEF PipeTypeOK, ConsumerSteps
  <2>6. Consuming'
    <3>1. written + held = 1 + encoded
      BY <2>1 DEF Consuming
    <3>2. written' + held' = 1 + encoded' /\ written' # 2 + encoded'
      BY <1>a, <2>1, <2>2, <3>1
    <3> QED BY <1>0, <2>1, <3>2 DEF Consuming
  <2>7. Conserved'
    <3>1. /\ FullButLast(UnderWay') /\ (Full(UnderWay) => Full(UnderWay'))
          /\ RowsIn(UnderWay) = h + RowsIn(UnderWay')
          /\ RowsIn(UnderWay') \in Nat
      <4>1. FullButLast(UnderWay) /\ Tail(UnderWay) \in Seq(Nat)
        BY <1>0, <1>a, <2>3 DEF Conserved
      <4> QED BY <1>a, <2>3, <4>1, RunTail, RowsAreNat
    <3>2. /\ ~panicked => rows = accumulated + RowsIn(UnderWay) + encoded
          /\ panicked => rows > RowsIn(UnderWay) + encoded
      BY <1>0 DEF Conserved
    <3>3. UNCHANGED <<rows, accumulated, panicked>> /\ encoded' = encoded + h
      BY <1>0, <2>1
    <3> DEFINE r == RowsIn(UnderWay')
    <3> HIDE DEF r
    <3>4. r \in Nat /\ RowsIn(UnderWay) = h + r
      BY <3>1 DEF r
    <3>5. /\ ~panicked => rows' = accumulated' + r + encoded'
          /\ panicked => rows' > r + encoded'
      BY <1>a, <2>2, <3>2, <3>3, <3>4
    <3> QED BY <1>0, <3>1, <3>5 DEF Conserved, r
  <2>8. Ended'
    BY <1>0, <2>1 DEF Ended
  <2> QED BY <1>0, <2>5, <2>6, <2>7, <2>8
<1>3. CASE BatchesEnd
  <2>1. /\ consumer = "receiving" /\ consumer' = "closing" /\ batches = <<>>
        /\ producer = "done" /\ held' = held + 1
        /\ UNCHANGED <<written, shipped, outgoing, batches, batchEnd, encoded>>
    BY <1>3 DEF BatchesEnd, writerVars, batchVars
  <2>2. PipeTypeOK'
    BY <1>0, <1>a, <2>1 DEF PipeTypeOK, ConsumerSteps
  <2>3. Consuming'
    BY <1>0, <1>a, <2>1 DEF Consuming
  <2>4. Conserved' /\ Ended'
    BY <1>0, <2>1 DEF Conserved, UnderWay, Ended
  <2> QED BY <1>0, <2>2, <2>3, <2>4
<1>4. CASE EmitUnits
  <2>1. /\ held' \in Nat /\ written' \in Nat
        /\ written' + held' = written + held /\ held # 0
        /\ consumer \in {"writing", "closing"}
        /\ UNCHANGED <<batches, batchEnd, consumer, encoded>>
    BY <1>4, EmitKeepsInv DEF EmitUnits, batchVars
  <2>2. PipeTypeOK'
    BY <1>0, <2>1 DEF PipeTypeOK
  <2>3. Consuming'
    <3>1. /\ consumer = "writing" => written' + held' = 1 + encoded
          /\ consumer = "closing" => written' + held' = 2 + encoded /\ producer = "done"
      BY <2>1 DEF Consuming
    <3>2. written' + held' = 1 + encoded => written' # 2 + encoded
      <4>1. written' \in Nat /\ held' \in Nat /\ encoded \in Nat
        BY <1>a, <2>1
      <4> QED BY <4>1, ShortFile
    <3>3. written' = 2 + encoded => producer = "done"
      BY <2>1, <3>1, <3>2
    <3> QED BY <1>0, <2>1, <3>1, <3>3 DEF Consuming
  <2>4. Conserved' /\ Ended'
    BY <1>0, <2>1 DEF Conserved, UnderWay, Ended
  <2> QED BY <1>0, <2>2, <2>3, <2>4
<1>5. CASE CloseFlush
  <2>1. /\ consumer = "closing" /\ consumer' = "flushing" /\ held = 0
        /\ written' = written /\ shipped' = written
        /\ UNCHANGED <<batches, batchEnd, held, encoded>>
    BY <1>5 DEF CloseFlush, Flush, batchVars
  <2>2. PipeTypeOK'
    BY <1>0, <2>1 DEF PipeTypeOK, ConsumerSteps
  <2>3. Consuming'
    BY <1>0, <1>a, <2>1 DEF Consuming
  <2>4. Conserved' /\ Ended'
    BY <1>0, <2>1 DEF Conserved, UnderWay, Ended
  <2> QED BY <1>0, <2>2, <2>3, <2>4
<1>6. CASE BatchWritten \/ EncoderFails \/ Ship \/ WriteFails
  <2>1. /\ \/ consumer = "writing" /\ consumer' = "receiving" /\ outgoing' = <<>>
           \/ consumer \in {"writing", "closing", "flushing"} /\ consumer' = "failing"
              /\ outgoing' = <<>>
           \/ UNCHANGED consumer /\ outgoing # <<>> /\ outgoing' = <<>>
        /\ UNCHANGED <<written, shipped, batches, batchEnd, held, encoded>>
    BY <1>6 DEF BatchWritten, EncoderFails, Ship, WriteFails, ShipChunk, BrokenPipe,
                writerVars, batchVars, pipeVars, consumerVars, Consuming
  <2>2. PipeTypeOK'
    BY <1>0, <2>1 DEF PipeTypeOK, ConsumerSteps
  <2>3. Consuming'
    BY <1>0, <1>a, <2>1 DEF Consuming
  <2>4. Conserved' /\ Ended'
    BY <1>0, <2>1 DEF Conserved, UnderWay, Ended
  <2> QED BY <1>0, <2>2, <2>3, <2>4
<1>7. CASE ConsumerReturns
  <2>1. /\ consumer = "flushing" /\ consumer' = "done" /\ outgoing = <<>>
        /\ batchEnd' = "dropped" /\ batches' = <<>>
        /\ UNCHANGED <<written, shipped, outgoing, held, encoded>>
        /\ written = 2 + encoded /\ shipped = written /\ producer = "done"
        /\ batches = <<>>
    BY <1>7, <1>a DEF ConsumerReturns, ConsumerDone, DropBatchEnd, Consuming, writerVars
  <2>2. PipeTypeOK'
    BY <1>0, <2>1 DEF PipeTypeOK, ConsumerSteps
  <2>3. Consuming'
    BY <1>0, <1>a, <2>1 DEF Consuming
  <2>4. Conserved'
    BY <2>1 DEF Conserved
  <2>5. ErrWaits \/ AllRows
    <3> SUFFICES ASSUME ~ErrWaits PROVE AllRows
      OBVIOUS
    <3>1. exhausted \/ panicked
      BY <1>0, <2>1 DEF Ended
    <3>2. batch = <<>> /\ UnderWay = <<>> /\ RowsIn(UnderWay) = 0
      BY <2>1 DEF Producing, UnderWay, RowsIn
    <3>3. exhausted => accumulated = 0 /\ ~panicked
      BY <2>1 DEF Producing
    <3> QED BY <1>0, <1>a, <3>1, <3>2, <3>3 DEF Conserved, AllRows
  <2>6. Ended'
    BY <1>0, <2>1, <2>5 DEF Ended, AllRows
  <2> QED BY <1>0, <2>2, <2>3, <2>4, <2>6
<1>8. CASE ReportEncoderFailure
  <2>1. /\ consumer = "failing" /\ consumer' = "done" /\ SendFailure
        /\ batchEnd' = "dropped" /\ batches' = <<>>
        /\ UNCHANGED <<written, shipped, outgoing, held, encoded>>
    BY <1>8 DEF ReportEncoderFailure, ConsumerDone, DropBatchEnd, SendFailure, writerVars
  <2>2. PipeTypeOK'
    BY <1>0, <2>1 DEF PipeTypeOK, ConsumerSteps
  <2>3. Consuming'
    BY <1>0, <1>a, <2>1 DEF Consuming
  <2>4. Conserved'
    BY <2>1 DEF Conserved
  <2>5. ErrWaits'
    BY <2>1, ConsumerFrame, SentErrWaits
  <2>6. Ended'
    BY <2>1, <2>5 DEF Ended
  <2> QED BY <1>0, <2>2, <2>3, <2>4, <2>6
<1> QED BY <1>1, <1>2, <1>3, <1>4, <1>5, <1>6, <1>7, <1>8 DEF Consume

--------------------------------------------------------------------------------
\* With both threads gone and the channel drained, the file is whole and
\* delivered: a thread that had failed would have left an Err (parquet.rs).
LEMMA DrainedIsWhole ==
  ASSUME IInv, response = "streaming", SendersGone, channel = <<>>
  PROVE  AllRows /\ written = 2 + encoded /\ Delivered = written
<1>1. ~Closed /\ ~ErrWaits /\ consumer = "done"
  BY DEF IInv, BodyInv, Handler, ErrWaits, Waiting, SendersGone, Consuming
<1>2. AllRows /\ written = 2 + encoded /\ shipped = written /\ outgoing = <<>>
  BY <1>1 DEF IInv, Ended, Consuming
<1>3. shipped = Queued /\ Queued = Delivered
  BY <1>1, <1>2 DEF IInv, BodyInv, WriterInv, Positions, End, Queued
<1> QED BY <1>2, <1>3

\* An error that waits is the one that is polled or waits on.
LEMMA PolledErrWaits ==
  ASSUME BodyInv, ErrWaits, Poll
  PROVE  ErrWaits'
<1>1. CASE Head(channel).err
  <2>1. response' = "failed"
    BY <1>1 DEF Poll
  <2> QED BY <2>1 DEF ErrWaits, Waiting
<1>2. CASE ~Head(channel).err
  <2>1. /\ response = "streaming" /\ channel # <<>> /\ channel' = Tail(channel)
        /\ channel \in Seq(Item)
    BY DEF Poll, PollItem, BodyInv, BodyTypeOK, WriterTypeOK
  <2>2. PICK i \in 1 .. Len(channel) : channel[i].err
    BY <2>1 DEF ErrWaits, Waiting
  <2>3. /\ Len(channel) \in Nat /\ channel[1] = Head(channel)
        /\ Len(channel') = Len(channel) - 1
        /\ \A j \in 1 .. Len(channel') : channel'[j] = channel[j + 1]
    BY <2>1, HeadTailProperties
  <2>4. i # 1
    BY <1>2, <2>2, <2>3
  <2>5. i - 1 \in 1 .. Len(channel') /\ i - 1 + 1 = i
    BY <2>2, <2>3, <2>4
  <2>6. channel'[i - 1].err
    BY <2>2, <2>3, <2>5
  <2> QED BY <2>5, <2>6 DEF ErrWaits
<1> QED BY <1>1, <1>2

\* Every step of the handler and the client keeps the invariant (handlers.rs,
\* and query_as_parquet_stream).
LEMMA HandlerKeepsIInv ==
  ASSUME IInv, AcceptStream \/ RejectStream \/ CancelRequest \/ PollBody \/ DropResponse
  PROVE  IInv'
<1> USE DEF IInv, pipeVars, producerVars, batchVars, consumerVars
<1>1. CASE AcceptStream
  <2>1. /\ Accept /\ schema = "ok" /\ response' = "streaming" /\ response = "waiting"
        /\ consumer = "absent" /\ consumer' = "creating"
        /\ UNCHANGED <<writerVars, channelVars, trackingVars, rows, producerVars, batchVars,
                       held, encoded>>
    BY <1>1 DEF AcceptStream, Accept, Consuming
  <2>2. BodyInv'
    BY <2>1, AcceptKeepsInv
  <2>3. PipeTypeOK' /\ Conserved'
    BY <2>1 DEF PipeTypeOK, ConsumerSteps, Conserved, UnderWay
  <2>4. Producing' /\ Consuming'
    BY <2>1 DEF Producing, Consuming, Waiting, writerVars
  <2>5. Ended' /\ Complete'
    BY <2>1 DEF Ended, Complete, ErrWaits, Waiting, channelVars
  <2> QED BY <2>2, <2>3, <2>4, <2>5
<1>2. CASE RejectStream \/ CancelRequest
  <2>1. /\ Reject \/ Cancel
        /\ response = "waiting" /\ response' \in {"rejected", "cancelled"}
        /\ consumer = "absent" /\ batchEnd' = "dropped" /\ batches' = <<>>
        /\ UNCHANGED <<writerVars, rows, producerVars, consumerVars>>
    BY <1>2 DEF RejectStream, CancelRequest, Reject, Cancel, DropBatchEnd, Consuming
  <2>2. BodyInv'
    BY <2>1, RejectKeepsInv, CancelKeepsInv
  <2>3. PipeTypeOK' /\ Conserved'
    <3>1. batches' \in Seq(Nat)
      BY <2>1
    <3> QED BY <2>1, <3>1 DEF PipeTypeOK, Conserved
  <2>4. Producing' /\ Consuming'
    BY <2>1 DEF Producing, Consuming, Waiting, writerVars
  <2>5. Ended' /\ Complete'
    BY <2>1 DEF Ended, Complete, ErrWaits, Waiting
  <2> QED BY <2>2, <2>3, <2>4, <2>5
<1>3. CASE PollBody /\ Poll
  <2>1. /\ Poll /\ response = "streaming" /\ response' \in {"streaming", "failed"}
        /\ UNCHANGED <<writerVars, rows, pipeVars>>
    BY <1>3 DEF PollBody, Poll, PollItem
  <2>2. BodyInv'
    BY <2>1, PollBodyKeepsInv
  <2>3. PipeTypeOK' /\ Conserved'
    BY <2>1 DEF PipeTypeOK, Conserved, UnderWay
  <2>4. Producing' /\ Consuming'
    BY <2>1 DEF Producing, Consuming, Waiting, writerVars
  <2>5. ErrWaits => ErrWaits'
    BY <2>1, PolledErrWaits
  <2>6. Ended' /\ Complete'
    BY <2>1, <2>5 DEF Ended, Complete, AllRows, writerVars
  <2> QED BY <2>2, <2>3, <2>4, <2>6
<1>4. CASE PollBody /\ PollNone(SendersGone)
  <2>1. /\ PollNone(SendersGone) /\ response = "streaming" /\ response' = "complete"
        /\ channel = <<>> /\ SendersGone
        /\ UNCHANGED <<writerVars, channelVars, rows, pipeVars>>
    BY <1>4 DEF PollBody, PollNone
  <2>2. BodyInv' /\ Len(events') = 1 /\ events'[1].rows = rows
    <3>1. SendersGone \in BOOLEAN
      BY DEF SendersGone
    <3> QED BY <2>1, <3>1, PollNoneKeepsInv
  <2>3. AllRows /\ written = 2 + encoded /\ Delivered = written
    BY <2>1, DrainedIsWhole
  <2>4. PipeTypeOK' /\ Conserved'
    BY <2>1 DEF PipeTypeOK, Conserved, UnderWay
  <2>5. Producing' /\ Consuming'
    BY <2>1 DEF Producing, Consuming, Waiting, writerVars
  <2>6. Ended'
    BY <2>1 DEF Ended, ErrWaits, Waiting
  <2>7. Complete'
    BY <2>1, <2>2, <2>3 DEF Complete, AllRows, SendersGone, writerVars, channelVars,
                            Delivered, End
  <2> QED BY <2>2, <2>4, <2>5, <2>6, <2>7
<1>5. CASE DropResponse
  <2>1. /\ DropBody
        /\ response \in {"streaming", "complete", "failed"}
        /\ response' = IF response = "streaming" THEN "abandoned" ELSE response
        /\ UNCHANGED <<writerVars, received, rows, pipeVars>>
        /\ FinishTracking
    BY <1>5 DEF DropResponse, DropBody
  <2>2. BodyInv'
    BY <2>1, DropBodyKeepsInv
  <2>3. PipeTypeOK' /\ Conserved'
    BY <2>1 DEF PipeTypeOK, Conserved, UnderWay
  <2>4. Producing' /\ Consuming'
    BY <2>1 DEF Producing, Consuming, Waiting, writerVars
  <2>5. Ended'
    BY <2>1 DEF Ended, ErrWaits, Waiting
  <2>6. Complete'
    <3> SUFFICES ASSUME response = "complete" PROVE Complete'
      BY <2>1 DEF Complete
    <3>1. finished /\ UNCHANGED events
      BY <2>1 DEF FinishTracking, BodyInv, Handler
    <3> QED BY <2>1, <3>1 DEF Complete, AllRows, SendersGone, writerVars, Delivered, End
  <2> QED BY <2>2, <2>3, <2>4, <2>5, <2>6
<1> QED BY <1>1, <1>2, <1>3, <1>4, <1>5 DEF PollBody

--------------------------------------------------------------------------------
\* The invariant is inductive.
LEMMA NextKeepsIInv == ParquetAssumption /\ IInv /\ [Next]_vars => IInv'
BY ProduceKeepsIInv, ConsumeKeepsIInv, HandlerKeepsIInv, StutterKeepsIInv DEF Next, Terminated

\* The invariant holds throughout, and with it the types of all variables.
THEOREM Invariant == Spec => []IInv
<1>1. Init => IInv
  BY InitIInv, ParquetAssumption
<1>2. IInv /\ [Next]_vars => IInv'
  BY NextKeepsIInv, ParquetAssumption
<1> QED BY <1>1, <1>2, PTL DEF Spec

\* The batches lose and repeat no row and are full but for the last one
\* (parquet.rs, execute_parquet_producer and consume_parquet_batches).
THEOREM RowsKept == Spec => []RowsConserved
<1>1. IInv => RowsConserved
  BY DEF IInv, Conserved, FullButLast, RowsConserved
<1> QED BY <1>1, Invariant, PTL

\* A body that ends without an error is a whole file, of the whole result or of
\* what a panic has left of it (parquet.rs, the producer and the consumer).
THEOREM WholeFile == Spec => []CleanEndIsWhole
<1>1. IInv => CleanEndIsWhole
  <2> SUFFICES ASSUME IInv, response = "complete"
               PROVE  /\ (exhausted /\ encoded = rows) \/ (panicked /\ encoded < rows)
                      /\ Delivered = FileOf(encoded)
                      /\ \A i \in 1 .. Len(events) : events[i].rows = rows
    BY DEF CleanEndIsWhole
  <2>1. encoded \in Nat
    BY DEF IInv, PipeTypeOK
  <2> QED BY <2>1 DEF IInv, Complete, AllRows, FileOf
<1> QED BY <1>1, Invariant, PTL

\* The two threads never break the run of bytes the client gets, although both
\* send on one channel (chunk_writer.rs and parquet.rs).
THEOREM ByteOrder == Spec => []BytesInOrder
<1>1. IInv => BytesInOrder
  BY BodyInvImplies DEF IInv
<1> QED BY <1>1, Invariant, PTL

\* Every request whose future survives is reported exactly once (handlers.rs,
\* root, poll_next and drop).
THEOREM OneReport == Spec => []RecordedOnce
<1>1. IInv => RecordedOnce
  BY BodyInvImplies DEF IInv
<1> QED BY <1>1, Invariant, PTL

\* The report tells the bytes delivered and how the body ended (handlers.rs,
\* poll_next and finish_tracking).
THEOREM TrueReport == Spec => []EventMatchesBody
<1>1. IInv => EventMatchesBody
  BY BodyInvImplies DEF IInv
<1> QED BY <1>1, Invariant, PTL

--------------------------------------------------------------------------------
(* The refinement of ResultStream.                                         *)

\* A fresh request maps to a fresh one.
LEMMA InitImplements == Init => Result!Init
BY DEF Init, BodyInit, WriterInit, Result!Init, Whole, FileOf, Delivered, End

\* As long as the producer is there, and as long as the encoder holds something,
\* the file is not whole (parquet.rs).
LEMMA NotYetWhole ==
  ASSUME IInv, \/ producer # "done"
               \/ consumer \in {"receiving", "writing"}
               \/ consumer \in {"closing", "flushing"} /\ held # 0
  PROVE  written # FileOf(encoded) /\ ~Whole
<1>1. written \in Nat /\ held \in Nat /\ encoded \in Nat
  BY DEF IInv, BodyInv, BodyTypeOK, WriterTypeOK, PipeTypeOK
<1>2. CASE producer # "done"
  BY <1>1, <1>2 DEF IInv, Consuming, FileOf, Whole
<1>3. CASE consumer \in {"receiving", "writing"}
  <2>1. written # 2 + encoded
    BY <1>1, <1>3, ShortFile DEF IInv, Consuming
  <2> QED BY <1>1, <2>1 DEF FileOf, Whole
<1>4. CASE consumer \in {"closing", "flushing"} /\ held # 0
  <2>1. written + held = 2 + encoded
    BY <1>4 DEF IInv, Consuming
  <2> QED BY <1>1, <1>4, <2>1 DEF FileOf, Whole
<1> QED BY <1>2, <1>3, <1>4

\* What the producer does is nothing the client could tell (parquet.rs,
\* execute_parquet_producer).
LEMMA ProduceImplements ==
  ASSUME IInv, Produce
  PROVE  UNCHANGED Result!vars
<1>1. UNCHANGED <<consumerVars, bodyVars, writerVars, received>> /\ producer # "done"
  BY ProducerFrame
<1>2. UNCHANGED <<written, encoded, response, received>>
  BY <1>1 DEF consumerVars, bodyVars, writerVars
<1>3. written # FileOf(encoded)
  BY <1>1, NotYetWhole
<1>4. Whole = FALSE /\ Whole' = FALSE
  BY <1>2, <1>3 DEF Whole, FileOf
<1> QED BY <1>2, <1>4 DEF Result!vars, Delivered, End

\* What the consumer does is more of the file, or nothing the client could tell
\* (parquet.rs, consume_parquet_batches).
LEMMA ConsumeImplements ==
  ASSUME ParquetAssumption, IInv, Consume
  PROVE  Result!Produce \/ UNCHANGED Result!vars
<1>1. UNCHANGED <<exhausted, panicked, rows, response, received>>
  BY ConsumerFrame DEF producerVars, bodyVars
<1>2. UNCHANGED <<response, Delivered>>
  BY <1>1 DEF Delivered, End
<1>3. IInv'
  BY ConsumeKeepsIInv
<1>4. CASE EmitUnits
  <2>1. written' \in Nat /\ written \in Nat /\ held \in Nat /\ held # 0
        /\ consumer \in {"writing", "closing"}
    BY <1>4, EmitKeepsInv DEF EmitUnits, IInv, BodyInv, BodyTypeOK, WriterTypeOK, PipeTypeOK
  <2>2. written' >= written
    <3>1. PICK n \in 1 .. held : written' = written + n
      BY <1>4 DEF EmitUnits, Write
    <3> QED BY <2>1, <3>1
  <2>3. ~Whole
    BY <2>1, NotYetWhole
  <2>4. Whole' \in BOOLEAN
    BY DEF Whole
  <2> QED BY <1>2, <2>1, <2>2, <2>3, <2>4 DEF Result!Produce
<1>5. CASE ReceiveBatch
  <2>1. /\ consumer = "receiving" /\ consumer' = "writing" /\ written' = written
    BY <1>5 DEF ReceiveBatch, writerVars
  <2>2. Whole = FALSE
    BY <2>1, NotYetWhole DEF Whole
  <2>3. Whole' = FALSE
    <3>1. written \in Nat /\ held' \in Nat /\ encoded' \in Nat
      BY <1>3 DEF IInv, BodyInv, BodyTypeOK, WriterTypeOK, PipeTypeOK
    <3>2. written + held' = 1 + encoded'
      BY <1>3, <2>1 DEF IInv, Consuming
    <3>3. written # 2 + encoded'
      BY <3>1, <3>2, ShortFile
    <3>4. 2 + encoded' = encoded' + 2
      BY <3>1
    <3>5. written' # encoded' + 2
      BY <2>1, <3>3, <3>4
    <3> QED BY <3>5 DEF Whole, FileOf
  <2> QED BY <1>2, <2>1, <2>2, <2>3 DEF Result!vars
<1>6. CASE \/ CreateWriter \/ BatchesEnd \/ BatchWritten \/ CloseFlush \/ EncoderFails
           \/ Ship \/ WriteFails \/ ConsumerReturns \/ ReportEncoderFailure
  <2>1. UNCHANGED <<written, encoded>>
    BY <1>6 DEF CreateWriter, BatchesEnd, BatchWritten, CloseFlush, EncoderFails, Ship,
                WriteFails, ConsumerReturns, ConsumerDone, ReportEncoderFailure, Flush,
                ShipChunk, BrokenPipe, SendFailure, writerVars, pipeVars, consumerVars
  <2> QED BY <1>1, <1>2, <2>1 DEF Result!vars, Whole, FileOf
<1> QED BY <1>4, <1>5, <1>6 DEF Consume

\* What the handler and the client do is an answer, a delivery, the clean end of
\* a whole file or the break of a partial one (handlers.rs).
LEMMA HandlerImplements ==
  ASSUME IInv, AcceptStream \/ RejectStream \/ CancelRequest \/ PollBody \/ DropResponse
  PROVE  Result!Next \/ UNCHANGED Result!vars
<1>1. CASE AcceptStream \/ RejectStream \/ CancelRequest
  <2>1. /\ response = "waiting" /\ response' \in {"streaming", "rejected", "cancelled"}
        /\ UNCHANGED <<written, received, exhausted, panicked, encoded, rows>>
    BY <1>1 DEF AcceptStream, RejectStream, CancelRequest, Accept, Reject, Cancel,
                writerVars, channelVars, producerVars, consumerVars
  <2> QED BY <2>1 DEF Result!Next, Result!Answer, Whole, FileOf, Delivered, End
<1>2. CASE PollBody /\ Poll
  <2>1. /\ response = "streaming"
        /\ UNCHANGED <<written, exhausted, panicked, encoded, rows>>
        /\ \/ ~Head(channel).err /\ response' = "streaming"
           \/ Head(channel).err /\ response' = "failed"
    BY <1>2 DEF PollBody, Poll, PollItem, writerVars, pipeVars, producerVars, consumerVars
  <2>2. /\ Head(channel) \in Item /\ Delivered' = Head(channel).to
        /\ Delivered <= Delivered' /\ Delivered' <= written
        /\ Head(channel).err => Delivered' = Delivered
    BY <1>2, PollBodyKeepsInv DEF IInv
  <2>3. Delivered \in Nat /\ Delivered' \in Nat
    BY <2>2, PositionsAreNat DEF Item, IInv, BodyInv, BodyTypeOK
  <2>4. UNCHANGED Whole
    BY <2>1 DEF Whole, FileOf
  <2>5. Result!Deliver \/ Result!Break \/ UNCHANGED Result!vars
    BY <2>1, <2>2, <2>3, <2>4 DEF Result!Deliver, Result!Break, Result!vars
  <2> QED BY <2>5 DEF Result!Next
<1>3. CASE PollBody /\ PollNone(SendersGone)
  <2>1. /\ response = "streaming" /\ response' = "complete"
        /\ channel = <<>> /\ SendersGone
        /\ UNCHANGED <<written, received, exhausted, panicked, encoded, rows>>
    BY <1>3 DEF PollBody, PollNone, writerVars, channelVars, pipeVars, producerVars,
                consumerVars
  <2>2. AllRows /\ written = 2 + encoded /\ Delivered = written /\ encoded \in Nat
    BY <2>1, DrainedIsWhole DEF IInv, PipeTypeOK
  <2>3. Whole /\ UNCHANGED <<Whole, Delivered>>
    BY <2>1, <2>2 DEF Whole, AllRows, FileOf, Delivered, End
  <2> QED BY <2>1, <2>2, <2>3 DEF Result!Next, Result!EndCleanly
<1>4. CASE DropResponse
  <2>1. /\ response' = IF response = "streaming" THEN "abandoned" ELSE response
        /\ UNCHANGED <<written, received, exhausted, panicked, encoded, rows>>
    BY <1>4 DEF DropResponse, DropBody, writerVars, pipeVars, producerVars, consumerVars
  <2>2. UNCHANGED <<Whole, Delivered>>
    BY <2>1 DEF Whole, FileOf, Delivered, End
  <2>3. Result!Break \/ UNCHANGED Result!vars
    BY <2>1, <2>2 DEF Result!Break, Result!vars
  <2> QED BY <2>3 DEF Result!Next
<1> QED BY <1>1, <1>2, <1>3, <1>4 DEF PollBody

\* The Parquet pipeline implements the promise of ResultStream: the client gets a
\* growing prefix of one file, which ends cleanly only when it is the whole of it
\* (parquet.rs, chunk_writer.rs and handlers.rs together).
THEOREM Implementation == Spec => ImplementsResult
<1>1. Init => Result!Init
  BY InitImplements
<1>2. IInv /\ [Next]_vars => [Result!Next]_(Result!vars)
  <2> SUFFICES ASSUME IInv, [Next]_vars
               PROVE  Result!Next \/ UNCHANGED Result!vars
    OBVIOUS
  <2>1. CASE Produce
    BY <2>1, ProduceImplements
  <2>2. CASE Consume
    BY <2>2, ConsumeImplements, ParquetAssumption DEF Result!Next
  <2>3. CASE AcceptStream \/ RejectStream \/ CancelRequest \/ PollBody \/ DropResponse
    BY <2>3, HandlerImplements
  <2>4. CASE UNCHANGED vars
    BY <2>4 DEF vars, writerVars, channelVars, bodyVars, pipeVars, producerVars,
                consumerVars, Result!vars, Whole, FileOf, Delivered, End
  <2> QED BY <2>1, <2>2, <2>3, <2>4 DEF Next, Terminated
<1> QED BY <1>1, <1>2, Invariant, PTL DEF Spec, ImplementsResult, Result!Spec
================================================================================
