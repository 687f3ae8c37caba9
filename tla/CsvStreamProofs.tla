---------------------------- MODULE CsvStreamProofs ----------------------------
(***************************************************************************)
(* Theorems about CsvStream for every chunk size, channel capacity, set of *)
(* record sizes and number of rows.  The inductive invariant joins that of *)
(* the response body (ResponseBodyProofs) with what the closure's position *)
(* says of the stream; the refinement of ResultStream follows from it.     *)
(***************************************************************************)
EXTENDS CsvStream, ResponseBodyProofs, FiniteSetTheorems

WorkerTypeOK ==
  /\ worker \in WorkerSteps
  /\ prepared \in {"empty", "ok", "error", "gone"}
  /\ pending \in Nat
  /\ exhausted \in BOOLEAN
  /\ rowEnds \in Seq(Nat)

\* Where the closure stands tells what it has told the handler, what is left to
\* ship and what is queued behind the last chunk.
Worker ==
  /\ worker = "queued" => prepared = "empty"
  /\ worker \in {"rows", "flushing", "failing"} => prepared = "ok"
  /\ response \in {"streaming", "complete", "failed", "abandoned"} => prepared = "ok"
  /\ worker \in {"queued", "failing", "done"} => outgoing = <<>>
  /\ exhausted => worker \in {"flushing", "failing", "done"} /\ shipped = written
  /\ worker = "flushing" => exhausted
  /\ exhausted /\ worker = "failing" => Closed
  /\ rows = Len(rowEnds)

\* A closure that has given up has left an Err behind its last chunk.
Failed ==
  worker = "done" /\ prepared = "ok" /\ ~exhausted /\ response \in {"waiting", "streaming"} =>
    channel # <<>> /\ channel[Len(channel)].err

Complete ==
  response = "complete" =>
    /\ worker = "done" /\ exhausted /\ Delivered = written
    /\ \A i \in 1 .. Len(events) : events[i].rows = rows

IInv == BodyInv /\ WorkerTypeOK /\ Worker /\ Failed /\ Complete

--------------------------------------------------------------------------------
\* The invariant holds initially.
LEMMA InitIInv == Init => IInv
<1> SUFFICES ASSUME Init PROVE IInv
  OBVIOUS
<1>1. BodyInv
  BY BodyInitInv DEF Init
<1>2. WorkerTypeOK
  <2>1. rowEnds \in Seq(Nat)
    BY DEF Init
  <2>2. exhausted \in BOOLEAN
    BY DEF Init
  <2> QED BY <2>1, <2>2 DEF Init, WorkerTypeOK, WorkerSteps
<1>3. Worker /\ Failed /\ Complete
  BY DEF Init, BodyInit, WriterInit, Worker, Failed, Complete
<1> QED BY <1>1, <1>2, <1>3 DEF IInv

\* With the closure gone and the channel drained, either the result is complete
\* and delivered or there is an Err still to come (csv.rs, the closure).
LEMMA DrainedIsWhole ==
  ASSUME IInv, response = "streaming", worker = "done", channel = <<>>
  PROVE  exhausted /\ Delivered = written
<1>1. ~Closed /\ prepared = "ok" /\ outgoing = <<>>
  BY DEF IInv, BodyInv, Handler, Worker
<1>2. exhausted /\ shipped = written
  BY <1>1 DEF IInv, WorkerTypeOK, Worker, Failed
<1>3. shipped = Queued /\ Queued = Delivered
  BY <1>1 DEF IInv, BodyInv, WriterInv, Positions, End, Queued
<1> QED BY <1>2, <1>3

\* The invariant does not depend on anything outside vars.
LEMMA StutterKeepsIInv == IInv /\ UNCHANGED vars => IInv'
<1> SUFFICES ASSUME IInv, UNCHANGED vars PROVE IInv'
  OBVIOUS
<1> USE DEF vars, csvVars
<1>1. BodyInv'
  BY StutterKeepsInv, ProducerKeepsInv
     DEF IInv, BodyInv, BodyTypeOK, channelVars
<1>2. (WorkerTypeOK /\ Worker /\ Failed /\ Complete)'
  BY DEF IInv, WorkerTypeOK, Worker, Failed, Complete, writerVars, channelVars, bodyVars,
         trackingVars, Closed, Delivered, End
<1> QED BY <1>1, <1>2 DEF IInv

\* Taking the first item off a run leaves its last one, unless it was the only
\* one (the body's poll).
LEMMA LastOfTail ==
  ASSUME NEW s \in Seq(Item), s # <<>>, s[Len(s)].err, ~Head(s).err
  PROVE  Tail(s) # <<>> /\ Tail(s)[Len(Tail(s))].err
<1> DEFINE t == Tail(s)
           n == Len(s)
<1>1. /\ n \in Nat \ {0} /\ s[1] = Head(s) /\ t \in Seq(Item) /\ Len(t) = n - 1
      /\ \A i \in 1 .. Len(t) : t[i] = s[i + 1]
  BY HeadTailProperties, EmptySeq
<1> HIDE DEF t
<1>2. n # 1
  BY <1>1
<1>3. Len(t) \in 1 .. Len(t) /\ Len(t) + 1 = n
  BY <1>1, <1>2
<1>4. t[Len(t)] = s[n] /\ t # <<>>
  BY <1>1, <1>3
<1> QED BY <1>4 DEF t

\* A position added to a list of positions.
LEMMA AppendPosition ==
  ASSUME NEW s \in Seq(Nat), NEW n \in Nat
  PROVE  Append(s, n) \in Seq(Nat) /\ Len(Append(s, n)) = Len(s) + 1
BY AppendProperties

\* Every step of the closure keeps the invariant (csv.rs, the closure and
\* write_csv_results).
LEMMA WorkKeepsIInv ==
  ASSUME CsvAssumption, IInv, Work
  PROVE  IInv'
<1> USE DEF IInv
<1>1. CASE ConnectionClosed \/ PrepareFails \/ PrepareSucceeds \/ StepFails \/ Return
  <2> USE <1>1 DEF ConnectionClosed, PrepareFails, PrepareSucceeds, StepFails, Return, AtRecordEnd
  <2>1. UNCHANGED <<writerVars, channelVars, bodyVars, rows, rowEnds, exhausted>>
    OBVIOUS
  <2>2. BodyInv'
    BY <2>1, StutterKeepsInv, ProducerKeepsInv DEF BodyInv, BodyTypeOK, channelVars
  <2>3. WorkerTypeOK'
    <3>1. exhausted' \in BOOLEAN /\ rowEnds' \in Seq(Nat)
      BY <2>1 DEF WorkerTypeOK
    <3>2. worker' \in WorkerSteps /\ prepared' \in {"empty", "ok", "error", "gone"}
      BY DEF WorkerTypeOK, WorkerSteps
    <3>3. pending' = pending \/ pending' \in RecordSizes \cup {0}
      OBVIOUS
    <3>4. pending \in Nat /\ RecordSizes \cup {0} \subseteq Nat
      BY DEF WorkerTypeOK, CsvAssumption
    <3>5. pending' \in Nat
      BY <3>3, <3>4
    <3> QED BY <3>1, <3>2, <3>5 DEF WorkerTypeOK
  <2>4. (Worker /\ Failed /\ Complete)'
    BY <2>1 DEF Worker, Failed, Complete, BodyInv, Handler, WorkerTypeOK, WorkerSteps,
                writerVars, channelVars, bodyVars, trackingVars, Closed, Delivered, End
  <2> QED BY <2>2, <2>3, <2>4
<1>2. CASE WriteBytes
  <2>1. PICK n \in 1 .. pending : Write(n) /\ pending' = pending - n
    BY <1>2 DEF WriteBytes
  <2>2. /\ worker = "rows" /\ n \in Nat
        /\ UNCHANGED <<channelVars, bodyVars, rows, worker, prepared, exhausted, rowEnds>>
    BY <1>2 DEF WriteBytes, WorkerTypeOK
  <2>3. BodyInv'
    BY <2>1, <2>2, WriteKeepsInv, ProducerKeepsInv DEF BodyInv, BodyTypeOK, channelVars
  <2>4. WorkerTypeOK'
    BY <2>1, <2>2 DEF WorkerTypeOK
  <2>5. (Worker /\ Failed /\ Complete)'
    BY <2>2 DEF Worker, Failed, Complete, channelVars, bodyVars, trackingVars, Closed,
                Delivered, End
  <2> QED BY <2>3, <2>4, <2>5
<1>3. CASE StepRow
  <2>1. /\ worker = "rows" /\ rows' = rows + 1 /\ pending' \in Nat
        /\ rowEnds' = Append(rowEnds, written + pending')
        /\ UNCHANGED <<writerVars, channelVars, bodyVars, worker, prepared, exhausted>>
    BY <1>3 DEF StepRow, AtRecordEnd, CsvAssumption
  <2>2. BodyInv'
    BY <2>1, StutterKeepsInv, ProducerKeepsInv DEF BodyInv, BodyTypeOK, channelVars
  <2>3. rowEnds' \in Seq(Nat) /\ Len(rowEnds') = Len(rowEnds) + 1
    <3>1. written \in Nat /\ rowEnds \in Seq(Nat)
      BY DEF BodyInv, BodyTypeOK, WriterTypeOK, WorkerTypeOK
    <3>2. pending' \in Nat
      BY <2>1
    <3>3. written + pending' \in Nat
      <4>1. \A a, b \in Nat : a + b \in Nat
        OBVIOUS
      <4> QED BY <3>1, <3>2, <4>1, Zenon
    <3>4. \A n \in Nat : /\ Append(rowEnds, n) \in Seq(Nat)
                         /\ Len(Append(rowEnds, n)) = Len(rowEnds) + 1
      BY <3>1, AppendPosition
    <3>5. rowEnds' = Append(rowEnds, written + pending')
      BY <2>1
    <3> QED BY <3>3, <3>4, <3>5, Zenon
  <2>4. WorkerTypeOK'
    BY <2>1, <2>3 DEF WorkerTypeOK
  <2>5. (Worker /\ Failed /\ Complete)'
    BY <2>1, <2>3 DEF Worker, Failed, Complete, writerVars, channelVars, bodyVars,
                      trackingVars, Closed, Delivered, End
  <2> QED BY <2>2, <2>4, <2>5
<1>4. CASE StepDone
  <2>1. /\ worker = "rows" /\ worker' = "flushing" /\ exhausted' = TRUE /\ Flush
        /\ UNCHANGED <<channelVars, bodyVars, rows, prepared, pending, rowEnds>>
    BY <1>4 DEF StepDone, AtRecordEnd
  <2>2. BodyInv'
    BY <2>1, FlushKeepsInv, ProducerKeepsInv DEF BodyInv, BodyTypeOK, channelVars
  <2>3. WorkerTypeOK'
    BY <2>1 DEF WorkerTypeOK, WorkerSteps
  <2>4. (Worker /\ Failed /\ Complete)'
    BY <2>1 DEF Worker, Failed, Complete, Flush, channelVars, bodyVars, trackingVars,
                Closed, Delivered, End
  <2> QED BY <2>2, <2>3, <2>4
<1>5. CASE Ship
  <2>1. /\ ShipChunk /\ UNCHANGED <<bodyVars, rows, csvVars>>
        /\ outgoing # <<>> /\ UNCHANGED <<shipped, written, receiver, received>>
    BY <1>5 DEF Ship, ShipChunk
  <2>2. BodyInv'
    BY <2>1, ShipKeepsInv, ProducerKeepsInv DEF BodyInv, BodyTypeOK
  <2>3. (WorkerTypeOK /\ Worker /\ Failed /\ Complete)'
    BY <2>1 DEF WorkerTypeOK, Worker, Failed, Complete, ShipChunk, csvVars, bodyVars,
                trackingVars, Closed, Delivered, End
  <2> QED BY <2>2, <2>3
<1>6. CASE WriteFails
  <2>1. /\ BrokenPipe /\ worker' = "failing"
        /\ outgoing # <<>> /\ outgoing' = <<>> /\ Closed
        /\ UNCHANGED <<bodyVars, rows, prepared, pending, exhausted, rowEnds>>
        /\ UNCHANGED <<shipped, written, channelVars>>
    BY <1>6 DEF WriteFails, BrokenPipe
  <2>2. BodyInv'
    BY <2>1, BrokenPipeKeepsInv, ProducerKeepsInv DEF BodyInv, BodyTypeOK, channelVars
  <2>3. WorkerTypeOK'
    BY <2>1 DEF WorkerTypeOK, WorkerSteps
  <2>4. (Worker /\ Failed /\ Complete)'
    BY <2>1 DEF WorkerTypeOK, WorkerSteps, Worker, Failed, Complete, channelVars, bodyVars,
                trackingVars, Closed, Delivered, End
  <2> QED BY <2>2, <2>3, <2>4
<1>7. CASE ReportFailure
  <2>1. /\ SendFailure /\ worker = "failing" /\ worker' = "done"
        /\ UNCHANGED <<bodyVars, rows, prepared, pending, exhausted, rowEnds>>
        /\ UNCHANGED <<writerVars, receiver, received>>
    BY <1>7 DEF ReportFailure, SendFailure
  <2>2. BodyInv'
    BY <2>1, SendFailureKeepsInv, ProducerKeepsInv DEF BodyInv, BodyTypeOK
  <2>3. WorkerTypeOK'
    BY <2>1 DEF WorkerTypeOK, WorkerSteps
  <2>4. ~Closed => channel' # <<>> /\ channel'[Len(channel')].err
    <3> SUFFICES ASSUME ~Closed
                 PROVE  channel' # <<>> /\ channel'[Len(channel')].err
      OBVIOUS
    <3>1. channel' = Append(channel, Failure) /\ channel \in Seq(Item)
      BY <2>1 DEF SendFailure, BodyInv, BodyTypeOK, WriterTypeOK
    <3>2. Failure \in Item /\ Failure.err
      BY PositionsAreNat DEF Failure, Item, BodyInv, BodyTypeOK
    <3> QED BY <3>1, <3>2, AppendProperties
  <2>5. Closed' = Closed /\ Delivered' = Delivered
    BY <2>1 DEF Closed, Delivered, End
  <2>6. (Worker /\ Failed /\ Complete)'
    BY <2>1, <2>4, <2>5 DEF Worker, Failed, Complete, BodyInv, Handler, bodyVars,
                            trackingVars, writerVars
  <2> QED BY <2>2, <2>3, <2>6
<1> QED BY <1>1, <1>2, <1>3, <1>4, <1>5, <1>6, <1>7 DEF Work

\* Every step of the handler and the client keeps the invariant (handlers.rs).
LEMMA HandlerKeepsIInv ==
  ASSUME IInv, AcceptStream \/ RejectStream \/ CancelRequest \/ PollBody \/ DropResponse
  PROVE  IInv'
<1> USE DEF IInv, csvVars
<1>1. CASE AcceptStream
  <2>1. /\ Accept /\ prepared = "ok" /\ response' = "streaming" /\ response = "waiting"
        /\ UNCHANGED <<writerVars, channelVars, trackingVars, rows, csvVars>>
    BY <1>1 DEF AcceptStream, Accept
  <2>2. BodyInv'
    BY <2>1, AcceptKeepsInv
  <2>3. (WorkerTypeOK /\ Worker /\ Failed /\ Complete)'
    BY <2>1 DEF WorkerTypeOK, Worker, Failed, Complete, writerVars, channelVars, Closed
  <2> QED BY <2>2, <2>3
<1>2. CASE RejectStream
  <2>1. /\ Reject /\ response' = "rejected" /\ Closed'
        /\ UNCHANGED <<writerVars, received, rows, csvVars>>
    BY <1>2 DEF RejectStream, Reject, DropReceiver, Closed
  <2>2. BodyInv'
    BY <2>1, RejectKeepsInv
  <2>3. (WorkerTypeOK /\ Worker /\ Failed /\ Complete)'
    BY <2>1 DEF WorkerTypeOK, Worker, Failed, Complete, writerVars
  <2> QED BY <2>2, <2>3
<1>3. CASE CancelRequest
  <2>1. /\ Cancel /\ response' = "cancelled" /\ Closed'
        /\ UNCHANGED <<writerVars, received, rows, csvVars>>
    BY <1>3 DEF CancelRequest, Cancel, DropReceiver, Closed
  <2>2. BodyInv'
    BY <2>1, CancelKeepsInv
  <2>3. (WorkerTypeOK /\ Worker /\ Failed /\ Complete)'
    BY <2>1 DEF WorkerTypeOK, Worker, Failed, Complete, writerVars
  <2> QED BY <2>2, <2>3
<1>4. CASE PollBody /\ Poll
  <2>1. /\ Poll /\ PollItem /\ response = "streaming"
        /\ UNCHANGED <<writerVars, receiver, rows, csvVars>>
        /\ \/ ~Head(channel).err /\ response' = "streaming"
           \/ Head(channel).err /\ response' = "failed"
        /\ channel # <<>> /\ channel' = Tail(channel)
    BY <1>4 DEF PollBody, Poll, PollItem
  <2>2. BodyInv'
    BY <2>1, PollBodyKeepsInv
  <2>3. WorkerTypeOK' /\ Worker' /\ Complete'
    BY <2>1 DEF WorkerTypeOK, Worker, Complete, writerVars, Closed
  <2>4. Failed'
    <3> SUFFICES ASSUME worker = "done", prepared = "ok", ~exhausted, ~Head(channel).err
                 PROVE  channel' # <<>> /\ channel'[Len(channel')].err
      BY <2>1 DEF Failed
    <3>1. channel \in Seq(Item) /\ channel[Len(channel)].err
      BY <2>1 DEF Failed, BodyInv, BodyTypeOK, WriterTypeOK
    <3> QED BY <2>1, <3>1, LastOfTail
  <2> QED BY <2>2, <2>3, <2>4
<1>5. CASE PollBody /\ PollNone(worker = "done")
  <2>1. /\ PollNone(worker = "done") /\ response = "streaming" /\ response' = "complete"
        /\ channel = <<>> /\ worker = "done"
        /\ UNCHANGED <<writerVars, channelVars, rows, csvVars>>
    BY <1>5 DEF PollBody, PollNone
  <2>2. BodyInv' /\ Len(events') = 1 /\ events'[1].rows = rows
    BY <2>1, PollNoneKeepsInv
  <2>3. exhausted /\ Delivered = written
    BY <2>1, DrainedIsWhole
  <2>4. (WorkerTypeOK /\ Worker /\ Failed)'
    BY <2>1 DEF WorkerTypeOK, Worker, Failed, writerVars, channelVars, Closed
  <2>5. Complete'
    BY <2>1, <2>2, <2>3 DEF Complete, writerVars, channelVars, Delivered, End
  <2> QED BY <2>2, <2>4, <2>5
<1>6. CASE DropResponse
  <2>1. /\ DropBody /\ Closed'
        /\ response \in {"streaming", "complete", "failed"}
        /\ response' = IF response = "streaming" THEN "abandoned" ELSE response
        /\ UNCHANGED <<writerVars, received, rows, csvVars>>
        /\ FinishTracking
    BY <1>6 DEF DropResponse, DropBody, DropReceiver, Closed
  <2>2. BodyInv'
    BY <2>1, DropBodyKeepsInv
  <2>3. WorkerTypeOK' /\ Worker' /\ Failed'
    BY <2>1 DEF WorkerTypeOK, Worker, Failed, writerVars
  <2>4. Complete'
    <3> SUFFICES ASSUME response = "complete" PROVE Complete'
      BY <2>1 DEF Complete
    <3>1. finished /\ UNCHANGED events
      BY <2>1 DEF FinishTracking, BodyInv, Handler
    <3> QED BY <2>1, <3>1 DEF Complete, writerVars, Delivered, End
  <2> QED BY <2>2, <2>3, <2>4
<1> QED BY <1>1, <1>2, <1>3, <1>4, <1>5, <1>6 DEF PollBody

--------------------------------------------------------------------------------
\* The invariant is inductive.
LEMMA NextKeepsIInv == CsvAssumption /\ IInv /\ [Next]_vars => IInv'
BY WorkKeepsIInv, HandlerKeepsIInv, StutterKeepsIInv DEF Next, Terminated

\* The invariant holds throughout.
THEOREM Invariant == Spec => []IInv
<1>1. Init => IInv
  BY InitIInv
<1>2. IInv /\ [Next]_vars => IInv'
  BY NextKeepsIInv, CsvAssumption
<1> QED BY <1>1, <1>2, PTL DEF Spec

\* Type correctness of the CSV pipeline, for all values of the constants.
THEOREM TypeCorrect == Spec => []TypeOK
<1>1. IInv => TypeOK
  BY DEF IInv, BodyInv, WorkerTypeOK, TypeOK
<1> QED BY <1>1, Invariant, PTL

\* The client gets one unbroken run of bytes: nothing is lost, repeated or
\* overtaken between `write` and the body (chunk_writer.rs, handlers.rs).
THEOREM ByteOrder == Spec => []BytesInOrder
<1>1. IInv => BytesInOrder
  BY BodyInvImplies DEF IInv
<1> QED BY <1>1, Invariant, PTL

\* Every request whose future survives is reported exactly once (handlers.rs,
\* root, poll_next and drop).
THEOREM OneReport == Spec => []RecordedOnce
<1>1. IInv => RecordedOnce
  BY BodyInvImplies DEF IInv
<1> QED BY <1>1, Invariant, PTL

\* The report tells the bytes delivered and how the body ended (handlers.rs,
\* poll_next and finish_tracking).
THEOREM TrueReport == Spec => []EventMatchesBody
<1>1. IInv => EventMatchesBody
  BY BodyInvImplies DEF IInv
<1> QED BY <1>1, Invariant, PTL

\* A body that ends without an error is the whole result (csv.rs,
\* write_csv_results and the closure).
THEOREM WholeResult == Spec => []CleanEndIsWhole
<1>1. IInv => CleanEndIsWhole
  BY DEF IInv, Complete, Worker, CleanEndIsWhole
<1> QED BY <1>1, Invariant, PTL

\* A query that fails midway leaves an Err for a client that reads on (csv.rs,
\* the closure).
THEOREM FailureReaches == Spec => []FailureIsQueued
<1>1. IInv => FailureIsQueued
  <2> SUFFICES ASSUME IInv, worker = "done", response = "streaming", ~exhausted
               PROVE  \E i \in 1 .. Len(channel) : channel[i].err /\ i = Len(channel)
    BY DEF FailureIsQueued
  <2>1. channel # <<>> /\ channel[Len(channel)].err /\ channel \in Seq(Item)
    BY DEF IInv, Worker, Failed, BodyInv, BodyTypeOK, WriterTypeOK
  <2>2. Len(channel) \in 1 .. Len(channel)
    BY <2>1, EmptySeq
  <2> QED BY <2>1, <2>2
<1> QED BY <1>1, Invariant, PTL

--------------------------------------------------------------------------------
(* What is recorded covers what was delivered.                             *)

\* The rows after the recorded ones end behind the bytes recorded: the counter
\* is bumped before the row is written.
Covered ==
  /\ \A j \in 1 .. Len(rowEnds) : rowEnds[j] > 0
  /\ \A i \in 1 .. Len(events) :
       /\ events[i].rows <= Len(rowEnds)
       /\ \A j \in 1 .. Len(rowEnds) : j > events[i].rows => rowEnds[j] > events[i].bytes

\* A row begun after the report ends behind what was delivered (csv.rs,
\* write_csv_results).
LEMMA RowKeepsCovered ==
  ASSUME CsvAssumption, IInv, Covered, StepRow
  PROVE  Covered'
<1>1. PICK n \in RecordSizes : rowEnds' = Append(rowEnds, written + n)
  BY DEF StepRow
<1>2. /\ n \in Nat \ {0} /\ written \in Nat /\ rowEnds \in Seq(Nat) /\ events' = events
      /\ Delivered <= written /\ Delivered \in Nat /\ events \in Seq(Event)
  BY PositionsAreNat
     DEF CsvAssumption, IInv, BodyInv, WriterInv, Bounded, BodyTypeOK, WriterTypeOK,
         WorkerTypeOK, StepRow, bodyVars, trackingVars
<1>3. /\ Len(rowEnds) \in Nat /\ Len(rowEnds') = Len(rowEnds) + 1
      /\ rowEnds'[Len(rowEnds) + 1] = written + n
      /\ \A j \in 1 .. Len(rowEnds) : rowEnds'[j] = rowEnds[j]
  BY <1>1, <1>2, AppendProperties, LenProperties
<1>4. written + n > Delivered /\ written + n > 0
  BY <1>2
<1>5. \A j \in 1 .. Len(rowEnds') : rowEnds'[j] > 0
  BY <1>3, <1>4 DEF Covered
<1> SUFFICES ASSUME NEW i \in 1 .. Len(events)
             PROVE  /\ events[i].rows <= Len(rowEnds')
                    /\ \A j \in 1 .. Len(rowEnds') :
                         j > events[i].rows => rowEnds'[j] > events[i].bytes
  BY <1>2, <1>5 DEF Covered
<1>6. /\ events[i].rows \in Nat /\ events[i].rows <= Len(rowEnds)
      /\ events[i].bytes = Delivered
  <2>1. events[i] \in Event
    BY <1>2
  <2> QED BY <2>1 DEF Covered, Event, IInv, BodyInv, Reported
<1>7. ASSUME NEW j \in 1 .. Len(rowEnds'), j > events[i].rows
      PROVE  rowEnds'[j] > events[i].bytes
  <2>1. CASE j \in 1 .. Len(rowEnds)
    BY <1>3, <1>7, <2>1 DEF Covered
  <2>2. CASE j = Len(rowEnds) + 1
    BY <1>3, <1>4, <1>6, <2>2
  <2> QED BY <1>3, <2>1, <2>2
<1> QED BY <1>3, <1>6, <1>7

\* A report of every row there is, or of nothing delivered, is covered
\* (handlers.rs, finish_tracking and root).
LEMMA ReportIsCovered ==
  ASSUME IInv, Covered, UNCHANGED rowEnds, Len(events') = 1,
         events'[1].rows = rows \/ (events'[1].rows = 0 /\ events'[1].bytes = 0)
  PROVE  Covered'
<1>1. rows = Len(rowEnds) /\ Len(rowEnds) \in Nat
  BY LenProperties DEF IInv, Worker, WorkerTypeOK
<1> QED BY <1>1 DEF Covered

\* Every step keeps the rows covered: only a row and a report change anything.
LEMMA NextKeepsCovered ==
  ASSUME CsvAssumption, IInv, Covered, [Next]_vars
  PROVE  Covered'
<1> USE DEF csvVars
<1>1. CASE StepRow
  BY <1>1, RowKeepsCovered
<1>2. CASE UNCHANGED <<events, rowEnds>>
  BY <1>2 DEF Covered
<1>3. CASE RejectStream
  <2>1. Record(500, 0, 0) /\ UNCHANGED rowEnds /\ response = "waiting"
    BY <1>3 DEF RejectStream, Reject
  <2>2. events = <<>>
    BY <2>1 DEF IInv, BodyInv, Handler, Reported
  <2>3. Len(events') = 1 /\ events'[1] = [status |-> 500, bytes |-> 0, rows |-> 0]
    BY <2>1, <2>2, RecordOnEmpty
  <2> QED BY <2>1, <2>3, ReportIsCovered
<1>4. CASE FinishTracking /\ ~finished /\ UNCHANGED rowEnds /\ response # "rejected"
  <2>1. events = <<>> /\ Record(status, Delivered, rows)
    BY <1>4 DEF FinishTracking, IInv, BodyInv, Reported
  <2>2. status \in {200, 500} /\ Delivered \in Nat /\ rows \in Nat
    BY PositionsAreNat DEF IInv, BodyInv, BodyTypeOK
  <2>3. Len(events') = 1 /\ events'[1] = [status |-> status, bytes |-> Delivered, rows |-> rows]
    BY <2>1, <2>2, RecordOnEmpty
  <2> QED BY <1>4, <2>3, ReportIsCovered
<1>5. CASE PollBody \/ DropResponse
  <2>1. UNCHANGED rowEnds /\ response # "rejected"
    BY <1>5 DEF PollBody, DropResponse, Poll, PollNone, DropBody
  <2>2. UNCHANGED events \/ (FinishTracking /\ ~finished)
    BY <1>5 DEF PollBody, DropResponse, Poll, PollNone, DropBody, FinishTracking
  <2> QED BY <1>2, <1>4, <2>1, <2>2
<1>6. CASE AcceptStream \/ CancelRequest \/ UNCHANGED vars
  BY <1>2, <1>6 DEF AcceptStream, CancelRequest, Accept, Cancel, vars, bodyVars, trackingVars
<1>7. CASE Work /\ ~StepRow
  BY <1>2, <1>7 DEF Work, ConnectionClosed, PrepareFails, PrepareSucceeds, WriteBytes,
                    StepDone, StepFails, Ship, WriteFails, Return, ReportFailure, bodyVars,
                    trackingVars
<1> QED BY <1>1, <1>3, <1>5, <1>6, <1>7 DEF Next, Terminated

\* What the body delivered never holds more whole rows than were recorded
\* (csv.rs, write_csv_results; handlers.rs, finish_tracking).
THEOREM RecordCovers == Spec => []RecordedCoversDelivered
<1>1. Init => Covered
  BY DEF Init, BodyInit, Covered
<1>2. IInv /\ Covered /\ [Next]_vars => Covered'
  BY NextKeepsCovered, CsvAssumption
<1>3. IInv /\ Covered => RecordedCoversDelivered
  <2> SUFFICES ASSUME IInv, Covered, NEW i \in 1 .. Len(events)
               PROVE  RowsWithin(events[i].bytes) <= events[i].rows
    BY DEF RecordedCoversDelivered
  <2> DEFINE n == events[i].rows
             whole == {j \in 1 .. Len(rowEnds) : rowEnds[j] <= events[i].bytes}
  <2>1. n \in Nat /\ events[i].bytes \in Nat /\ rowEnds \in Seq(Nat)
    <3>1. events[i] \in Event
      BY DEF IInv, BodyInv, BodyTypeOK
    <3> QED BY <3>1 DEF Event, IInv, WorkerTypeOK
  <2>2. \A j \in 1 .. Len(rowEnds) : j > n => ~(rowEnds[j] <= events[i].bytes)
    <3>1. \A j \in 1 .. Len(rowEnds) : rowEnds[j] \in Nat
      BY <2>1
    <3> QED BY <2>1, <3>1 DEF Covered
  <2>3. whole \subseteq 1 .. n
    <3>1. Len(rowEnds) \in Nat
      BY <2>1, LenProperties
    <3> QED BY <2>1, <2>2, <3>1
  <2> HIDE DEF n, whole
  <2>4. IsFiniteSet(1 .. n) /\ Cardinality(1 .. n) = n
    BY <2>1, FS_Interval
  <2>5. Cardinality(whole) <= n
    BY <2>3, <2>4, FS_Subset
  <2>6. RowsWithin(events[i].bytes) = Cardinality(whole)
    BY DEF RowsWithin, whole
  <2> QED BY <2>5, <2>6 DEF n
<1> QED BY <1>1, <1>2, <1>3, Invariant, PTL DEF Spec

--------------------------------------------------------------------------------
(* The sizes of the chunks.                                                *)

\* An item of a stream that has shipped `end` bytes holds less than a chunk and a
\* record, and it is a full chunk, or the last item if no more is written.
ChunkOK(x, end, more) ==
  /\ x.to <= end
  /\ ~x.err => /\ x.from < x.to
               /\ \E n \in RecordSizes : x.to - x.from < ChunkSize + n
  /\ \/ ~x.err /\ x.to - x.from >= ChunkSize
     \/ x.to = end /\ ~more

Sized(s, end, more) == \A i \in 1 .. Len(s) : ChunkOK(s[i], end, more)

MoreToWrite == worker \in {"queued", "rows"}

\* The buffer holds less than a chunk between two writes, and a write adds no
\* more than the rest of a record.
Buffered ==
  /\ written - shipped < ChunkSize
  /\ pending # 0 => \E n \in RecordSizes : pending <= n
  /\ written # 0 => \E n \in RecordSizes : TRUE

SizeInv ==
  /\ Buffered
  /\ Sized(received, shipped, MoreToWrite)
  /\ Sized(channel, shipped, MoreToWrite)
  /\ Sized(outgoing, shipped, MoreToWrite)

\* Items stay well sized when one is added and when the first goes (the two ends
\* of the channel).
LEMMA SizedMoves ==
  ASSUME NEW s \in Seq(Item), NEW x \in Item, NEW end, NEW more, Sized(s, end, more)
  PROVE  /\ ChunkOK(x, end, more) => Sized(Append(s, x), end, more)
         /\ s # <<>> => ChunkOK(Head(s), end, more) /\ Sized(Tail(s), end, more)
<1>1. ChunkOK(x, end, more) => Sized(Append(s, x), end, more)
  <2>1. /\ Len(s) \in Nat /\ Len(Append(s, x)) = Len(s) + 1
        /\ Append(s, x)[Len(s) + 1] = x
        /\ \A i \in 1 .. Len(s) : Append(s, x)[i] = s[i]
    BY AppendProperties, LenProperties
  <2> QED BY <2>1 DEF Sized
<1>2. s # <<>> => ChunkOK(Head(s), end, more) /\ Sized(Tail(s), end, more)
  <2> SUFFICES ASSUME s # <<>>
               PROVE  ChunkOK(Head(s), end, more) /\ Sized(Tail(s), end, more)
    OBVIOUS
  <2>1. /\ Len(s) \in Nat \ {0} /\ s[1] = Head(s) /\ Len(Tail(s)) = Len(s) - 1
        /\ \A i \in 1 .. Len(Tail(s)) : Tail(s)[i] = s[i + 1]
    BY HeadTailProperties, EmptySeq
  <2>2. ChunkOK(Head(s), end, more)
    BY <2>1 DEF Sized
  <2>3. \A i \in 1 .. Len(Tail(s)) : i + 1 \in 1 .. Len(s)
    BY <2>1
  <2> QED BY <2>1, <2>2, <2>3 DEF Sized
<1> QED BY <1>1, <1>2

\* And when the closure stops writing.
LEMMA SizedStays ==
  ASSUME NEW s \in Seq(Item), NEW end, NEW more, NEW still, still => more,
         Sized(s, end, more)
  PROVE  Sized(s, end, still)
BY DEF Sized, ChunkOK

\* While there is more to write every item is a full chunk, and stays one when
\* the stream grows (chunk_writer.rs, write and flush).
LEMMA SizedGrows ==
  ASSUME NEW s \in Seq(Item), NEW end \in Nat, NEW longer \in Nat, end <= longer,
         Sized(s, end, TRUE), NEW more
  PROVE  Sized(s, longer, more)
<1> SUFFICES ASSUME NEW i \in 1 .. Len(s) PROVE ChunkOK(s[i], longer, more)
  BY DEF Sized
<1>1. s[i] \in Item
  OBVIOUS
<1>2. ChunkOK(s[i], end, TRUE)
  BY DEF Sized
<1> QED BY <1>1, <1>2 DEF ChunkOK, Item

\* The chunk that a write or the flush hands over.
LEMMA SizedNew ==
  ASSUME CsvAssumption, NEW from \in Nat, NEW to \in Nat, from < to,
         NEW n \in RecordSizes, to - from < ChunkSize + n, NEW more,
         to - from >= ChunkSize \/ ~more
  PROVE  Sized(<<Data(from, to)>>, to, more)
<1> DEFINE x == Data(from, to)
<1>1. ~x.err /\ x.from = from /\ x.to = to
  BY DEF Data
<1> HIDE DEF x
<1>2. ChunkOK(x, to, more)
  BY <1>1 DEF ChunkOK
<1>3. Sized(<<x>>, to, more)
  BY <1>2 DEF Sized
<1> QED BY <1>3 DEF x

\* An empty run has no ill-sized item.
LEMMA SizedEmpty == \A end, more : Sized(<<>>, end, more)
BY DEF Sized

\* The closure's writes keep the sizes (chunk_writer.rs, write).
LEMMA WriteKeepsSizes ==
  ASSUME CsvAssumption, ChunkAssumption, IInv, SizeInv, WriteBytes
  PROVE  SizeInv'
<1> USE DEF SizeInv
<1>1. PICK n \in 1 .. pending : Write(n) /\ pending' = pending - n
  BY DEF WriteBytes
<1>2. /\ worker = "rows" /\ worker' = "rows" /\ UNCHANGED <<channel, received>>
      /\ pending \in Nat
      /\ shipped \in Nat /\ written \in Nat /\ ChunkSize \in Nat \ {0}
      /\ channel \in Seq(Item) /\ received \in Seq(Item)
      /\ shipped <= written
  BY DEF WriteBytes, channelVars, IInv, WorkerTypeOK, BodyInv, BodyTypeOK, WriterInv,
         WriterTypeOK, Positions, ChunkAssumption
<1>3. PICK m \in RecordSizes : pending <= m
  <2>1. pending # 0
    BY <1>2
  <2> QED BY <2>1 DEF Buffered
<1>4. m \in Nat /\ n \in Nat /\ n # 0 /\ n <= pending /\ MoreToWrite = TRUE /\ MoreToWrite' = TRUE
  BY <1>2 DEF CsvAssumption, MoreToWrite
<1>5. /\ written' = written + n
      /\ \/ /\ written' - shipped >= ChunkSize
            /\ outgoing' = <<Data(shipped, written')>> /\ shipped' = written'
         \/ /\ written' - shipped < ChunkSize
            /\ outgoing' = <<>> /\ shipped' = shipped
  BY <1>1 DEF Write
<1>6. written' \in Nat /\ shipped' \in Nat /\ shipped <= shipped' /\ shipped < written'
  BY <1>2, <1>4, <1>5
<1>7. /\ Sized(received, shipped, MoreToWrite)'
      /\ Sized(channel, shipped, MoreToWrite)'
  BY <1>2, <1>4, <1>6, SizedGrows
<1>8. Buffered'
  <2>1. written' - shipped' < ChunkSize
    <3>1. CASE shipped' = written'
      <4>1. 0 < ChunkSize
        BY <1>2
      <4>2. \A p \in Nat : p - p = 0
        OBVIOUS
      <4>3. written' - shipped' = 0
        BY <1>6, <3>1, <4>2
      <4> QED BY <4>1, <4>3
    <3>2. CASE written' - shipped < ChunkSize /\ shipped' = shipped
      BY <3>2
    <3> QED BY <1>5, <3>1, <3>2
  <2>2. pending' <= m
    BY <1>1, <1>2, <1>3, <1>4
  <2> QED BY <2>1, <2>2 DEF Buffered
<1>9. Sized(outgoing, shipped, MoreToWrite)'
  <2>1. written - shipped < ChunkSize
    BY DEF Buffered
  <2>2. written' - shipped < ChunkSize + m
    BY <1>2, <1>3, <1>4, <1>5, <2>1
  <2>3. written' - shipped >= ChunkSize => Sized(<<Data(shipped, written')>>, written', TRUE)
    BY <1>2, <1>6, <2>2, SizedNew
  <2> QED BY <1>4, <1>5, <2>3, SizedEmpty
<1> QED BY <1>7, <1>8, <1>9

\* The final flush ships less than a chunk, and nothing follows it
\* (chunk_writer.rs, flush).
LEMMA FlushKeepsSizes ==
  ASSUME CsvAssumption, ChunkAssumption, IInv, SizeInv, StepDone
  PROVE  SizeInv'
<1> USE DEF SizeInv
<1>1. /\ worker = "rows" /\ worker' = "flushing" /\ UNCHANGED <<channel, received, pending>>
      /\ shipped \in Nat /\ written \in Nat /\ ChunkSize \in Nat \ {0}
      /\ channel \in Seq(Item) /\ received \in Seq(Item)
      /\ written' = written /\ shipped' = written /\ shipped <= written
      /\ outgoing' = IF written > shipped THEN <<Data(shipped, written)>> ELSE <<>>
  BY DEF StepDone, AtRecordEnd, Flush, channelVars, IInv, BodyInv, BodyTypeOK, WriterInv,
         WriterTypeOK, Positions, ChunkAssumption
<1>2. MoreToWrite = TRUE /\ MoreToWrite' = FALSE
  BY <1>1 DEF MoreToWrite
<1>3. /\ Sized(received, shipped, MoreToWrite)'
      /\ Sized(channel, shipped, MoreToWrite)'
  BY <1>1, <1>2, SizedGrows
<1>4. Buffered'
  BY <1>1 DEF Buffered
<1>5. Sized(outgoing, shipped, MoreToWrite)'
  <2>1. CASE ~(written > shipped)
    BY <1>1, <2>1, SizedEmpty
  <2>2. CASE written > shipped
    <3>1. \E n \in RecordSizes : TRUE
      <4>1. written # 0
        BY <1>1, <2>2
      <4> QED BY <4>1 DEF Buffered
    <3>2. PICK n \in RecordSizes : TRUE
      BY <3>1
    <3>3. written - shipped < ChunkSize + n
      <4>1. n \in Nat /\ written - shipped < ChunkSize
        BY DEF CsvAssumption, Buffered
      <4> QED BY <1>1, <4>1
    <3>4. Sized(<<Data(shipped, written)>>, written, FALSE)
      BY <1>1, <2>2, <3>3, SizedNew
    <3> QED BY <1>1, <1>2, <2>2, <3>4
  <2> QED BY <2>1, <2>2
<1> QED BY <1>3, <1>4, <1>5

\* Every other step moves, drops or ends the items (csv.rs, chunk_writer.rs and
\* handlers.rs).
LEMMA MovesKeepSizes ==
  ASSUME CsvAssumption, IInv, SizeInv, [Next]_vars, ~WriteBytes, ~StepDone
  PROVE  SizeInv'
<1> USE DEF SizeInv
<1>0. /\ channel \in Seq(Item) /\ received \in Seq(Item) /\ outgoing \in Seq(Item)
      /\ Len(outgoing) <= 1
      /\ shipped \in Nat /\ written \in Nat /\ pending \in Nat
  BY DEF IInv, BodyInv, BodyTypeOK, WriterTypeOK, WorkerTypeOK
<1>1. UNCHANGED <<shipped, written>>
  BY DEF Next, Work, ConnectionClosed, PrepareFails, PrepareSucceeds, StepRow, StepFails, Ship,
         WriteFails, Return, ReportFailure, AcceptStream, RejectStream, CancelRequest,
         PollBody, DropResponse, Terminated, ShipChunk, BrokenPipe, SendFailure, Accept,
         Reject, Cancel, Poll, PollItem, PollNone, DropBody, writerVars, vars
<1>2. pending' \in RecordSizes \cup {0} \/ UNCHANGED pending
  BY DEF Next, Work, ConnectionClosed, PrepareFails, PrepareSucceeds, StepRow, StepFails, Ship,
         WriteFails, Return, ReportFailure, AcceptStream, RejectStream, CancelRequest,
         PollBody, DropResponse, Terminated, csvVars, vars
<1>3. MoreToWrite' => MoreToWrite
  BY DEF Next, Work, ConnectionClosed, PrepareFails, PrepareSucceeds, StepRow, StepFails, Ship,
         WriteFails, Return, ReportFailure, AcceptStream, RejectStream, CancelRequest,
         PollBody, DropResponse, Terminated, csvVars, vars, MoreToWrite
<1>4. Buffered'
  <2>1. pending' # 0 => \E n \in RecordSizes : pending' <= n
    <3>1. CASE pending' \in RecordSizes
      <4>1. pending' <= pending'
        BY <3>1 DEF CsvAssumption
      <4> QED BY <3>1, <4>1
    <3>2. CASE pending' = 0 \/ UNCHANGED pending
      BY <3>2 DEF Buffered
    <3> QED BY <1>2, <3>1, <3>2
  <2> QED BY <1>1, <2>1 DEF Buffered
<1>5. /\ Sized(received, shipped', MoreToWrite')
      /\ Sized(channel, shipped', MoreToWrite')
      /\ Sized(outgoing, shipped', MoreToWrite')
      /\ Sized(<<>>, shipped', MoreToWrite')
  BY <1>0, <1>1, <1>3, SizedStays, SizedEmpty
<1>6. CASE ShipChunk
  <2>1. outgoing # <<>> /\ channel' = channel \o outgoing /\ outgoing' = <<>> /\ received' = received
    BY <1>6 DEF ShipChunk
  <2>2. outgoing = <<outgoing[1]>> /\ outgoing[1] \in Item /\ Len(outgoing) = 1
    BY <1>0, <2>1, OneItem
  <2>3. channel' = Append(channel, outgoing[1])
    BY <1>0, <2>1, <2>2, AppendIsConcat
  <2>4. ChunkOK(outgoing[1], shipped', MoreToWrite')
    BY <1>5, <2>2 DEF Sized
  <2>5. Sized(channel, shipped, MoreToWrite)'
    BY <1>0, <1>5, <2>2, <2>3, <2>4, SizedMoves
  <2> QED BY <1>4, <1>5, <2>1, <2>5
<1>7. CASE ReportFailure
  <2>1. /\ outgoing' = outgoing /\ received' = received /\ worker = "failing" /\ ~MoreToWrite'
        /\ \/ channel' = channel
           \/ ~Closed /\ channel' = Append(channel, Failure)
    BY <1>7 DEF ReportFailure, SendFailure, writerVars, MoreToWrite
  <2>2. CASE channel' = channel
    BY <1>4, <1>5, <2>1, <2>2
  <2>3. CASE ~Closed /\ channel' = Append(channel, Failure)
    <3>1. shipped = Queued
      BY <2>1, <2>3 DEF IInv, Worker, BodyInv, WriterInv, Positions, End
    <3>2. Failure \in Item /\ Failure.err /\ Failure.to = shipped
      BY <1>0, <3>1 DEF Failure, Item
    <3>3. ChunkOK(Failure, shipped', MoreToWrite')
      BY <1>0, <1>1, <2>1, <3>2 DEF ChunkOK
    <3>4. Sized(channel, shipped, MoreToWrite)'
      BY <1>0, <1>5, <2>3, <3>2, <3>3, SizedMoves
    <3> QED BY <1>4, <1>5, <2>1, <3>4
  <2> QED BY <2>1, <2>2, <2>3
<1>8. CASE PollBody /\ Poll
  <2>1. /\ outgoing' = outgoing /\ channel # <<>> /\ channel' = Tail(channel)
        /\ received' = Append(received, Head(channel))
    BY <1>8 DEF Poll, PollItem, writerVars
  <2>2. Head(channel) \in Item
    BY <1>0, <2>1, HeadTailProperties
  <2>3. ChunkOK(Head(channel), shipped', MoreToWrite') /\ Sized(Tail(channel), shipped', MoreToWrite')
    BY <1>0, <1>5, <2>1, <2>2, SizedMoves
  <2>4. Sized(Append(received, Head(channel)), shipped', MoreToWrite')
    BY <1>0, <1>5, <2>2, <2>3, SizedMoves
  <2> QED BY <1>4, <1>5, <2>1, <2>3, <2>4
<1>9. CASE /\ received' = received /\ channel' \in {channel, <<>>} /\ outgoing' \in {outgoing, <<>>}
  BY <1>4, <1>5, <1>9
<1>10. \/ ShipChunk \/ ReportFailure \/ (PollBody /\ Poll)
       \/ /\ received' = received /\ channel' \in {channel, <<>>} /\ outgoing' \in {outgoing, <<>>}
  BY DEF Next, Work, ConnectionClosed, PrepareFails, PrepareSucceeds, StepRow, StepFails, Ship,
         WriteFails, Return, AcceptStream, RejectStream, CancelRequest,
         PollBody, DropResponse, Terminated, BrokenPipe, Accept,
         Reject, Cancel, PollNone, DropBody, DropReceiver, writerVars, channelVars, vars
<1> QED BY <1>6, <1>7, <1>8, <1>9, <1>10

\* The body's chunks are full but for the last one, and none holds a chunk and a
\* record (chunk_writer.rs, write and flush).
THEOREM SizesOfChunks == Spec => []ChunkSizes
<1>1. Init => SizeInv
  BY ChunkAssumption, SizedEmpty
     DEF Init, BodyInit, WriterInit, SizeInv, Buffered, ChunkAssumption
<1>2. IInv /\ SizeInv /\ [Next]_vars => SizeInv'
  BY WriteKeepsSizes, FlushKeepsSizes, MovesKeepSizes, CsvAssumption, ChunkAssumption
<1>3. IInv /\ SizeInv => ChunkSizes
  <2> SUFFICES ASSUME IInv, SizeInv, NEW i \in 1 .. Len(received)
               PROVE  /\ i < Len(received) /\ ~received[i + 1].err =>
                           received[i].to - received[i].from >= ChunkSize
                      /\ ~received[i].err =>
                           \E n \in RecordSizes : received[i].to - received[i].from < ChunkSize + n
    BY DEF ChunkSizes
  <2>1. ChunkOK(received[i], shipped, MoreToWrite)
    BY DEF SizeInv, Sized
  <2>2. received \in Seq(Item) /\ Len(received) \in Nat /\ shipped \in Nat /\ Chain(received, 0)
    BY LenProperties DEF IInv, BodyInv, BodyTypeOK, WriterTypeOK, WriterInv, Positions
  <2>3. ASSUME i < Len(received), ~received[i + 1].err
        PROVE  received[i].to - received[i].from >= ChunkSize
    <3>1. i + 1 \in 1 .. Len(received) /\ i + 1 # 1 /\ i + 1 - 1 = i
      BY <2>2, <2>3
    <3>2. /\ received[i + 1].from = received[i].to
          /\ ChunkOK(received[i + 1], shipped, MoreToWrite)
          /\ received[i] \in Item /\ received[i + 1] \in Item
      BY <2>2, <3>1 DEF Chain, SizeInv, Sized
    <3>3. received[i].to # shipped
      BY <2>2, <2>3, <3>2 DEF ChunkOK, Item
    <3> QED BY <2>1, <3>3 DEF ChunkOK
  <2> QED BY <2>1, <2>3 DEF ChunkOK
<1> QED BY <1>1, <1>2, <1>3, Invariant, PTL DEF Spec

--------------------------------------------------------------------------------
(* The refinement of ResultStream.                                         *)

\* A fresh request maps to a fresh one.
LEMMA InitImplements == Init => Result!Init
BY DEF Init, BodyInit, WriterInit, Result!Init, Delivered, End

\* What the closure does is more of the result, or nothing the client could
\* tell (csv.rs, the closure and write_csv_results).
LEMMA WorkImplements ==
  ASSUME CsvAssumption, IInv, Work
  PROVE  Result!Produce \/ UNCHANGED Result!vars
<1>1. /\ written \in Nat /\ exhausted \in BOOLEAN
      /\ worker = "rows" => ~exhausted
  BY DEF IInv, BodyInv, BodyTypeOK, WriterTypeOK, WorkerTypeOK, Worker
<1>2. CASE WriteBytes
  <2>1. PICK n \in 1 .. pending : written' = written + n
    BY <1>2 DEF WriteBytes, Write
  <2>2. /\ n \in Nat /\ worker = "rows"
        /\ UNCHANGED <<exhausted, response, received>>
    BY <1>2 DEF WriteBytes, channelVars, bodyVars, IInv, WorkerTypeOK
  <2>3. written' \in Nat /\ written' >= written
    BY <1>1, <2>1, <2>2
  <2>4. UNCHANGED <<response, Delivered>>
    BY <2>2 DEF Delivered, End
  <2> QED BY <1>1, <2>2, <2>3, <2>4 DEF Result!Produce
<1>3. CASE StepDone
  <2>1. /\ worker = "rows" /\ exhausted' = TRUE
        /\ UNCHANGED <<written, response, received>>
    BY <1>3 DEF StepDone, AtRecordEnd, Flush, channelVars, bodyVars
  <2> QED BY <1>1, <2>1 DEF Result!Produce, Delivered, End
<1>4. CASE \/ ConnectionClosed \/ PrepareFails \/ PrepareSucceeds \/ StepRow \/ StepFails
           \/ Ship \/ WriteFails \/ Return \/ ReportFailure
  <2>1. UNCHANGED <<written, exhausted, response, received>>
    BY <1>4 DEF ConnectionClosed, PrepareFails, PrepareSucceeds, StepRow, StepFails, Ship,
                WriteFails, Return, ReportFailure, ShipChunk, BrokenPipe, SendFailure,
                writerVars, channelVars, bodyVars, csvVars
  <2> QED BY <2>1 DEF Result!vars, Delivered, End
<1> QED BY <1>2, <1>3, <1>4 DEF Work

\* What the handler and the client do is an answer, a delivery, the clean end of
\* a whole result or the break of a partial one (handlers.rs).
LEMMA HandlerImplements ==
  ASSUME IInv, AcceptStream \/ RejectStream \/ CancelRequest \/ PollBody \/ DropResponse
  PROVE  Result!Next \/ UNCHANGED Result!vars
<1> USE DEF csvVars
<1>1. CASE AcceptStream \/ RejectStream \/ CancelRequest
  <2>1. /\ response = "waiting" /\ response' \in {"streaming", "rejected", "cancelled"}
        /\ UNCHANGED <<written, exhausted, received>>
    BY <1>1 DEF AcceptStream, RejectStream, CancelRequest, Accept, Reject, Cancel,
                writerVars, channelVars
  <2> QED BY <2>1 DEF Result!Next, Result!Answer, Delivered, End
<1>2. CASE PollBody /\ Poll
  <2>1. /\ response = "streaming" /\ UNCHANGED <<written, exhausted>>
        /\ \/ ~Head(channel).err /\ response' = "streaming"
           \/ Head(channel).err /\ response' = "failed"
    BY <1>2 DEF PollBody, Poll, PollItem, writerVars
  <2>2. /\ Head(channel) \in Item /\ Delivered' = Head(channel).to
        /\ Delivered <= Delivered' /\ Delivered' <= written
        /\ Head(channel).err => Delivered' = Delivered
    BY <1>2, PollBodyKeepsInv DEF IInv
  <2>3. Delivered \in Nat /\ Delivered' \in Nat
    BY <2>2, PositionsAreNat DEF Item, IInv, BodyInv, BodyTypeOK
  <2>4. Result!Deliver \/ Result!Break \/ UNCHANGED Result!vars
    BY <2>1, <2>2, <2>3 DEF Result!Deliver, Result!Break, Result!vars
  <2> QED BY <2>4 DEF Result!Next
<1>3. CASE PollBody /\ PollNone(worker = "done")
  <2>1. /\ response = "streaming" /\ response' = "complete"
        /\ channel = <<>> /\ worker = "done"
        /\ UNCHANGED <<written, exhausted, received>>
    BY <1>3 DEF PollBody, PollNone, writerVars, channelVars
  <2>2. exhausted /\ Delivered = written
    BY <2>1, DrainedIsWhole
  <2> QED BY <2>1, <2>2 DEF Result!Next, Result!EndCleanly, Delivered, End
<1>4. CASE DropResponse
  <2>1. /\ response' = IF response = "streaming" THEN "abandoned" ELSE response
        /\ UNCHANGED <<written, exhausted, received>>
    BY <1>4 DEF DropResponse, DropBody, writerVars
  <2>2. Result!Break \/ UNCHANGED Result!vars
    BY <2>1 DEF Result!Break, Result!vars, Delivered, End
  <2> QED BY <2>2 DEF Result!Next
<1> QED BY <1>1, <1>2, <1>3, <1>4 DEF PollBody

\* The CSV pipeline implements the promise of ResultStream: the client gets a
\* growing prefix of one result, which ends cleanly only when it is the whole of
\* it (csv.rs, chunk_writer.rs and handlers.rs together).
THEOREM Implementation == Spec => ImplementsResult
<1>1. Init => Result!Init
  BY InitImplements
<1>2. IInv /\ [Next]_vars => [Result!Next]_(Result!vars)
  <2> SUFFICES ASSUME IInv, [Next]_vars
               PROVE  Result!Next \/ UNCHANGED Result!vars
    OBVIOUS
  <2>1. CASE Work
    BY <2>1, WorkImplements, CsvAssumption DEF Result!Next
  <2>2. CASE AcceptStream \/ RejectStream \/ CancelRequest \/ PollBody \/ DropResponse
    BY <2>2, HandlerImplements
  <2>3. CASE UNCHANGED vars
    BY <2>3 DEF vars, writerVars, channelVars, bodyVars, csvVars, Result!vars, Delivered, End
  <2> QED BY <2>1, <2>2, <2>3 DEF Next, Terminated
<1> QED BY <1>1, <1>2, Invariant, PTL DEF Spec, ImplementsResult, Result!Spec
================================================================================
