------------------------------- MODULE CsvStream -------------------------------
(***************************************************************************)
(* One CSV request: the closure `query_as_csv_stream` runs on the thread   *)
(* of its connection (src/src/db/csv.rs), writing through a CsvWriter into *)
(* the ChunkWriter, against the handler and the client of ResponseBody.    *)
(*                                                                         *)
(* A record (the header or a row) is abstracted to its length in bytes.    *)
(* CsvWriter passes it on in as many `write` calls as the fields need, so  *)
(* a chunk may end anywhere inside a record.                               *)
(***************************************************************************)
EXTENDS ResponseBody, FiniteSets

CONSTANTS
  RecordSizes,   \* the lengths a record may have
  MaxRows        \* bound: rows a query may return

ASSUME CsvAssumption ==
  /\ RecordSizes \subseteq Nat \ {0}
  /\ MaxRows \in Nat

VARIABLES
  worker,      \* where the closure stands, see WorkerSteps
  prepared,    \* the oneshot: "empty", "ok", "error", or "gone" unanswered
  pending,     \* bytes of the current record not yet given to `write`
  exhausted,   \* sqlite3_step has returned SQLITE_DONE
  rowEnds      \* history: the position where each row ends

csvVars == <<worker, prepared, pending, exhausted, rowEnds>>
vars == <<writerVars, channelVars, bodyVars, rows, csvVars>>

\* queued     in the connection's call queue    rows     in write_csv_results
\* flushing   in its final flush                failing  returned Err
\* done       the closure and its senders are gone
WorkerSteps == {"queued", "rows", "flushing", "failing", "done"}

Init ==
  /\ BodyInit
  /\ worker = "queued" /\ prepared = "empty"
  /\ pending = 0 /\ exhausted = FALSE /\ rowEnds = <<>>

--------------------------------------------------------------------------------
(* The closure, on the connection's thread.                                *)

\* Mutant: the oneshot outlives the closure and is never answered.
ConnectionClosed_Silent ==
  /\ worker = "queued"
  /\ worker' = "done"
  /\ UNCHANGED <<writerVars, channelVars, bodyVars, rows, prepared, pending, exhausted, rowEnds>>

\* The connection's thread is gone: `call` fails, the closure is dropped
\* unrun and the oneshot with it.
ConnectionClosed ==
  /\ worker = "queued"
  /\ worker' = "done" /\ prepared' = "gone"
  /\ UNCHANGED <<writerVars, channelVars, bodyVars, rows, pending, exhausted, rowEnds>>

\* prepare fails: tell the handler and return.
PrepareFails ==
  /\ worker = "queued"
  /\ worker' = "done" /\ prepared' = "error"
  /\ UNCHANGED <<writerVars, channelVars, bodyVars, rows, pending, exhausted, rowEnds>>

\* prepare succeeds: tell the handler, whether or not it still listens, and
\* start on the header, which a statement without columns does not have.
PrepareSucceeds ==
  /\ worker = "queued"
  /\ worker' = "rows" /\ prepared' = "ok"
  /\ pending' \in RecordSizes \cup {0}
  /\ UNCHANGED <<writerVars, channelVars, bodyVars, rows, exhausted, rowEnds>>

\* Mutant: a slice reaches one byte too far.
WriteBytes_TooFar ==
  /\ worker = "rows" /\ pending > 0
  /\ \E n \in 1 .. pending + 1 :
       /\ Write(n)
       /\ pending' = pending - n
  /\ UNCHANGED <<channelVars, bodyVars, rows, worker, prepared, exhausted, rowEnds>>

\* One write_all of the CsvWriter.
WriteBytes ==
  /\ worker = "rows"
  /\ \E n \in 1 .. pending :
       /\ Write(n)
       /\ pending' = pending - n
  /\ UNCHANGED <<channelVars, bodyVars, rows, worker, prepared, exhausted, rowEnds>>

AtRecordEnd == worker = "rows" /\ pending = 0 /\ outgoing = <<>>

\* Mutant: a row is counted when the next one comes, after it is written.
StepRow_CountsLate ==
  /\ AtRecordEnd /\ Len(rowEnds) < MaxRows
  /\ rows' = Len(rowEnds)
  /\ pending' \in RecordSizes
  /\ rowEnds' = Append(rowEnds, written + pending')
  /\ UNCHANGED <<writerVars, channelVars, bodyVars, worker, prepared, exhausted>>

\* query_rows.next() yields a row: count it and begin to write it.
StepRow ==
  /\ AtRecordEnd /\ rows < MaxRows
  /\ rows' = rows + 1
  /\ pending' \in RecordSizes
  /\ rowEnds' = Append(rowEnds, written + pending')
  /\ UNCHANGED <<writerVars, channelVars, bodyVars, worker, prepared, exhausted>>

\* query_rows.next() yields None: flush the writer.
StepDone ==
  /\ AtRecordEnd
  /\ exhausted' = TRUE
  /\ worker' = "flushing"
  /\ Flush
  /\ UNCHANGED <<channelVars, bodyVars, rows, prepared, pending, rowEnds>>

\* Binding or stepping the statement fails, or reading a column of the row does,
\* which may leave part of its record written. What the buffer holds is lost.
StepFails ==
  /\ worker = "rows" /\ outgoing = <<>>
  /\ pending = 0 \/ rows > 0
  /\ worker' = "failing"
  /\ UNCHANGED <<writerVars, channelVars, bodyVars, rows, prepared, pending, exhausted, rowEnds>>

Ship ==
  /\ ShipChunk
  /\ UNCHANGED <<bodyVars, rows, csvVars>>

\* The receiver is gone: the error leaves write_csv_results.
WriteFails ==
  /\ BrokenPipe
  /\ worker' = "failing"
  /\ UNCHANGED <<bodyVars, rows, prepared, pending, exhausted, rowEnds>>

\* write_csv_results returns Ok, and so does the closure.
Return ==
  /\ worker = "flushing" /\ outgoing = <<>>
  /\ worker' = "done"
  /\ UNCHANGED <<writerVars, channelVars, bodyVars, rows, prepared, pending, exhausted, rowEnds>>

\* Mutant: the error is logged and not queued.
ReportFailure_LogsOnly ==
  /\ worker = "failing"
  /\ worker' = "done"
  /\ UNCHANGED <<writerVars, channelVars, bodyVars, rows, prepared, pending, exhausted, rowEnds>>

\* write_csv_results returned Err: queue it for the client, if there is one.
ReportFailure ==
  /\ worker = "failing"
  /\ SendFailure
  /\ worker' = "done"
  /\ UNCHANGED <<bodyVars, rows, prepared, pending, exhausted, rowEnds>>

--------------------------------------------------------------------------------
(* The handler and the client.                                             *)

AcceptStream == prepared = "ok" /\ Accept /\ UNCHANGED csvVars

RejectStream == prepared \in {"error", "gone"} /\ Reject /\ UNCHANGED csvVars

CancelRequest == Cancel /\ UNCHANGED csvVars

PollBody == (Poll \/ PollNone(worker = "done")) /\ UNCHANGED csvVars

DropResponse == DropBody /\ UNCHANGED csvVars

--------------------------------------------------------------------------------
Work ==
  \/ ConnectionClosed \/ PrepareFails \/ PrepareSucceeds
  \/ WriteBytes \/ StepRow \/ StepDone \/ StepFails
  \/ Ship \/ WriteFails \/ Return \/ ReportFailure

Terminated == worker = "done" /\ BodyGone /\ UNCHANGED vars

Next ==
  \/ Work
  \/ AcceptStream \/ RejectStream \/ CancelRequest
  \/ PollBody \/ DropResponse
  \/ Terminated

Spec == Init /\ [][Next]_vars

\* The connection's thread and the runtime keep running, and a client that
\* stays connected keeps reading: the server has no timeout of its own, so
\* nothing can be promised about a client that stays and does not read.  The
\* body is dropped after its end.
Fairness ==
  /\ WF_vars(Work)
  /\ WF_vars(AcceptStream \/ RejectStream)
  /\ WF_vars(PollBody)
  /\ WF_vars(DropResponse /\ response # "streaming")

FairSpec == Spec /\ Fairness

--------------------------------------------------------------------------------
TypeOK ==
  /\ BodyTypeOK
  /\ worker \in WorkerSteps
  /\ prepared \in {"empty", "ok", "error", "gone"}
  /\ pending \in Nat
  /\ exhausted \in BOOLEAN
  /\ rowEnds \in Seq(Nat)

\* A body that ends without an error is the whole result: the query ran to
\* SQLITE_DONE, every byte written was delivered, and every row was counted
\* (csv.rs, write_csv_results and the closure; the client has no other way to
\* tell a truncated result from a whole one).
CleanEndIsWhole ==
  response = "complete" =>
    /\ exhausted
    /\ Delivered = written
    /\ \A i \in 1 .. Len(events) : events[i].rows = Len(rowEnds)

\* The rows that end within the first p bytes.
RowsWithin(p) == Cardinality({i \in 1 .. Len(rowEnds) : rowEnds[i] <= p})

\* What the body delivered never holds more whole rows than were recorded: the
\* counter is bumped before the row is written (csv.rs, write_csv_results).
RecordedCoversDelivered ==
  \A i \in 1 .. Len(events) : RowsWithin(events[i].bytes) <= events[i].rows

\* An error of the query reaches a client that goes on reading: a closure that
\* has returned without SQLITE_DONE leaves an Err behind its last chunk.
FailureIsQueued ==
  worker = "done" /\ response = "streaming" /\ ~exhausted =>
    \E i \in 1 .. Len(channel) : channel[i].err /\ i = Len(channel)

\* A chunk holds at least ChunkSize bytes, except the last one, and less than
\* ChunkSize and one record, the most one write can add (chunk_writer.rs).
ChunkSizes ==
  \A i \in 1 .. Len(received) :
    LET size(j) == received[j].to - received[j].from
    IN  /\ i < Len(received) /\ ~received[i + 1].err => size(i) >= ChunkSize
        /\ ~received[i].err => \E n \in RecordSizes : size(i) < ChunkSize + n

--------------------------------------------------------------------------------
\* The promise to the client.
Result == INSTANCE ResultStream WITH
  state <- response, produced <- written, whole <- exhausted, delivered <- Delivered

\* The CSV pipeline implements the promise made to the client.
ImplementsResult == Result!Spec

\* The connection is given back: whatever the client does, the closure ends.
WorkerEnds == <>(worker = "done")

\* And the request comes to an end for the client.
BodyEnds == <>BodyGone
================================================================================
