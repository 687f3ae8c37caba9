------------------------------ MODULE ResponseBody ------------------------------
(***************************************************************************)
(* One query request from the point where `root` (src/src/handlers.rs)     *)
(* awaits its stream to the point where the response body is gone: the     *)
(* answer to the oneshot, the MetricTrackingStream that wraps the receiver *)
(* and the client, who reads, stalls or disconnects when it likes.         *)
(*                                                                         *)
(* The producers of the stream are in CsvStream and ParquetStream, which   *)
(* EXTEND this module and say when the oneshot is answered and when the    *)
(* last sender of the channel is gone.                                     *)
(***************************************************************************)
EXTENDS ChunkWriter

VARIABLES
  response,   \* where the request stands, see Responses
  rows,       \* row_counter, shared with the thread that steps the query
  status,     \* MetricTrackingStream.status
  finished,   \* MetricTrackingStream.finished
  events      \* the RequestEvents given to record_request

trackingVars == <<status, finished, events>>
bodyVars == <<response, trackingVars>>

\* waiting    root awaits the oneshot            rejected   root returned Err
\* streaming  the body is being sent             cancelled  root was dropped
\* complete   the body polled None               failed     the body polled Err
\* abandoned  the body was dropped while streaming
Responses == {"waiting", "rejected", "cancelled", "streaming",
              "complete", "failed", "abandoned"}

Event == [status : {200, 500}, bytes : Nat, rows : Nat]

BodyInit ==
  /\ WriterInit
  /\ response = "waiting"
  /\ rows = 0
  /\ status = 200 /\ finished = FALSE /\ events = <<>>

--------------------------------------------------------------------------------
Record(code, bytes, count) ==
  events' = Append(events, [status |-> code, bytes |-> bytes, rows |-> count])

\* Mutant: Drop reports again what poll_next has reported.
FinishTracking_Again ==
  /\ finished' = TRUE
  /\ Record(status, Delivered, rows)

\* finish_tracking: report once, with the row counter as it is by now.
\* bytes_sent is the length of the chunks polled, which form a chain from 0.
FinishTracking ==
  \/ /\ finished
     /\ UNCHANGED <<finished, events>>
  \/ /\ ~finished
     /\ finished' = TRUE
     /\ Record(status, Delivered, rows)

\* The oneshot brings Ok: root returns the wrapped receiver as the body.
Accept ==
  /\ response = "waiting"
  /\ response' = "streaming"
  /\ UNCHANGED <<writerVars, channelVars, trackingVars, rows>>

\* The oneshot brings an error, or its sender is gone: the receiver is dropped
\* inside query_as_*_stream and root records the failure itself.
Reject ==
  /\ response = "waiting"
  /\ response' = "rejected"
  /\ DropReceiver
  /\ Record(500, 0, 0)
  /\ UNCHANGED <<writerVars, received, status, finished, rows>>

\* The client disconnects while root still awaits: the server drops the
\* future of root, the receiver with it, and nobody calls record_request.
Cancel ==
  /\ response = "waiting"
  /\ response' = "cancelled"
  /\ DropReceiver
  /\ UNCHANGED <<writerVars, received, trackingVars, rows>>

--------------------------------------------------------------------------------
\* Mutant: an Err is passed on without being noted.
Poll_KeepsStatus ==
  /\ response = "streaming"
  /\ PollItem
  /\ response' = IF Head(channel).err THEN "failed" ELSE response
  /\ UNCHANGED <<rows, status, finished, events>>

\* poll_next of the wrapper: pass a chunk on, or note an Err and pass it on.
Poll ==
  /\ response = "streaming"
  /\ PollItem
  /\ \/ /\ ~Head(channel).err
        /\ UNCHANGED <<response, status>>
     \/ /\ Head(channel).err
        /\ status' = 500
        /\ response' = "failed"
  /\ UNCHANGED <<rows, finished, events>>

\* poll_next yields None: the channel is drained and has no sender left.
PollNone(sendersGone) ==
  /\ response = "streaming"
  /\ channel = <<>> /\ sendersGone
  /\ response' = "complete"
  /\ FinishTracking
  /\ UNCHANGED <<writerVars, channelVars, status, rows>>

\* The server drops the body: after None, after an Err, or at any point before
\* because the client went away.
DropBody ==
  /\ response \in {"streaming", "complete", "failed"} /\ ~Closed
  /\ response' = IF response = "streaming" THEN "abandoned" ELSE response
  /\ DropReceiver
  /\ FinishTracking
  /\ UNCHANGED <<writerVars, received, status, rows>>

BodyGone == response \in {"rejected", "cancelled"}
              \/ (response # "waiting" /\ Closed)

--------------------------------------------------------------------------------
BodyTypeOK ==
  /\ WriterTypeOK
  /\ response \in Responses
  /\ rows \in Nat
  /\ status \in {200, 500}
  /\ finished \in BOOLEAN
  /\ events \in Seq(Event)

\* The body is one unbroken run of bytes from the first byte of the output:
\* what was polled, then what is queued, then the chunk waiting for a slot,
\* and the writer's buffer continues there.  Nothing is lost, sent twice or
\* overtaken between `write` and the client (chunk_writer.rs, write and flush).
BytesInOrder ==
  /\ Chain(received, 0)
  /\ ~Closed => /\ Chain(channel, Delivered)
                /\ Chain(outgoing, Queued)
                /\ shipped = End(outgoing, Queued)

\* A request whose future was not dropped is recorded exactly once, by root or
\* by the body, however polling None, an Err and dropping combine
\* (handlers.rs, finish_tracking and Drop).
RecordedOnce ==
  /\ Len(events) <= 1
  /\ BodyGone /\ response # "cancelled" => Len(events) = 1

\* The recorded status tells a finished transfer from a failed one, and the
\* recorded bytes are those the client was given (handlers.rs, poll_next).
EventMatchesBody ==
  \A i \in 1 .. Len(events) :
    /\ events[i].bytes = Delivered
    /\ response \in {"complete", "abandoned"} => events[i].status = 200
    /\ response \in {"failed", "rejected"} => events[i].status = 500
================================================================================
