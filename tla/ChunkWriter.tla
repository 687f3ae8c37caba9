------------------------------ MODULE ChunkWriter ------------------------------
(***************************************************************************)
(* The tail of every response: the buffering `ChunkWriter` of              *)
(* src/src/db/chunk_writer.rs and the bounded tokio channel it feeds.      *)
(*                                                                         *)
(* Bytes are abstracted to their position in the output: a chunk is the    *)
(* half-open range [from, to) of the positions it carries, so a lost, a    *)
(* repeated and a reordered chunk all show as a break in the chain of      *)
(* ranges.  An `Err` item carries no byte: it is the empty range at the    *)
(* point of the stream where it was queued.                                *)
(*                                                                         *)
(* The modules that own a writer (CsvStream, ParquetStream) EXTEND this    *)
(* one and use its operators inside their own actions.                     *)
(***************************************************************************)
EXTENDS Naturals, Sequences

CONSTANTS
  ChunkSize,        \* CHUNK_SIZE, the length at which the buffer is shipped
  ChannelCapacity   \* CHANNEL_CAPACITY, the items the channel may hold

ASSUME ChunkAssumption ==
  /\ ChunkSize \in Nat \ {0}
  /\ ChannelCapacity \in Nat \ {0}

VARIABLES
  shipped,    \* position of the first byte of the writer's `buffer`
  written,    \* position after its last byte: the bytes `write` has accepted
  outgoing,   \* <<chunk>> while `blocking_send` waits for a slot, else <<>>
  channel,    \* the items inside the mpsc channel, oldest first
  receiver,   \* "open" until the ReceiverStream is dropped
  received    \* the items the body has polled, oldest first

writerVars == <<shipped, written, outgoing>>
channelVars == <<channel, receiver, received>>
--------------------------------------------------------------------------------
Data(a, b) == [err |-> FALSE, from |-> a, to |-> b]

Item == [err : BOOLEAN, from : Nat, to : Nat]

\* The position reached by a run of items that follows position a.
End(s, a) == IF s = <<>> THEN a ELSE s[Len(s)].to

\* The position up to which bytes have been received, and queued.
Delivered == End(received, 0)
Queued == End(channel, Delivered)

Failure == [err |-> TRUE, from |-> Queued, to |-> Queued]

\* Nobody has to wait to send: blocking_send returns at once with a slot, and
\* fails at once without a receiver.
HasSlot == Len(channel) < ChannelCapacity
Closed == receiver = "dropped"

WriterInit ==
  /\ shipped = 0 /\ written = 0 /\ outgoing = <<>>
  /\ channel = <<>> /\ receiver = "open" /\ received = <<>>

--------------------------------------------------------------------------------
\* Mutant: the buffer is shipped but not taken (no mem::replace).
Write_KeepsBuffer(n) ==
  /\ outgoing = <<>>
  /\ written' = written + n
  /\ outgoing' = IF written' - shipped >= ChunkSize
                 THEN <<Data(shipped, written')>> ELSE <<>>
  /\ UNCHANGED shipped

\* Mutant: the buffer is shipped one byte too early.
Write_TooEarly(n) ==
  /\ outgoing = <<>>
  /\ written' = written + n
  /\ IF written' - shipped >= ChunkSize - 1
     THEN outgoing' = <<Data(shipped, written')>> /\ shipped' = written'
     ELSE UNCHANGED <<outgoing, shipped>>

\* `write` of n bytes: extend the buffer and, once it holds a chunk or more,
\* take all of it (mem::replace) and hand it to blocking_send.
Write(n) ==
  /\ outgoing = <<>>
  /\ written' = written + n
  /\ \/ /\ written' - shipped >= ChunkSize
        /\ outgoing' = <<Data(shipped, written')>>
        /\ shipped' = written'
     \/ /\ written' - shipped < ChunkSize
        /\ UNCHANGED <<outgoing, shipped>>

\* Mutant: the rest of the buffer is dropped.
Flush_Forgets ==
  /\ outgoing = <<>>
  /\ shipped' = written
  /\ UNCHANGED <<outgoing, written>>

\* `flush`: whatever is left in the buffer becomes the last chunk.
Flush ==
  /\ outgoing = <<>>
  /\ outgoing' = IF written > shipped THEN <<Data(shipped, written)>> ELSE <<>>
  /\ shipped' = written
  /\ UNCHANGED written

\* blocking_send obtains a slot of the channel.
ShipChunk ==
  /\ outgoing # <<>> /\ HasSlot /\ ~Closed
  /\ channel' = channel \o outgoing
  /\ outgoing' = <<>>
  /\ UNCHANGED <<shipped, written, receiver, received>>

\* blocking_send finds the receiver gone: the chunk is lost and the writer
\* returns BrokenPipe to its caller.
BrokenPipe ==
  /\ outgoing # <<>> /\ Closed
  /\ outgoing' = <<>>
  /\ UNCHANGED <<shipped, written, channelVars>>

\* Mutant: try_send, which gives up on a full channel.
SendFailure_GivesUp ==
  /\ channel' = IF HasSlot /\ ~Closed THEN Append(channel, Failure) ELSE channel
  /\ UNCHANGED <<writerVars, receiver, received>>

\* Mutant: try_send in a loop, until somebody takes the error.
SendFailure_Insists ==
  /\ ~Closed /\ HasSlot
  /\ channel' = Append(channel, Failure)
  /\ UNCHANGED <<writerVars, receiver, received>>

\* blocking_send(Err(..)) on another handle of the same channel, by a thread
\* that has no chunk of its own in flight; a send without receiver is ignored.
SendFailure ==
  /\ \/ /\ ~Closed /\ HasSlot
        /\ channel' = Append(channel, Failure)
     \/ /\ Closed
        /\ UNCHANGED channel
  /\ UNCHANGED <<writerVars, receiver, received>>

\* Dropping the receiver discards what the channel still holds.
DropReceiver ==
  /\ receiver' = "dropped"
  /\ channel' = <<>>

\* ReceiverStream::poll_next yields the oldest item.
PollItem ==
  /\ channel # <<>>
  /\ received' = Append(received, Head(channel))
  /\ channel' = Tail(channel)
  /\ UNCHANGED <<writerVars, receiver>>

--------------------------------------------------------------------------------
\* s is a run of ranges without gap or overlap, starting at position a.
Chain(s, a) ==
  \A i \in 1 .. Len(s) : s[i].from = (IF i = 1 THEN a ELSE s[i - 1].to)

WriterTypeOK ==
  /\ shipped \in Nat
  /\ written \in Nat
  /\ outgoing \in Seq(Item) /\ Len(outgoing) <= 1
  /\ channel \in Seq(Item)
  /\ receiver \in {"open", "dropped"}
  /\ received \in Seq(Item)
================================================================================
