--------------------------- MODULE ResponseBodyProofs ---------------------------
(***************************************************************************)
(* What the chunk writer, root and the response body preserve, whatever    *)
(* produces the stream.  First runs of chunks (Chain and End of            *)
(* ChunkWriter) and what each operation of the writer and the channel does *)
(* to them, then an inductive invariant of ResponseBody, with one lemma    *)
(* for each of its operations and one for a step of a producer.  The       *)
(* proofs about both pipelines rest on them.                               *)
(***************************************************************************)
EXTENDS ResponseBody, SequenceTheorems, TLAPS

(* The chunk writer.                                                       *)

\* The receiver is gone, or channel, waiting chunk and buffer continue what was
\* received, and a dropped channel holds nothing (chunk_writer.rs, write).
Positions ==
  /\ Chain(received, 0)
  /\ ~Closed => /\ Chain(channel, Delivered)
                /\ Chain(outgoing, Queued)
                /\ shipped = End(outgoing, Queued)
  /\ Closed => channel = <<>>
  /\ shipped <= written

\* Every item ends at or after its start and within what was written, and an
\* error takes no room (chunk_writer.rs, write and flush).
Forward(s) ==
  \A i \in 1 .. Len(s) : /\ s[i].from <= s[i].to /\ s[i].to <= written
                         /\ s[i].err => s[i].from = s[i].to

Bounded == Delivered <= written /\ Forward(channel) /\ Forward(outgoing)

--------------------------------------------------------------------------------
\* An item that starts where a run ends makes it a longer run, which ends where
\* the item ends (the channel's send and the body's poll).
LEMMA ChainAppend ==
  ASSUME NEW s \in Seq(Item), NEW a \in Nat, NEW x \in Item,
         Chain(s, a), x.from = End(s, a)
  PROVE  /\ Append(s, x) \in Seq(Item)
         /\ Chain(Append(s, x), a)
         /\ End(Append(s, x), a) = x.to
<1> DEFINE t == Append(s, x)
<1>1. /\ t \in Seq(Item)
      /\ Len(s) \in Nat /\ Len(t) = Len(s) + 1 /\ t # <<>>
      /\ t[Len(t)] = x
      /\ \A i \in 1 .. Len(s) : t[i] = s[i]
  BY AppendProperties, LenProperties
<1>2. \A i \in 1 .. Len(t) : t[i].from = (IF i = 1 THEN a ELSE t[i - 1].to)
  <2> TAKE i \in 1 .. Len(t)
  <2>1. CASE i <= Len(s)
    <3>1. i = 1 \/ i - 1 \in 1 .. Len(s)
      BY <2>1
    <3> QED BY <1>1, <2>1, <3>1 DEF Chain
  <2>2. CASE i = Len(s) + 1 /\ s = <<>>
    BY <1>1, <2>2 DEF End
  <2>3. CASE i = Len(s) + 1 /\ s # <<>>
    <3>1. i # 1 /\ i - 1 = Len(s) /\ Len(s) \in 1 .. Len(s)
      BY <2>3
    <3> QED BY <1>1, <2>3, <3>1 DEF End
  <2> QED BY <1>1, <2>1, <2>2, <2>3
<1> QED BY <1>1, <1>2 DEF Chain, End

\* Taking the first item off a run leaves a run from where that item ends, with
\* the same end (the body's poll).
LEMMA ChainTail ==
  ASSUME NEW s \in Seq(Item), NEW a \in Nat, s # <<>>, Chain(s, a)
  PROVE  /\ Head(s) \in Item /\ Tail(s) \in Seq(Item)
         /\ Head(s).from = a
         /\ Chain(Tail(s), Head(s).to)
         /\ End(Tail(s), Head(s).to) = End(s, a)
<1> DEFINE t == Tail(s)
<1>1. /\ Len(s) \in Nat \ {0} /\ s[1] = Head(s) /\ Head(s) \in Item
      /\ t \in Seq(Item) /\ Len(t) = Len(s) - 1
      /\ \A i \in 1 .. Len(t) : t[i] = s[i + 1]
  OBVIOUS
<1> HIDE DEF t
<1>2. Head(s).from = a
  <2>1. 1 \in 1 .. Len(s)
    BY <1>1
  <2> QED BY <1>1, <2>1 DEF Chain
<1>3. \A i \in 1 .. Len(t) : t[i].from = (IF i = 1 THEN Head(s).to ELSE t[i - 1].to)
  <2> TAKE i \in 1 .. Len(t)
  <2>1. i + 1 \in 1 .. Len(s) /\ i + 1 # 1 /\ i + 1 - 1 = i
    BY <1>1
  <2>2. t[i].from = s[i].to
    BY <1>1, <2>1 DEF Chain
  <2>3. i # 1 => i - 1 \in 1 .. Len(t) /\ i - 1 + 1 = i
    BY <1>1
  <2> QED BY <1>1, <2>2, <2>3
<1>4. End(t, Head(s).to) = End(s, a)
  <2>1. CASE Len(s) = 1
    <3>1. t = <<>>
      BY <1>1, <2>1
    <3> QED BY <1>1, <2>1, <3>1 DEF End
  <2>2. CASE Len(s) # 1
    <3>1. Len(t) \in 1 .. Len(t) /\ t # <<>>
      BY <1>1, <2>2
    <3>2. t[Len(t)] = s[Len(s)]
      BY <1>1, <3>1
    <3> QED BY <3>1, <3>2 DEF End
  <2> QED BY <2>1, <2>2
<1> QED BY <1>1, <1>2, <1>3, <1>4 DEF Chain, t

\* The end of a run is a position.
LEMMA EndIsNat ==
  ASSUME NEW s \in Seq(Item), NEW a \in Nat
  PROVE  End(s, a) \in Nat
<1>1. s # <<>> => s[Len(s)] \in Item
  OBVIOUS
<1> QED BY <1>1 DEF End, Item

\* A run of at most one item, and not of none, is a single item (the chunk that
\* blocking_send waits with).
LEMMA OneItem ==
  ASSUME NEW s \in Seq(Item), s # <<>>, Len(s) <= 1
  PROVE  Len(s) = 1 /\ s = <<s[1]>> /\ s[1] \in Item
<1> DEFINE n == Len(s)
<1>1. n \in Nat /\ n # 0 /\ n <= 1
  BY EmptySeq
<1> HIDE DEF n
<1>2. n = 1
  BY <1>1
<1>3. s = <<s[1]>> /\ s[1] \in Item
  BY <1>2 DEF n
<1> QED BY <1>2, <1>3 DEF n

\* One item that starts at a is a run from a.
LEMMA ChainOne ==
  ASSUME NEW a \in Nat, NEW b \in Nat
  PROVE  /\ <<Data(a, b)>> \in Seq(Item)
         /\ Len(<<Data(a, b)>>) = 1
         /\ Chain(<<Data(a, b)>>, a)
         /\ End(<<Data(a, b)>>, a) = b
BY DEF Chain, End, Data, Item

\* Positions reached are numbers (chunk_writer.rs).
LEMMA PositionsAreNat ==
  WriterTypeOK => Delivered \in Nat /\ Queued \in Nat
<1> SUFFICES ASSUME WriterTypeOK
             PROVE  Delivered \in Nat /\ Queued \in Nat
  OBVIOUS
<1>1. Delivered \in Nat
  BY EndIsNat, 0 \in Nat DEF WriterTypeOK, Delivered
<1>2. Queued \in Nat
  BY EndIsNat, <1>1 DEF WriterTypeOK, Queued
<1> QED BY <1>1, <1>2

--------------------------------------------------------------------------------
WriterInv == WriterTypeOK /\ Positions /\ Bounded

\* Nothing happens to the writer and the channel.
LEMMA StutterKeepsInv ==
  WriterInv /\ UNCHANGED <<writerVars, channelVars>> => WriterInv'
BY DEF WriterInv, WriterTypeOK, Positions, Bounded, Forward, writerVars, channelVars,
       Chain, End, Delivered, Queued, Closed

\* A write continues the buffer, and what it ships starts where the channel ends
\* (chunk_writer.rs, write).
LEMMA WriteKeepsInv ==
  ASSUME WriterInv, NEW n \in Nat, Write(n), UNCHANGED channelVars
  PROVE  WriterInv'
<1> USE DEF WriterInv
<1>1. /\ shipped \in Nat /\ written \in Nat /\ written' \in Nat
      /\ Queued' = Queued /\ Delivered' = Delivered /\ Closed' = Closed
      /\ channel' = channel /\ received' = received
      /\ shipped <= written /\ written <= written'
  BY DEF WriterTypeOK, Positions, Write, channelVars, Queued, Delivered, End, Closed
<1>2. ~Closed => shipped = Queued
  BY DEF Positions, Write, End
<1>3. (Delivered <= written)' /\ Forward(channel)'
  <2>1. Delivered \in Nat /\ channel \in Seq(Item)
    BY PositionsAreNat DEF WriterTypeOK
  <2>2. \A i \in 1 .. Len(channel) : channel[i] \in Item
    BY <2>1
  <2> QED BY <1>1, <2>1, <2>2 DEF Bounded, Forward, Item
<1>4. CASE outgoing' = <<Data(shipped, written')>> /\ shipped' = written'
  <2>1. /\ outgoing' \in Seq(Item) /\ Len(outgoing') = 1
        /\ Chain(outgoing', shipped) /\ End(outgoing', shipped) = shipped'
    BY <1>1, <1>4, ChainOne
  <2>2. WriterTypeOK'
    BY <1>1, <1>4, <2>1 DEF WriterTypeOK, channelVars
  <2>3. Positions'
    BY <1>1, <1>2, <1>4, <2>1 DEF Positions, Chain
  <2>4. Forward(outgoing)'
    BY <1>1, <1>4, <2>1 DEF Forward, Data
  <2> QED BY <1>3, <2>2, <2>3, <2>4 DEF Bounded
<1>5. CASE UNCHANGED <<outgoing, shipped>>
  <2>1. outgoing = <<>> /\ outgoing' = <<>>
    BY <1>5 DEF Write
  <2>2. WriterTypeOK'
    BY <1>1, <1>5 DEF WriterTypeOK, channelVars
  <2>3. Positions'
    BY <1>1, <1>5, <2>1 DEF Positions, Chain, End
  <2>4. Forward(outgoing)'
    BY <2>1 DEF Forward
  <2> QED BY <1>3, <2>2, <2>3, <2>4 DEF Bounded
<1> QED BY <1>4, <1>5 DEF Write

\* A flush ships what the buffer holds (chunk_writer.rs, flush).
LEMMA FlushKeepsInv ==
  ASSUME WriterInv, Flush, UNCHANGED channelVars
  PROVE  WriterInv'
<1> USE DEF WriterInv
<1>1. /\ shipped \in Nat /\ written \in Nat /\ written' = written /\ shipped' = written
      /\ Queued' = Queued /\ Delivered' = Delivered /\ Closed' = Closed
      /\ channel' = channel /\ received' = received
  BY DEF WriterTypeOK, Flush, channelVars, Queued, Delivered, End, Closed
<1>2. ~Closed => shipped = Queued
  BY DEF Positions, Flush, End
<1>3. CASE written > shipped
  <2>1. /\ outgoing' \in Seq(Item) /\ Len(outgoing') = 1
        /\ Chain(outgoing', shipped) /\ End(outgoing', shipped) = shipped'
    BY <1>1, <1>3, ChainOne DEF Flush
  <2>2. WriterTypeOK'
    BY <1>1, <1>3, <2>1 DEF WriterTypeOK, channelVars
  <2>3. Positions'
    BY <1>1, <1>2, <2>1 DEF Positions, Chain
  <2>4. Forward(outgoing)'
    BY <1>1, <1>3, <2>1 DEF Forward, Data, Flush
  <2> QED BY <1>1, <2>2, <2>3, <2>4 DEF Bounded, Forward
<1>4. CASE ~(written > shipped)
  <2>1. outgoing' = <<>>
    BY <1>4 DEF Flush
  <2>2. shipped = written
    BY <1>1, <1>4 DEF Positions
  <2> QED BY <1>1, <1>2, <2>1, <2>2 DEF WriterTypeOK, Positions, Bounded, Forward, Chain, End, channelVars
<1> QED BY <1>3, <1>4

\* The channel takes the waiting chunk (blocking_send with a free slot).
LEMMA ShipKeepsInv ==
  ASSUME WriterInv, ShipChunk
  PROVE  WriterInv'
<1> USE DEF WriterInv
<1> DEFINE x == outgoing[1]
<1>1. /\ outgoing \in Seq(Item) /\ Len(outgoing) = 1 /\ x \in Item
      /\ outgoing = <<x>> /\ outgoing # <<>>
  <2>1. outgoing \in Seq(Item) /\ outgoing # <<>> /\ Len(outgoing) <= 1
    BY DEF WriterTypeOK, ShipChunk
  <2> QED BY <2>1, OneItem
<1>2. /\ channel \in Seq(Item) /\ Delivered \in Nat /\ Queued \in Nat
      /\ Delivered' = Delivered /\ ~Closed /\ Closed' = Closed
  BY PositionsAreNat DEF WriterTypeOK, ShipChunk, Delivered, End, Closed
<1>3. channel' = Append(channel, x)
  BY <1>1, <1>2, AppendIsConcat DEF ShipChunk
<1>4. /\ Chain(channel, Delivered) /\ x.from = Queued /\ shipped = x.to
  BY <1>1, <1>2 DEF Positions, Chain, End
<1>5. /\ channel' \in Seq(Item)
      /\ Chain(channel', Delivered) /\ End(channel', Delivered) = x.to
  BY <1>1, <1>2, <1>3, <1>4, ChainAppend DEF Queued
<1>6. outgoing' = <<>> /\ UNCHANGED <<shipped, written, receiver, received>>
  BY DEF ShipChunk
<1>7. WriterTypeOK'
  BY <1>5, <1>6 DEF WriterTypeOK
<1>8. Queued' = x.to
  BY <1>2, <1>5 DEF Queued
<1>9. Positions'
  BY <1>2, <1>4, <1>5, <1>6, <1>8 DEF Positions, Chain, End
<1>10. Bounded'
  <2>1. /\ Len(channel') = Len(channel) + 1 /\ channel'[Len(channel) + 1] = x
        /\ \A i \in 1 .. Len(channel) : channel'[i] = channel[i]
    BY <1>1, <1>2, <1>3, AppendProperties
  <2>2. /\ x.from <= x.to /\ x.to <= written /\ (x.err => x.from = x.to)
    BY <1>1 DEF Bounded, Forward
  <2>3. Forward(channel)'
    BY <1>2, <1>6, <2>1, <2>2 DEF Bounded, Forward
  <2> QED BY <1>2, <1>6, <2>3 DEF Bounded, Forward
<1> QED BY <1>7, <1>9, <1>10

\* The waiting chunk is lost with the receiver (blocking_send without receiver).
LEMMA BrokenPipeKeepsInv ==
  ASSUME WriterInv, BrokenPipe
  PROVE  WriterInv'
BY DEF WriterInv, WriterTypeOK, Positions, Bounded, Forward, BrokenPipe, channelVars,
       Chain, Delivered, End, Closed

\* Nothing is queued that was not written.
LEMMA QueuedIsWritten ==
  WriterTypeOK /\ Bounded => Queued <= written
<1> SUFFICES ASSUME WriterTypeOK, Bounded, channel # <<>>
             PROVE  channel[Len(channel)].to <= written
  BY DEF Queued, End, Bounded
<1>1. Len(channel) \in 1 .. Len(channel)
  BY EmptySeq DEF WriterTypeOK
<1> QED BY <1>1 DEF Bounded, Forward

\* An error is queued at the point the stream has reached (blocking_send of Err).
LEMMA SendFailureKeepsInv ==
  ASSUME WriterInv, SendFailure
  PROVE  WriterInv'
<1> USE DEF WriterInv
<1>1. CASE Closed /\ UNCHANGED channel
  BY <1>1, StutterKeepsInv DEF SendFailure, writerVars, channelVars
<1>2. CASE ~Closed /\ channel' = Append(channel, Failure)
  <2>1. /\ channel \in Seq(Item) /\ Delivered \in Nat /\ Queued \in Nat
        /\ UNCHANGED <<shipped, written, outgoing, receiver, received>>
        /\ Delivered' = Delivered /\ Closed' = Closed
    BY PositionsAreNat DEF WriterTypeOK, SendFailure, writerVars, Delivered, End, Closed
  <2>2. Failure \in Item /\ Failure.from = Queued /\ Failure.to = Queued
    BY <2>1 DEF Failure, Item
  <2>3. /\ channel' \in Seq(Item)
        /\ Chain(channel', Delivered) /\ End(channel', Delivered) = Queued
    BY <1>2, <2>1, <2>2, ChainAppend DEF Positions, Queued
  <2>4. Queued' = Queued
    BY <2>1, <2>3 DEF Queued
  <2>5. WriterTypeOK'
    BY <2>1, <2>3 DEF WriterTypeOK
  <2>6. Positions'
    BY <1>2, <2>1, <2>3, <2>4 DEF Positions, Chain, End
  <2>7. Bounded'
    <3>1. /\ Len(channel') = Len(channel) + 1 /\ channel'[Len(channel) + 1] = Failure
          /\ \A i \in 1 .. Len(channel) : channel'[i] = channel[i]
      BY <1>2, <2>1, <2>2, AppendProperties
    <3>2. Queued <= written
      BY QueuedIsWritten
    <3>3. Forward(channel)'
      BY <2>1, <2>2, <3>1, <3>2 DEF Bounded, Forward
    <3> QED BY <2>1, <3>3 DEF Bounded, Forward
  <2> QED BY <2>5, <2>6, <2>7
<1> QED BY <1>1, <1>2 DEF SendFailure

\* The receiver goes, and what the channel held with it.
LEMMA DropKeepsInv ==
  ASSUME WriterInv, DropReceiver, UNCHANGED <<writerVars, received>>
  PROVE  WriterInv'
BY DEF WriterInv, WriterTypeOK, Positions, Bounded, Forward, DropReceiver, writerVars,
       Chain, Delivered, End, Closed

\* The body takes the oldest item, which continues what it took before
\* (ReceiverStream::poll_next).
LEMMA PollKeepsInv ==
  ASSUME WriterInv, PollItem
  PROVE  /\ WriterInv'
         /\ Head(channel) \in Item
         /\ Delivered' = Head(channel).to /\ Queued' = Queued
         /\ Delivered <= Delivered' /\ Delivered' <= written
         /\ Head(channel).err => Delivered' = Delivered
<1> USE DEF WriterInv
<1> DEFINE x == Head(channel)
<1>1. /\ channel \in Seq(Item) /\ channel # <<>> /\ ~Closed /\ Closed' = Closed
      /\ received \in Seq(Item) /\ Delivered \in Nat
      /\ Chain(channel, Delivered) /\ Chain(received, 0)
      /\ received' = Append(received, x) /\ channel' = Tail(channel)
      /\ UNCHANGED <<shipped, written, outgoing, receiver>>
  BY PositionsAreNat DEF WriterTypeOK, Positions, PollItem, writerVars, Closed
<1>2. /\ x \in Item /\ channel' \in Seq(Item)
      /\ x.from = Delivered
      /\ Chain(channel', x.to) /\ End(channel', x.to) = Queued
  BY <1>1, ChainTail DEF Queued
<1>3. /\ received' \in Seq(Item) /\ Chain(received', 0) /\ End(received', 0) = x.to
  BY <1>1, <1>2, ChainAppend DEF Delivered
<1>4. Delivered' = x.to /\ Queued' = Queued
  BY <1>2, <1>3 DEF Delivered, Queued
<1>5. WriterTypeOK'
  BY <1>1, <1>2, <1>3 DEF WriterTypeOK
<1>6. Positions'
  BY <1>1, <1>2, <1>3, <1>4 DEF Positions, Chain, End
<1>7. /\ Len(channel') = Len(channel) - 1 /\ Len(channel) \in Nat \ {0}
      /\ channel[1] = x
      /\ \A i \in 1 .. Len(channel') : channel'[i] = channel[i + 1]
  BY <1>1, HeadTailProperties, EmptySeq
<1>8. x.from <= x.to /\ x.to <= written /\ (x.err => x.from = x.to)
  BY <1>7 DEF Bounded, Forward
<1>9. Forward(channel)'
  <2> SUFFICES ASSUME NEW i \in 1 .. Len(channel')
               PROVE  /\ channel'[i].from <= channel'[i].to /\ channel'[i].to <= written'
                      /\ channel'[i].err => channel'[i].from = channel'[i].to
    BY DEF Forward
  <2>1. i + 1 \in 1 .. Len(channel) /\ channel'[i] = channel[i + 1]
    BY <1>7
  <2> QED BY <1>1, <2>1 DEF Bounded, Forward
<1>10. Bounded'
  BY <1>1, <1>4, <1>8, <1>9 DEF Bounded, Forward
<1> QED BY <1>2, <1>4, <1>5, <1>6, <1>8, <1>10

--------------------------------------------------------------------------------
(* The body.                                                               *)

\* How the request, the receiver, the wrapper and its report hang together.
Handler ==
  /\ response \in {"waiting", "streaming"} => ~Closed
  /\ response = "waiting" => received = <<>>
  /\ finished => response \in {"complete", "failed", "abandoned"}
  /\ response \in {"complete", "abandoned"} => finished
  /\ response = "failed" /\ Closed => finished
  /\ response \in {"waiting", "streaming", "complete", "abandoned"} => status = 200
  /\ response = "failed" => status = 500

\* There is a report exactly when one is due, and it tells what happened.
Reported ==
  /\ finished \/ response = "rejected" => Len(events) = 1
  /\ ~finished /\ response # "rejected" => events = <<>>
  /\ \A i \in 1 .. Len(events) :
       /\ events[i].bytes = Delivered
       /\ events[i].status = IF response = "rejected" THEN 500 ELSE status

BodyInv == BodyTypeOK /\ WriterInv /\ Handler /\ Reported

--------------------------------------------------------------------------------
\* The invariant holds before the request is served.
LEMMA BodyInitInv == BodyInit => BodyInv
<1> SUFFICES ASSUME BodyInit PROVE BodyInv
  OBVIOUS
<1> USE DEF BodyInit, WriterInit
<1>1. BodyTypeOK
  <2>1. WriterTypeOK
    BY DEF WriterTypeOK
  <2>2. events \in Seq(Event)
    OBVIOUS
  <2>3. finished \in BOOLEAN
    OBVIOUS
  <2> QED BY <2>1, <2>2, <2>3 DEF BodyTypeOK, Responses
<1>2. Positions /\ Bounded
  BY DEF Positions, Bounded, Forward, Chain, End, Delivered, Queued, Closed
<1>3. Handler /\ Reported
  BY DEF Handler, Reported, Closed
<1> QED BY <1>1, <1>2, <1>3 DEF BodyInv, BodyTypeOK, WriterInv

\* The report of finish_tracking, when there is none yet (handlers.rs,
\* finish_tracking).
LEMMA RecordOnEmpty ==
  ASSUME NEW code \in {200, 500}, NEW bytes \in Nat, NEW count \in Nat,
         events = <<>>, Record(code, bytes, count)
  PROVE  /\ events' \in Seq(Event) /\ Len(events') = 1
         /\ events'[1] = [status |-> code, bytes |-> bytes, rows |-> count]
BY DEF Record, Event

\* A step of a producer leaves the request, the receiver and the report alone.
LEMMA ProducerKeepsInv ==
  ASSUME BodyInv, WriterInv', UNCHANGED <<bodyVars, receiver, received>>, rows' \in Nat
  PROVE  BodyInv'
<1> USE DEF BodyInv
<1>1. /\ Closed' = Closed /\ Delivered' = Delivered
      /\ UNCHANGED <<response, status, finished, events>>
  BY DEF bodyVars, trackingVars, Closed, Delivered, End
<1>2. BodyTypeOK'
  BY <1>1 DEF BodyTypeOK, WriterInv
<1>3. Handler' /\ Reported'
  BY <1>1 DEF Handler, Reported
<1> QED BY <1>2, <1>3 DEF WriterInv

\* root returns the stream (handlers.rs, root).
LEMMA AcceptKeepsInv ==
  ASSUME BodyInv, Accept
  PROVE  BodyInv'
<1> USE DEF BodyInv
<1>1. WriterInv'
  BY StutterKeepsInv DEF WriterInv, BodyTypeOK, Accept
<1>2. /\ Closed' = Closed /\ Delivered' = Delivered
      /\ UNCHANGED <<rows, status, finished, events>>
      /\ response = "waiting" /\ response' = "streaming"
  BY DEF Accept, trackingVars, channelVars, Closed, Delivered, End
<1>3. BodyTypeOK'
  BY <1>1, <1>2 DEF BodyTypeOK, WriterInv, Responses
<1>4. Handler' /\ Reported'
  BY <1>2 DEF Handler, Reported
<1> QED BY <1>1, <1>3, <1>4 DEF WriterInv

\* root returns an error and reports it (handlers.rs, root).
LEMMA RejectKeepsInv ==
  ASSUME BodyInv, Reject
  PROVE  BodyInv'
<1> USE DEF BodyInv
<1>1. WriterInv'
  BY DropKeepsInv DEF WriterInv, BodyTypeOK, Reject
<1>2. /\ Closed' /\ Delivered' = Delivered /\ Delivered = 0
      /\ UNCHANGED <<rows, status, finished>>
      /\ response = "waiting" /\ response' = "rejected"
      /\ ~finished /\ events = <<>>
  BY DEF Reject, DropReceiver, Closed, Delivered, End, Handler, Reported
<1>3. /\ events' \in Seq(Event) /\ Len(events') = 1
      /\ events'[1] = [status |-> 500, bytes |-> 0, rows |-> 0]
  BY <1>2, RecordOnEmpty DEF Reject
<1>4. BodyTypeOK'
  BY <1>1, <1>2, <1>3 DEF BodyTypeOK, WriterInv, Responses
<1>5. Handler' /\ Reported'
  BY <1>2, <1>3 DEF Handler, Reported
<1> QED BY <1>1, <1>4, <1>5 DEF WriterInv

\* The future of root is dropped (handlers.rs, root, while it awaits).
LEMMA CancelKeepsInv ==
  ASSUME BodyInv, Cancel
  PROVE  BodyInv'
<1> USE DEF BodyInv
<1>1. WriterInv'
  BY DropKeepsInv DEF WriterInv, BodyTypeOK, Cancel
<1>2. /\ Closed'
      /\ UNCHANGED <<rows, status, finished, events>>
      /\ response = "waiting" /\ response' = "cancelled"
      /\ ~finished /\ events = <<>>
  BY DEF Cancel, DropReceiver, trackingVars, Closed, Handler, Reported
<1>3. BodyTypeOK'
  BY <1>1, <1>2 DEF BodyTypeOK, WriterInv, Responses
<1>4. Handler' /\ Reported'
  BY <1>2 DEF Handler, Reported
<1> QED BY <1>1, <1>3, <1>4 DEF WriterInv

\* The body passes an item on (handlers.rs, poll_next).
LEMMA PollBodyKeepsInv ==
  ASSUME BodyInv, Poll
  PROVE  /\ BodyInv'
         /\ Head(channel) \in Item /\ Delivered' = Head(channel).to
         /\ Delivered <= Delivered' /\ Delivered' <= written
         /\ Head(channel).err => Delivered' = Delivered
<1> USE DEF BodyInv
<1>1. /\ WriterInv' /\ Head(channel) \in Item
      /\ Delivered' = Head(channel).to
      /\ Delivered <= Delivered' /\ Delivered' <= written
      /\ Head(channel).err => Delivered' = Delivered
  BY PollKeepsInv DEF WriterInv, BodyTypeOK, Poll
<1>2. /\ Closed' = Closed /\ UNCHANGED <<rows, finished, events>>
      /\ response = "streaming" /\ ~finished /\ events = <<>> /\ status = 200
      /\ \/ response' = "streaming" /\ status' = 200
         \/ response' = "failed" /\ status' = 500
      /\ ~Closed
  BY DEF Poll, PollItem, Closed, Handler, Reported
<1>3. BodyTypeOK'
  BY <1>1, <1>2 DEF BodyTypeOK, WriterInv, Responses
<1>4. Handler' /\ Reported'
  BY <1>2 DEF Handler, Reported
<1> QED BY <1>1, <1>3, <1>4 DEF WriterInv

\* The body polls None and reports (handlers.rs, poll_next).
LEMMA PollNoneKeepsInv ==
  ASSUME BodyInv, NEW gone \in BOOLEAN, PollNone(gone)
  PROVE  /\ BodyInv'
         /\ Len(events') = 1 /\ events'[1].rows = rows
<1> USE DEF BodyInv
<1>1. WriterInv'
  BY StutterKeepsInv DEF WriterInv, BodyTypeOK, PollNone
<1>2. /\ Closed' = Closed /\ Delivered' = Delivered /\ Delivered \in Nat
      /\ UNCHANGED <<rows, status>>
      /\ response = "streaming" /\ response' = "complete"
      /\ ~finished /\ finished' /\ events = <<>> /\ status = 200
      /\ Record(status, Delivered, rows)
  BY PositionsAreNat
     DEF PollNone, FinishTracking, channelVars, Closed, Delivered, End, Handler,
         Reported, BodyTypeOK
<1>3. /\ events' \in Seq(Event) /\ Len(events') = 1
      /\ events'[1] = [status |-> status, bytes |-> Delivered, rows |-> rows]
  BY <1>2, RecordOnEmpty DEF BodyTypeOK
<1>4. BodyTypeOK'
  BY <1>1, <1>2, <1>3 DEF BodyTypeOK, WriterInv, Responses, PollNone
<1>5. Handler' /\ Reported'
  BY <1>2, <1>3 DEF Handler, Reported
<1> QED BY <1>1, <1>3, <1>4, <1>5 DEF WriterInv

\* The body is dropped and reports unless it has (handlers.rs, drop).
LEMMA DropBodyKeepsInv ==
  ASSUME BodyInv, DropBody
  PROVE  BodyInv'
<1> USE DEF BodyInv
<1>1. WriterInv'
  BY DropKeepsInv DEF WriterInv, BodyTypeOK, DropBody
<1>2. /\ Closed' /\ Delivered' = Delivered /\ Delivered \in Nat
      /\ UNCHANGED <<rows, status>>
      /\ response \in {"streaming", "complete", "failed"}
      /\ response' = IF response = "streaming" THEN "abandoned" ELSE response
      /\ response' \in Responses
  BY PositionsAreNat
     DEF DropBody, DropReceiver, Closed, Delivered, End, BodyTypeOK, Responses
<1>3. CASE finished
  <2>1. UNCHANGED <<finished, events>> /\ response' = response
    BY <1>2, <1>3 DEF DropBody, FinishTracking, Handler
  <2>2. BodyTypeOK'
    BY <1>1, <1>2, <2>1 DEF BodyTypeOK, WriterInv
  <2>3. Handler' /\ Reported'
    BY <1>2, <1>3, <2>1 DEF Handler, Reported
  <2> QED BY <1>1, <2>2, <2>3 DEF WriterInv
<1>4. CASE ~finished
  <2>1. /\ events = <<>> /\ finished' = TRUE
        /\ Record(status, Delivered, rows)
        /\ response \in {"streaming", "failed"}
    BY <1>2, <1>4 DEF DropBody, FinishTracking, Handler, Reported
  <2>2. /\ events' \in Seq(Event) /\ Len(events') = 1
        /\ events'[1] = [status |-> status, bytes |-> Delivered, rows |-> rows]
    BY <1>2, <2>1, RecordOnEmpty DEF BodyTypeOK
  <2>3. BodyTypeOK'
    BY <1>1, <1>2, <2>1, <2>2 DEF BodyTypeOK, WriterInv
  <2>4. Handler' /\ Reported'
    BY <1>2, <2>1, <2>2 DEF Handler, Reported
  <2> QED BY <1>1, <2>3, <2>4 DEF WriterInv
<1> QED BY <1>3, <1>4 DEF BodyInv, BodyTypeOK

--------------------------------------------------------------------------------
\* The invariant gives the properties of ResponseBody.
LEMMA BodyInvImplies ==
  BodyInv => BodyTypeOK /\ BytesInOrder /\ RecordedOnce /\ EventMatchesBody
<1> SUFFICES ASSUME BodyInv
             PROVE  BodyTypeOK /\ BytesInOrder /\ RecordedOnce /\ EventMatchesBody
  OBVIOUS
<1> USE DEF BodyInv
<1>1. BytesInOrder
  BY DEF WriterInv, Positions, BytesInOrder
<1>2. RecordedOnce
  BY DEF RecordedOnce, BodyGone, Handler, Reported, BodyTypeOK, Responses
<1>3. EventMatchesBody
  BY DEF EventMatchesBody, Handler, Reported
<1> QED BY <1>1, <1>2, <1>3
================================================================================
