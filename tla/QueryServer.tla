------------------------------ MODULE QueryServer ------------------------------
(***************************************************************************)
(* The server under several requests at once: `root` and the response body *)
(* (src/src/handlers.rs), the round-robin pool (src/src/db/pool.rs) and    *)
(* the connection threads behind it, each of which runs the closures it is *)
(* sent one after the other, with the request counters of ServerMetrics.   *)
(*                                                                         *)
(* A stream is abstracted to the number of items still to be produced and  *)
(* the number waiting in its channel; what is inside them is the subject   *)
(* of CsvStream and ParquetStream.                                         *)
(***************************************************************************)
EXTENDS Integers, Sequences, FiniteSets, SequencesExt

CONSTANTS
  Requests,          \* the requests clients may send
  Stalled,           \* those whose client stays connected but may stop reading
  PoolSize,          \* connections in the pool
  IndexRange,        \* 2^64 in the code: next_index wraps around
  ChannelCapacity,   \* CHANNEL_CAPACITY
  MaxItems           \* bound: items a result may take

ASSUME ServerAssumption ==
  /\ Stalled \subseteq Requests
  /\ PoolSize \in Nat \ {0} /\ IndexRange \in Nat \ {0}
  /\ ChannelCapacity \in Nat \ {0} /\ MaxItems \in Nat

Connections == 0 .. PoolSize - 1
NoConnection == -1

VARIABLES
  phase,        \* where each request stands, see Phases
  connection,   \* the connection root took for it
  nextIndex,    \* the pool's next_index
  calls,        \* per connection: the closures sent to its thread, oldest first
  dead,         \* the connections whose thread has died in a panic
  job,          \* the closure: "none", "spawned", "called", "running", "done"
  oneshot,      \* "empty", "ok", or "error", which may be a sender that is gone
  left,         \* items the query has yet to produce
  items,        \* items in the chunk channel
  broken,       \* the last item sent is an Err
  total,        \* total_requests
  active,       \* active_requests
  successful,   \* successful_requests
  failed,       \* failed_requests
  recorded      \* the status given to record_request, 0 before

poolVars == <<connection, nextIndex>>
jobVars == <<calls, dead, job, oneshot, left>>
streamVars == <<items, broken>>
counters == <<total, active, successful, failed, recorded>>
vars == <<phase, poolVars, jobVars, streamVars, counters>>

\* new        not sent yet                       refused    400, bad parameters
\* waiting    root awaits the oneshot            rejected   400, bad query
\* streaming  the body is being sent             cancelled  root was dropped
\* complete, failed, abandoned  as in ResponseBody
Phases == {"new", "refused", "waiting", "rejected", "cancelled", "streaming",
           "complete", "failed", "abandoned"}

Init ==
  /\ phase = [r \in Requests |-> "new"]
  /\ connection = [r \in Requests |-> NoConnection] /\ nextIndex = 0
  /\ calls = [c \in Connections |-> <<>>]
  /\ dead = {}
  /\ job = [r \in Requests |-> "none"]
  /\ oneshot = [r \in Requests |-> "empty"]
  /\ left = [r \in Requests |-> 0]
  /\ items = [r \in Requests |-> 0]
  /\ broken = [r \in Requests |-> FALSE]
  /\ total = 0 /\ active = 0 /\ successful = 0 /\ failed = 0
  /\ recorded = [r \in Requests |-> 0]

--------------------------------------------------------------------------------
(* root, and the body it returns.                                          *)

\* request_started and record_request in one go.
RecordAtOnce(r, status) ==
  /\ total' = total + 1
  /\ failed' = failed + 1
  /\ recorded' = [recorded EXCEPT ![r] = status]
  /\ UNCHANGED <<active, successful>>

\* record_request of a request that request_started has counted.
Record(r, status) ==
  /\ active' = active - 1
  /\ \/ status < 400 /\ successful' = successful + 1 /\ UNCHANGED failed
     \/ status >= 400 /\ failed' = failed + 1 /\ UNCHANGED successful
  /\ recorded' = [recorded EXCEPT ![r] = status]
  /\ UNCHANGED total

\* No query, or a format that is not supported.
Refuse(r) ==
  /\ phase[r] = "new"
  /\ phase' = [phase EXCEPT ![r] = "refused"]
  /\ RecordAtOnce(r, 400)
  /\ UNCHANGED <<poolVars, jobVars, streamVars>>

\* root up to its await: take the next connection, spawn the task that calls it.
Dispatch(r) ==
  /\ phase[r] = "new"
  /\ phase' = [phase EXCEPT ![r] = "waiting"]
  /\ total' = total + 1 /\ active' = active + 1
  /\ connection' = [connection EXCEPT ![r] = nextIndex % PoolSize]
  /\ nextIndex' = (nextIndex + 1) % IndexRange
  /\ job' = [job EXCEPT ![r] = "spawned"]
  /\ UNCHANGED <<calls, dead, oneshot, left, streamVars, successful, failed, recorded>>

\* The oneshot brings Ok: the response starts.
Accept(r) ==
  /\ phase[r] = "waiting" /\ oneshot[r] = "ok"
  /\ phase' = [phase EXCEPT ![r] = "streaming"]
  /\ oneshot' = [oneshot EXCEPT ![r] = "empty"]
  /\ UNCHANGED <<poolVars, calls, dead, job, left, streamVars, counters>>

\* The oneshot brings an error: recorded as 500, and answered with the 400 of the
\* BadRequest that query_as_*_stream makes of it.
Reject(r) ==
  /\ phase[r] = "waiting" /\ oneshot[r] = "error"
  /\ phase' = [phase EXCEPT ![r] = "rejected"]
  /\ oneshot' = [oneshot EXCEPT ![r] = "empty"]
  /\ Record(r, 500)
  /\ UNCHANGED <<poolVars, calls, dead, job, left, streamVars>>

\* The channel goes with its receiver.
DropReceiver(r) ==
  /\ items' = [items EXCEPT ![r] = 0]
  /\ broken' = [broken EXCEPT ![r] = FALSE]

\* The client disconnects while root awaits; the spawned task goes on.
Cancel(r) ==
  /\ phase[r] = "waiting"
  /\ phase' = [phase EXCEPT ![r] = "cancelled"]
  /\ oneshot' = [oneshot EXCEPT ![r] = "empty"]
  /\ DropReceiver(r)
  /\ UNCHANGED <<poolVars, calls, dead, job, left, counters>>

\* The body yields an item; an Err makes the server drop it.
PollItem(r) ==
  /\ phase[r] = "streaming" /\ items[r] > 0
  /\ \/ /\ items[r] = 1 /\ broken[r]
        /\ phase' = [phase EXCEPT ![r] = "failed"]
        /\ DropReceiver(r)
        /\ Record(r, 500)
     \/ /\ items[r] > 1 \/ ~broken[r]
        /\ items' = [items EXCEPT ![r] = @ - 1]
        /\ UNCHANGED <<phase, broken, counters>>
  /\ UNCHANGED <<poolVars, jobVars>>

PollNone(r) ==
  /\ phase[r] = "streaming" /\ items[r] = 0 /\ job[r] = "done"
  /\ phase' = [phase EXCEPT ![r] = "complete"]
  /\ Record(r, 200)
  /\ UNCHANGED <<poolVars, jobVars, streamVars>>

\* Mutant: a body that is dropped before its end is not reported.
Abandon_Unrecorded(r) ==
  /\ phase[r] = "streaming"
  /\ phase' = [phase EXCEPT ![r] = "abandoned"]
  /\ DropReceiver(r)
  /\ UNCHANGED <<poolVars, jobVars, counters>>

\* The client disconnects while the body is being sent.
Abandon(r) ==
  /\ phase[r] = "streaming"
  /\ phase' = [phase EXCEPT ![r] = "abandoned"]
  /\ DropReceiver(r)
  /\ Record(r, 200)
  /\ UNCHANGED <<poolVars, jobVars>>

--------------------------------------------------------------------------------
(* The spawned task and the connection's thread.                           *)

Listening(r) == phase[r] \in {"waiting", "streaming"}

\* Sending on a oneshot whose receiver is gone does nothing.
Answer(rs, answer) ==
  oneshot' = [r \in Requests |-> IF r \in rs /\ phase[r] = "waiting" THEN answer ELSE oneshot[r]]

\* Mutant: every closure goes to the first connection.
ThreadOf_First(r) == 0

\* The connection whose thread is to run the closure.
ThreadOf(r) == connection[r]

\* Mutant: the task keeps the sender of the oneshot, so that a closure nobody
\* takes leaves root without an answer.
Call_KeepsSender(r) ==
  /\ job[r] = "spawned"
  /\ \/ /\ ThreadOf(r) \notin dead
        /\ job' = [job EXCEPT ![r] = "called"]
        /\ calls' = [calls EXCEPT ![ThreadOf(r)] = Append(@, r)]
     \/ /\ ThreadOf(r) \in dead
        /\ job' = [job EXCEPT ![r] = "done"]
        /\ UNCHANGED calls
  /\ UNCHANGED <<phase, poolVars, dead, oneshot, left, streamVars, counters>>

\* The spawned task sends its closure to the thread of the connection, where it
\* queues. Nobody takes it if the thread has died: it is dropped.
Call(r) ==
  /\ job[r] = "spawned"
  /\ \/ /\ ThreadOf(r) \notin dead
        /\ job' = [job EXCEPT ![r] = "called"]
        /\ calls' = [calls EXCEPT ![ThreadOf(r)] = Append(@, r)]
        /\ UNCHANGED oneshot
     \/ /\ ThreadOf(r) \in dead
        /\ job' = [job EXCEPT ![r] = "done"]
        /\ Answer({r}, "error")
        /\ UNCHANGED calls
  /\ UNCHANGED <<phase, poolVars, dead, left, streamVars, counters>>

\* The closure at the head of the queue is the one the thread runs.
HeadCall(c, r) == calls[c] # <<>> /\ Head(calls[c]) = r

\* The closure returns and the thread turns to the next one.
Leave(c, r) ==
  /\ calls' = [calls EXCEPT ![c] = Tail(@)]
  /\ job' = [job EXCEPT ![r] = "done"]
  /\ left' = [left EXCEPT ![r] = 0]

Prepare(c, r) ==
  /\ HeadCall(c, r) /\ job[r] = "called"
  /\ \/ /\ Answer({r}, "ok")
        /\ \E n \in 0 .. MaxItems : left' = [left EXCEPT ![r] = n]
        /\ job' = [job EXCEPT ![r] = "running"]
        /\ UNCHANGED calls
     \/ /\ Answer({r}, "error")
        /\ Leave(c, r)
  /\ UNCHANGED <<phase, poolVars, dead, streamVars, counters>>

\* blocking_send: the thread waits here while the channel is full.
Produce(c, r) ==
  /\ HeadCall(c, r) /\ job[r] = "running" /\ left[r] > 0
  /\ Listening(r) /\ items[r] < ChannelCapacity
  /\ items' = [items EXCEPT ![r] = @ + 1]
  /\ left' = [left EXCEPT ![r] = @ - 1]
  /\ UNCHANGED <<phase, poolVars, calls, dead, job, oneshot, broken, counters>>

\* The query fails midway and the last item is an Err.
Fail(c, r) ==
  /\ HeadCall(c, r) /\ job[r] = "running"
  /\ Listening(r) /\ items[r] < ChannelCapacity
  /\ items' = [items EXCEPT ![r] = @ + 1]
  /\ broken' = [broken EXCEPT ![r] = TRUE]
  /\ Leave(c, r)
  /\ UNCHANGED <<phase, poolVars, dead, oneshot, counters>>

\* The query is done, or a send found the receiver gone.
Finish(c, r) ==
  /\ HeadCall(c, r) /\ job[r] = "running"
  /\ left[r] = 0 \/ ~Listening(r)
  /\ Leave(c, r)
  /\ UNCHANGED <<phase, poolVars, dead, oneshot, streamVars, counters>>

\* Mutant: the closures that wait behind the panic are not let go.
Lost_HeadOnly(c) == {Head(calls[c])}

\* The closures a thread takes with it.
Lost(c) == ToSet(calls[c])

\* The closure panics (a column builder of Arrow does at 2^31 bytes), and the
\* thread dies with all closures that wait for it. No Err is sent: the body ends
\* as if the result had.
Panic(c, r) ==
  /\ HeadCall(c, r) /\ job[r] = "running"
  /\ dead' = dead \cup {c}
  /\ calls' = [calls EXCEPT ![c] = <<>>]
  /\ job' = [q \in Requests |-> IF q \in Lost(c) THEN "done" ELSE job[q]]
  /\ Answer(Lost(c) \ {r}, "error")
  /\ left' = [left EXCEPT ![r] = 0]
  /\ UNCHANGED <<phase, poolVars, streamVars, counters>>

--------------------------------------------------------------------------------
Serve(r) == Accept(r) \/ Reject(r)
Read(r) == PollItem(r) \/ PollNone(r)
Run(c) == \E r \in Requests :
            Prepare(c, r) \/ Produce(c, r) \/ Fail(c, r) \/ Finish(c, r) \/ Panic(c, r)

Ended(r) == phase[r] \notin {"new", "waiting", "streaming"}

Terminated ==
  /\ \A r \in Requests : Ended(r) /\ job[r] \in {"none", "done"}
  /\ UNCHANGED vars

Next ==
  \/ \E r \in Requests :
       \/ Refuse(r) \/ Dispatch(r)
       \/ Serve(r) \/ Cancel(r) \/ Read(r) \/ Abandon(r)
       \/ Call(r)
  \/ \E c \in Connections : Run(c)
  \/ Terminated

Spec == Init /\ [][Next]_vars

\* Threads and runtime keep running; a client that is not stalled reads on as
\* long as it stays connected.
Fairness ==
  /\ \A r \in Requests : WF_vars(Serve(r)) /\ WF_vars(Call(r))
  /\ \A r \in Requests \ Stalled : WF_vars(Read(r))
  /\ \A c \in Connections : WF_vars(Run(c))

FairSpec == Spec /\ Fairness

--------------------------------------------------------------------------------
InFlight == {r \in Requests : phase[r] \in {"waiting", "streaming"}}
Cancelled == {r \in Requests : phase[r] = "cancelled"}

\* The gauge counts the requests in flight and, for ever, those whose client
\* left while root was waiting; nothing else can make it drift, and no request
\* is counted as successful or failed twice (metrics.rs, request_started and
\* record_request, as called by handlers.rs).
GaugeIsExact ==
  /\ active = Cardinality(InFlight) + Cardinality(Cancelled)
  /\ total = successful + failed + active
  /\ \A r \in Requests : recorded[r] # 0 <=> (phase[r] # "new" /\ r \notin InFlight \cup Cancelled)

\* The handler or the body has something to receive: an answer, an item, or the
\* end of a channel that has lost its sender.
HasNews(r) ==
  \/ phase[r] = "waiting" /\ oneshot[r] # "empty"
  \/ phase[r] = "streaming" /\ (items[r] > 0 \/ job[r] = "done")

\* blocking_send waits for the reader of a full channel.
Blocked(r) ==
  job[r] = "running" /\ left[r] > 0 /\ Listening(r) /\ items[r] = ChannelCapacity

\* A request in flight never waits for what cannot come any more, whatever has
\* become of its thread and of the requests around it: there is something for it
\* to receive, its closure is still to be called, or the closure stands in the
\* queue of a living thread, and if that thread is held up at all then by a
\* client with something to receive (db/csv.rs, query_as_csv_stream, an await of
\* the oneshot that only its sender ends; handlers.rs, root).
NobodyWaitsInVain ==
  \A r \in InFlight :
    \/ HasNews(r)
    \/ job[r] = "spawned"
    \/ LET c == connection[r]
       IN  /\ c \notin dead /\ r \in ToSet(calls[c])
           /\ Blocked(Head(calls[c])) => HasNews(Head(calls[c]))

\* A client that may stop reading has a request on the same connection.
Behind(r) == \E s \in Stalled \ {r} : connection[s] = connection[r]

\* A request comes to an end, and its closure returns the connection, unless a
\* client that does not read has a request on the same connection: stalled
\* clients of other connections do not hold it up, nor does a connection whose
\* thread has died (handlers.rs, root; pool.rs, get_connection).
Isolation ==
  \A r \in Requests \ Stalled :
    phase[r] # "new" ~> (Ended(r) /\ job[r] \in {"none", "done"}) \/ Behind(r)

--------------------------------------------------------------------------------
\* README.md:110 "active in-flight": with no request in flight the gauge is 0.
GaugeReturnsToZero == InFlight = {} => active = 0
================================================================================
