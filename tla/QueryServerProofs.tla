--------------------------- MODULE QueryServerProofs ---------------------------
(***************************************************************************)
(* Proofs about QueryServer for any set of requests, pool size and channel *)
(* capacity: the request counters always add up, whatever the interleaving *)
(* of handlers, bodies, disconnecting clients and connection threads, and  *)
(* no request waits for what cannot come. For the latter a closure is in   *)
(* the queue of its connection, once, from its call to its return.         *)
(***************************************************************************)
EXTENDS QueryServer, SequenceTheorems, FiniteSetTheorems, TLAPS

Jobs == {"none", "spawned", "called", "running", "done"}

CounterTypes ==
  /\ phase \in [Requests -> Phases]
  /\ recorded \in [Requests -> {0, 200, 400, 500}]
  /\ total \in Int /\ active \in Int /\ successful \in Int /\ failed \in Int

\* Finitely many requests are counted at a time, and the gauge is their number.
Counted ==
  /\ IsFiniteSet(InFlight) /\ IsFiniteSet(Cancelled)
  /\ active = Cardinality(InFlight) + Cardinality(Cancelled)
  /\ total = successful + failed + active
  /\ \A r \in Requests :
       recorded[r] # 0 <=> phase[r] \notin {"new", "waiting", "streaming", "cancelled"}

CountInv == CounterTypes /\ Counted

--------------------------------------------------------------------------------
(* Sets of requests that gain or lose one.                                 *)

\* A request that starts, or that is cancelled, is one more.
LEMMA OneMore ==
  ASSUME NEW S, IsFiniteSet(S), NEW r, r \notin S
  PROVE  IsFiniteSet(S \cup {r}) /\ Cardinality(S \cup {r}) = Cardinality(S) + 1
BY FS_AddElement

\* A request that ends is one less.
LEMMA OneLess ==
  ASSUME NEW S, IsFiniteSet(S), NEW r \in S
  PROVE  /\ IsFiniteSet(S \ {r}) /\ Cardinality(S \ {r}) = Cardinality(S) - 1
         /\ Cardinality(S) \in Nat
BY FS_RemoveElement, FS_CardinalityType

\* What a change of one request's phase does to the two sets (handlers.rs).
LEMMA PhaseMoves ==
  ASSUME CounterTypes, NEW r \in Requests, NEW p \in Phases,
         phase' = [phase EXCEPT ![r] = p]
  PROVE  /\ phase' \in [Requests -> Phases]
         /\ InFlight' = IF p \in {"waiting", "streaming"} THEN InFlight \cup {r}
                                                          ELSE InFlight \ {r}
         /\ Cancelled' = IF p = "cancelled" THEN Cancelled \cup {r} ELSE Cancelled \ {r}
BY DEF CounterTypes, InFlight, Cancelled

--------------------------------------------------------------------------------
(* The request counters.                                                   *)

\* No request has been sent, and nothing is counted (metrics.rs, new).
LEMMA CountInit == Init => CountInv
<1> SUFFICES ASSUME Init PROVE CountInv
  OBVIOUS
<1>1. CounterTypes
  BY DEF Init, CounterTypes, Phases
<1>2. InFlight = {} /\ Cancelled = {}
  BY DEF Init, InFlight, Cancelled
<1>3. IsFiniteSet({}) /\ Cardinality({}) = 0
  BY FS_EmptySet
<1> QED BY <1>1, <1>2, <1>3 DEF Init, Counted, CountInv

\* A refused request is counted and recorded at once (handlers.rs, root, and
\* metrics.rs, request_started and record_request).
LEMMA RefuseKeepsCount ==
  ASSUME CountInv, NEW r \in Requests, Refuse(r)
  PROVE  CountInv'
<1> USE DEF CountInv
<1>1. /\ phase[r] = "new" /\ phase' = [phase EXCEPT ![r] = "refused"]
      /\ total' = total + 1 /\ failed' = failed + 1
      /\ recorded' = [recorded EXCEPT ![r] = 400]
      /\ UNCHANGED <<active, successful>>
  BY DEF Refuse, RecordAtOnce
<1>2. /\ phase' \in [Requests -> Phases]
      /\ InFlight' = InFlight \ {r} /\ Cancelled' = Cancelled \ {r}
  BY <1>1, PhaseMoves, "refused" \in Phases DEF Phases
<1>3. InFlight' = InFlight /\ Cancelled' = Cancelled
  BY <1>1, <1>2 DEF InFlight, Cancelled
<1>4. CounterTypes'
  BY <1>1, <1>2 DEF CounterTypes
<1>5. total' = successful' + failed' + active'
  BY <1>1 DEF CounterTypes, Counted
<1>6. Counted'
  BY <1>1, <1>3, <1>5 DEF Counted, CounterTypes
<1> QED BY <1>4, <1>6

\* A request that is sent is one more in flight (handlers.rs, root).
LEMMA DispatchKeepsCount ==
  ASSUME CountInv, NEW r \in Requests, Dispatch(r)
  PROVE  CountInv'
<1> USE DEF CountInv
<1>1. /\ phase[r] = "new" /\ phase' = [phase EXCEPT ![r] = "waiting"]
      /\ total' = total + 1 /\ active' = active + 1
      /\ UNCHANGED <<recorded, successful, failed>>
  BY DEF Dispatch
<1>2. /\ phase' \in [Requests -> Phases]
      /\ InFlight' = InFlight \cup {r} /\ Cancelled' = Cancelled \ {r}
  BY <1>1, PhaseMoves, "waiting" \in Phases DEF Phases
<1>3. r \notin InFlight /\ Cancelled' = Cancelled
  BY <1>1, <1>2 DEF InFlight, Cancelled
<1>4. IsFiniteSet(InFlight') /\ Cardinality(InFlight') = Cardinality(InFlight) + 1
  BY <1>2, <1>3, OneMore DEF Counted
<1>5. CounterTypes'
  BY <1>1, <1>2 DEF CounterTypes
<1>6. Cardinality(InFlight) \in Nat /\ Cardinality(Cancelled) \in Nat
  BY FS_CardinalityType DEF Counted
<1>7. /\ active' = Cardinality(InFlight') + Cardinality(Cancelled')
      /\ total' = successful' + failed' + active'
  BY <1>1, <1>3, <1>4, <1>6 DEF CounterTypes, Counted
<1>8. Counted'
  BY <1>1, <1>3, <1>4, <1>7 DEF Counted, CounterTypes
<1> QED BY <1>5, <1>8

\* A request that ends is recorded with the status of its end and is no longer in
\* flight (metrics.rs, record_request).
LEMMA RecordKeepsCount ==
  ASSUME CountInv, NEW r \in Requests, phase[r] \in {"waiting", "streaming"},
         NEW status \in {200, 500}, Record(r, status),
         NEW p \in {"rejected", "complete", "failed", "abandoned"},
         phase' = [phase EXCEPT ![r] = p]
  PROVE  CountInv'
<1> USE DEF CountInv
<1>1. /\ active' = active - 1 /\ total' = total
      /\ \/ successful' = successful + 1 /\ UNCHANGED failed
         \/ failed' = failed + 1 /\ UNCHANGED successful
      /\ recorded' = [recorded EXCEPT ![r] = status]
  BY DEF Record
<1>2. /\ phase' \in [Requests -> Phases]
      /\ InFlight' = InFlight \ {r} /\ Cancelled' = Cancelled \ {r}
  <2>1. p \in Phases /\ p \notin {"waiting", "streaming"} /\ p # "cancelled"
    BY DEF Phases
  <2>2. /\ phase' \in [Requests -> Phases]
        /\ InFlight' = IF p \in {"waiting", "streaming"} THEN InFlight \cup {r}
                                                         ELSE InFlight \ {r}
        /\ Cancelled' = IF p = "cancelled" THEN Cancelled \cup {r} ELSE Cancelled \ {r}
    BY <2>1, PhaseMoves
  <2> QED BY <2>1, <2>2
<1>3. r \in InFlight /\ Cancelled' = Cancelled
  BY <1>2 DEF InFlight, Cancelled
<1>4. /\ IsFiniteSet(InFlight') /\ Cardinality(InFlight') = Cardinality(InFlight) - 1
      /\ Cardinality(InFlight) \in Nat
  BY <1>2, <1>3, OneLess DEF Counted
<1>5. CounterTypes'
  BY <1>1, <1>2 DEF CounterTypes
<1>6. Cardinality(Cancelled) \in Nat
  BY FS_CardinalityType DEF Counted
<1>7. /\ active' = Cardinality(InFlight') + Cardinality(Cancelled')
      /\ total' = successful' + failed' + active'
  BY <1>1, <1>3, <1>4, <1>6 DEF CounterTypes, Counted
<1>8. Counted'
  BY <1>1, <1>3, <1>4, <1>7 DEF Counted, CounterTypes
<1> QED BY <1>5, <1>8

\* A request that is cancelled stays in the gauge (handlers.rs, root, dropped
\* while it awaits).
LEMMA CancelKeepsCount ==
  ASSUME CountInv, NEW r \in Requests, Cancel(r)
  PROVE  CountInv'
<1> USE DEF CountInv
<1>1. /\ phase[r] = "waiting" /\ phase' = [phase EXCEPT ![r] = "cancelled"]
      /\ UNCHANGED <<total, active, successful, failed, recorded>>
  BY DEF Cancel, counters
<1>2. /\ phase' \in [Requests -> Phases]
      /\ InFlight' = InFlight \ {r} /\ Cancelled' = Cancelled \cup {r}
  BY <1>1, PhaseMoves, "cancelled" \in Phases DEF Phases
<1>3. r \in InFlight /\ r \notin Cancelled
  BY <1>1 DEF InFlight, Cancelled
<1>4. /\ IsFiniteSet(InFlight') /\ Cardinality(InFlight') = Cardinality(InFlight) - 1
      /\ Cardinality(InFlight) \in Nat
  BY <1>2, <1>3, OneLess DEF Counted
<1>5. /\ IsFiniteSet(Cancelled') /\ Cardinality(Cancelled') = Cardinality(Cancelled) + 1
      /\ Cardinality(Cancelled) \in Nat
  BY <1>2, <1>3, OneMore, FS_CardinalityType DEF Counted
<1>6. CounterTypes'
  BY <1>1, <1>2 DEF CounterTypes
<1>7. active' = Cardinality(InFlight') + Cardinality(Cancelled')
  BY <1>1, <1>4, <1>5 DEF Counted
<1>8. Counted'
  BY <1>1, <1>4, <1>5, <1>7 DEF Counted, CounterTypes
<1> QED BY <1>6, <1>8

\* A step that counts nothing moves no request into or out of the sets.
LEMMA QuietKeepsCount ==
  ASSUME CountInv, UNCHANGED counters,
         \/ UNCHANGED phase
         \/ \E r \in Requests : Accept(r)
  PROVE  CountInv'
<1> USE DEF CountInv
<1>1. UNCHANGED <<total, active, successful, failed, recorded>>
  BY DEF counters
<1>2. CASE UNCHANGED phase
  BY <1>1, <1>2 DEF CounterTypes, Counted, InFlight, Cancelled
<1>3. ASSUME NEW r \in Requests, Accept(r)
      PROVE  CountInv'
  <2>1. phase[r] = "waiting" /\ phase' = [phase EXCEPT ![r] = "streaming"]
    BY <1>3 DEF Accept
  <2>2. /\ phase' \in [Requests -> Phases]
        /\ InFlight' = InFlight \cup {r} /\ Cancelled' = Cancelled \ {r}
    BY <2>1, PhaseMoves, "streaming" \in Phases DEF Phases
  <2>3. InFlight' = InFlight /\ Cancelled' = Cancelled
    BY <2>1, <2>2 DEF InFlight, Cancelled
  <2>4. CounterTypes'
    BY <1>1, <2>2 DEF CounterTypes
  <2>5. \A q \in Requests :
          phase'[q] \notin {"new", "waiting", "streaming", "cancelled"}
            <=> phase[q] \notin {"new", "waiting", "streaming", "cancelled"}
    BY <2>1 DEF CounterTypes
  <2>6. \A q \in Requests :
          recorded'[q] # 0 <=> phase'[q] \notin {"new", "waiting", "streaming", "cancelled"}
    BY <1>1, <2>5 DEF Counted
  <2>7. Counted'
    BY <1>1, <2>3, <2>6 DEF Counted
  <2> QED BY <2>4, <2>7
<1> QED BY <1>2, <1>3

\* Every step keeps the counters exact.
LEMMA CountNext == CountInv /\ [Next]_vars => CountInv'
<1> SUFFICES ASSUME CountInv, [Next]_vars PROVE CountInv'
  OBVIOUS
<1>1. ASSUME NEW r \in Requests, Refuse(r) PROVE CountInv'
  BY <1>1, RefuseKeepsCount
<1>2. ASSUME NEW r \in Requests, Dispatch(r) PROVE CountInv'
  BY <1>2, DispatchKeepsCount
<1>3. ASSUME NEW r \in Requests, Serve(r) PROVE CountInv'
  <2>1. CASE Accept(r)
    BY <2>1, QuietKeepsCount DEF Accept
  <2>2. CASE Reject(r)
    BY <2>2, RecordKeepsCount DEF Reject
  <2> QED BY <1>3, <2>1, <2>2 DEF Serve
<1>4. ASSUME NEW r \in Requests, Cancel(r) PROVE CountInv'
  BY <1>4, CancelKeepsCount
<1>5. ASSUME NEW r \in Requests, Read(r) PROVE CountInv'
  <2>1. CASE PollItem(r)
    <3>1. CASE Record(r, 500)
      BY <2>1, <3>1, RecordKeepsCount, QuietKeepsCount DEF PollItem
    <3>2. CASE UNCHANGED <<phase, counters>>
      BY <3>2, QuietKeepsCount
    <3> QED BY <2>1, <3>1, <3>2 DEF PollItem
  <2>2. CASE PollNone(r)
    BY <2>2, RecordKeepsCount DEF PollNone
  <2> QED BY <1>5, <2>1, <2>2 DEF Read
<1>6. ASSUME NEW r \in Requests, Abandon(r) PROVE CountInv'
  BY <1>6, RecordKeepsCount DEF Abandon
<1>7. ASSUME NEW r \in Requests, Call(r) PROVE CountInv'
  BY <1>7, QuietKeepsCount DEF Call
<1>8. ASSUME NEW c \in Connections, Run(c) PROVE CountInv'
  BY <1>8, QuietKeepsCount DEF Run, Prepare, Produce, Fail, Finish, Panic
<1>9. CASE UNCHANGED vars
  BY <1>9, QuietKeepsCount DEF vars
<1> QED BY <1>1, <1>2, <1>3, <1>4, <1>5, <1>6, <1>7, <1>8, <1>9 DEF Next, Terminated

\* The gauge counts the requests in flight and those cancelled while root waited,
\* and every other request has been counted as successful or failed, once
\* (metrics.rs, request_started and record_request, as handlers.rs calls them).
THEOREM ExactGauge == Spec => []GaugeIsExact
<1>1. CountInv => GaugeIsExact
  BY DEF CountInv, CounterTypes, Counted, GaugeIsExact, InFlight, Cancelled
<1> QED BY <1>1, CountInit, CountNext, PTL DEF Spec

--------------------------------------------------------------------------------
(* The queues of the connection threads.                                   *)

In(s, r) == \E i \in 1 .. Len(s) : s[i] = r
Single(s) == \A i, j \in 1 .. Len(s) : s[i] = s[j] => i = j

Pending(r) == job[r] \in {"called", "running"}

QueueTypes ==
  /\ calls \in [Connections -> Seq(Requests)]
  /\ job \in [Requests -> Jobs]
  /\ connection \in [Requests -> Connections \cup {NoConnection}]
  /\ nextIndex \in Nat

\* The queue of a living thread holds its pending closures, each once; a dead
\* thread has no queue.
Queued(c) ==
  /\ Single(calls[c])
  /\ \A r \in Requests : In(calls[c], r) <=> Pending(r) /\ connection[r] = c /\ c \notin dead

\* A request has no closure before it is sent, and no connection to call.
Unsent ==
  \A r \in Requests : /\ phase[r] = "new" => job[r] = "none"
                      /\ job[r] # "none" => connection[r] \in Connections

QueueInv == QueueTypes /\ (\A c \in Connections : Queued(c)) /\ Unsent

\* What Append does to a queue.
LEMMA AppendIn ==
  ASSUME NEW s \in Seq(Requests), NEW r \in Requests
  PROVE  /\ Append(s, r) \in Seq(Requests)
         /\ \A q \in Requests : In(Append(s, r), q) <=> In(s, q) \/ q = r
         /\ Single(s) /\ ~In(s, r) => Single(Append(s, r))
<1> DEFINE t == Append(s, r)
<1>1. /\ t \in Seq(Requests) /\ Len(s) \in Nat /\ Len(t) = Len(s) + 1
      /\ \A i \in 1 .. Len(s) : t[i] = s[i]
      /\ t[Len(s) + 1] = r
  BY AppendProperties, LenProperties
<1> HIDE DEF t
<1>2. \A i \in 1 .. Len(t) : i \in 1 .. Len(s) \/ i = Len(s) + 1
  BY <1>1
<1>3. \A i \in 1 .. Len(s) : i \in 1 .. Len(t)
  BY <1>1
<1>4. Len(s) + 1 \in 1 .. Len(t)
  BY <1>1
<1>5. \A q \in Requests : In(t, q) <=> In(s, q) \/ q = r
  BY <1>1, <1>2, <1>3, <1>4 DEF In
<1>6. Single(s) /\ ~In(s, r) => Single(t)
  BY <1>1, <1>2 DEF In, Single
<1> QED BY <1>1, <1>5, <1>6 DEF t

\* What Tail does to a queue without repetition.
LEMMA TailIn ==
  ASSUME NEW s \in Seq(Requests), s # <<>>, Single(s)
  PROVE  /\ Tail(s) \in Seq(Requests) /\ Head(s) \in Requests
         /\ In(s, Head(s))
         /\ \A q \in Requests : In(Tail(s), q) <=> In(s, q) /\ q # Head(s)
         /\ Single(Tail(s))
<1> DEFINE t == Tail(s)
<1>1. /\ t \in Seq(Requests) /\ Head(s) \in Requests
      /\ Len(s) \in Nat \ {0} /\ Len(t) = Len(s) - 1
      /\ \A i \in 1 .. Len(t) : t[i] = s[i + 1]
  BY HeadTailProperties, EmptySeq
<1>2. Head(s) = s[1]
  OBVIOUS
<1> HIDE DEF t
<1>3. \A i \in 1 .. Len(t) : i + 1 \in 1 .. Len(s) /\ i + 1 # 1
  BY <1>1
<1>4. 1 \in 1 .. Len(s) /\ \A i \in 1 .. Len(s) : i # 1 => i - 1 \in 1 .. Len(t) /\ (i - 1) + 1 = i
  BY <1>1
<1>5. \A q \in Requests : In(t, q) => In(s, q) /\ q # Head(s)
  BY <1>1, <1>2, <1>3, <1>4 DEF In, Single
<1>6. \A q \in Requests : In(s, q) /\ q # Head(s) => In(t, q)
  <2> SUFFICES ASSUME NEW q \in Requests, NEW i \in 1 .. Len(s), s[i] = q, q # Head(s)
               PROVE  In(t, q)
    BY DEF In
  <2>1. i # 1
    BY <1>2
  <2>2. i - 1 \in 1 .. Len(t) /\ t[i - 1] = q
    BY <1>1, <1>4, <2>1
  <2> QED BY <2>2 DEF In
<1>7. Single(t)
  <2> SUFFICES ASSUME NEW i \in 1 .. Len(t), NEW j \in 1 .. Len(t), t[i] = t[j]
               PROVE  i = j
    BY DEF Single
  <2>1. i + 1 = j + 1
    BY <1>1, <1>3 DEF Single
  <2> QED BY <2>1
<1>8. In(s, Head(s))
  BY <1>2, <1>4 DEF In
<1> QED BY <1>1, <1>5, <1>6, <1>7, <1>8 DEF t

\* Nothing is queued at first (db/mod.rs, open_connection).
LEMMA QueueInit == Init => QueueInv
<1> SUFFICES ASSUME Init PROVE QueueInv
  OBVIOUS
<1>1. <<>> \in Seq(Requests) /\ Len(<<>>) = 0
  BY EmptySeq
<1>2. QueueTypes
  BY <1>1 DEF Init, QueueTypes, Jobs
<1>3. ASSUME NEW c \in Connections PROVE Queued(c)
  <2>1. calls[c] = <<>> /\ ~ \E i \in 1 .. Len(calls[c]) : TRUE
    BY <1>1 DEF Init
  <2>2. Single(calls[c]) /\ \A r \in Requests : ~In(calls[c], r)
    BY <2>1 DEF Single, In
  <2>3. \A r \in Requests : ~Pending(r)
    BY DEF Init, Pending
  <2> QED BY <2>2, <2>3 DEF Queued
<1>4. Unsent
  BY DEF Init, Unsent
<1> QED BY <1>2, <1>3, <1>4 DEF QueueInv

\* A step that leaves the queues alone, and no request newer than it was, keeps
\* the invariant if the same closures are pending.
LEMMA SameQueues ==
  ASSUME QueueInv, UNCHANGED <<calls, dead, connection, nextIndex>>,
         job' \in [Requests -> Jobs],
         \A r \in Requests : Pending(r)' <=> Pending(r),
         \A r \in Requests : /\ phase'[r] = "new" => phase[r] = "new" /\ job'[r] = job[r]
                             /\ job[r] = "none" => job'[r] = "none"
  PROVE  QueueInv'
<1>1. QueueTypes'
  BY DEF QueueInv, QueueTypes
<1>2. ASSUME NEW c \in Connections PROVE Queued(c)'
  BY DEF QueueInv, Queued
<1>3. Unsent'
  BY DEF QueueInv, Unsent
<1> QED BY <1>1, <1>2, <1>3 DEF QueueInv

\* A request that is sent gets a connection of the pool (pool.rs,
\* get_connection), and has nothing queued.
LEMMA DispatchKeepsQueues ==
  ASSUME CountInv, QueueInv, NEW r \in Requests, Dispatch(r)
  PROVE  QueueInv'
<1>1. /\ phase[r] = "new" /\ phase' = [phase EXCEPT ![r] = "waiting"]
      /\ connection' = [connection EXCEPT ![r] = nextIndex % PoolSize]
      /\ nextIndex' = (nextIndex + 1) % IndexRange
      /\ job' = [job EXCEPT ![r] = "spawned"]
      /\ UNCHANGED <<calls, dead>>
  BY DEF Dispatch
<1>2. nextIndex % PoolSize \in Connections /\ (nextIndex + 1) % IndexRange \in Nat
  BY ServerAssumption DEF QueueInv, QueueTypes, Connections
<1>3. QueueTypes'
  BY <1>1, <1>2 DEF QueueInv, QueueTypes, Jobs
<1>4. job[r] = "none"
  BY <1>1 DEF QueueInv, Unsent
<1>5. /\ ~Pending(r) /\ ~Pending(r)'
      /\ \A q \in Requests \ {r} : (Pending(q)' <=> Pending(q)) /\ connection'[q] = connection[q]
  BY <1>1, <1>4 DEF Pending, QueueInv, QueueTypes
<1>6. ASSUME NEW c \in Connections PROVE Queued(c)'
  BY <1>1, <1>5 DEF QueueInv, Queued
<1>7. Unsent'
  BY <1>1, <1>2 DEF QueueInv, Unsent, QueueTypes, CountInv, CounterTypes
<1> QED BY <1>3, <1>6, <1>7 DEF QueueInv

\* A closure that is called joins the queue of its connection, unless the thread
\* is dead (db/csv.rs, query_as_csv_stream).
LEMMA CallKeepsQueues ==
  ASSUME QueueInv, NEW r \in Requests, Call(r)
  PROVE  QueueInv'
<1>1. job[r] = "spawned" /\ UNCHANGED <<phase, connection, nextIndex, dead>>
  BY DEF Call, poolVars
<1>2. CASE ThreadOf(r) \notin dead /\ job' = [job EXCEPT ![r] = "called"]
           /\ calls' = [calls EXCEPT ![ThreadOf(r)] = Append(@, r)]
  <2> DEFINE d == connection[r]
  <2>1. d \in Connections /\ d \notin dead /\ calls[d] \in Seq(Requests)
    BY <1>1, <1>2 DEF QueueInv, Unsent, QueueTypes, ThreadOf
  <2>2. /\ calls'[d] = Append(calls[d], r)
        /\ \A c \in Connections \ {d} : calls'[c] = calls[c]
        /\ calls' = [calls EXCEPT ![d] = Append(calls[d], r)]
    BY <1>2, <2>1 DEF QueueInv, QueueTypes, ThreadOf
  <2>3. /\ ~Pending(r) /\ Pending(r)'
        /\ \A q \in Requests \ {r} : Pending(q)' <=> Pending(q)
    BY <1>1, <1>2 DEF Pending, QueueInv, QueueTypes
  <2> HIDE DEF d
  <2>4. Single(calls[d]) /\ ~In(calls[d], r)
    BY <2>1, <2>3 DEF QueueInv, Queued
  <2>5. QueueTypes'
    <3>1. Append(calls[d], r) \in Seq(Requests)
      BY <2>1, AppendIn
    <3> QED BY <1>1, <1>2, <2>1, <2>2, <3>1 DEF QueueInv, QueueTypes, Jobs
  <2>6. Queued(d)'
    <3>1. d = connection[r]
      BY DEF d
    <3>2. /\ Single(calls'[d])
          /\ \A q \in Requests : In(calls'[d], q) <=> In(calls[d], q) \/ q = r
      BY <2>1, <2>2, <2>4, AppendIn
    <3>3. \A q \in Requests : In(calls'[d], q) <=> Pending(q)' /\ connection'[q] = d /\ d \notin dead'
      BY <1>1, <2>1, <2>3, <3>1, <3>2 DEF QueueInv, Queued
    <3>4. d' = d
      BY <1>1 DEF d
    <3> QED BY <3>2, <3>3, <3>4 DEF Queued
  <2>7. ASSUME NEW c \in Connections, c # d PROVE Queued(c)'
    <3>1. d = connection[r]
      BY DEF d
    <3> QED BY <1>1, <2>2, <2>3, <2>7, <3>1 DEF QueueInv, Queued
  <2>8. Unsent'
    BY <1>1, <1>2 DEF QueueInv, Unsent, QueueTypes
  <2>9. ASSUME NEW c \in Connections PROVE Queued(c)'
    BY <2>6, <2>7, <1>1 DEF d
  <2> QED BY <2>5, <2>8, <2>9 DEF QueueInv
<1>3. CASE job' = [job EXCEPT ![r] = "done"] /\ UNCHANGED calls
  <2>1. job' \in [Requests -> Jobs]
    BY <1>3 DEF QueueInv, QueueTypes, Jobs
  <2>2. \A q \in Requests : Pending(q)' <=> Pending(q)
    BY <1>1, <1>3 DEF Pending, QueueInv, QueueTypes
  <2>3. \A q \in Requests : /\ phase'[q] = "new" => phase[q] = "new" /\ job'[q] = job[q]
                            /\ job[q] = "none" => job'[q] = "none"
    BY <1>1, <1>3 DEF QueueInv, QueueTypes, Unsent
  <2> QED BY <1>1, <1>3, <2>1, <2>2, <2>3, SameQueues
<1> QED BY <1>2, <1>3 DEF Call

\* A closure that returns leaves its queue, and the next one comes to its head
\* (db/csv.rs, the end of the closure).
LEMMA LeaveKeepsQueues ==
  ASSUME QueueInv, NEW r \in Requests, NEW c \in Connections, HeadCall(c, r), Leave(c, r),
         UNCHANGED <<phase, connection, nextIndex, dead>>
  PROVE  QueueInv'
<1>1. /\ calls[c] # <<>> /\ r = Head(calls[c]) /\ calls[c] \in Seq(Requests)
      /\ Single(calls[c])
  BY DEF HeadCall, QueueInv, QueueTypes, Queued
<1>2. /\ Tail(calls[c]) \in Seq(Requests) /\ Single(Tail(calls[c]))
      /\ In(calls[c], r)
      /\ \A q \in Requests : In(Tail(calls[c]), q) <=> In(calls[c], q) /\ q # r
  BY <1>1, TailIn
<1>3. /\ calls'[c] = Tail(calls[c]) /\ calls' \in [Connections -> Seq(Requests)]
      /\ \A d \in Connections \ {c} : calls'[d] = calls[d]
      /\ job' \in [Requests -> Jobs]
      /\ job'[r] = "done" /\ \A q \in Requests \ {r} : job'[q] = job[q]
  BY <1>2 DEF Leave, QueueInv, QueueTypes, Jobs
<1>4. /\ connection[r] = c /\ Pending(r)
      /\ ~Pending(r)' /\ \A q \in Requests \ {r} : Pending(q)' <=> Pending(q)
  BY <1>2, <1>3 DEF Pending, QueueInv, Queued
<1>5. QueueTypes'
  BY <1>3 DEF QueueInv, QueueTypes
<1>6. ASSUME NEW d \in Connections PROVE Queued(d)'
  <2>1. CASE d = c
    <3>1. ASSUME NEW q \in Requests
          PROVE  In(calls'[c], q) <=> Pending(q)' /\ connection'[q] = c /\ c \notin dead'
      <4>1. In(calls'[c], q) <=> In(calls[c], q) /\ q # r
        BY <1>2, <1>3
      <4>2. In(calls[c], q) <=> Pending(q) /\ connection[q] = c /\ c \notin dead
        BY DEF QueueInv, Queued
      <4>3. Pending(q)' <=> Pending(q) /\ q # r
        BY <1>4
      <4> QED BY <4>1, <4>2, <4>3
    <3> QED BY <1>2, <1>3, <2>1, <3>1 DEF Queued
  <2>2. CASE d # c
    BY <1>3, <1>4, <2>2 DEF QueueInv, Queued
  <2> QED BY <2>1, <2>2
<1>7. Unsent'
  BY <1>3, <1>4 DEF QueueInv, Unsent, Pending
<1> QED BY <1>5, <1>6, <1>7 DEF QueueInv

\* A thread that dies takes its whole queue with it (db/csv.rs, a panic in the
\* closure).
LEMMA PanicKeepsQueues ==
  ASSUME QueueInv, NEW r \in Requests, NEW c \in Connections, Panic(c, r)
  PROVE  QueueInv'
<1>1. /\ dead' = dead \cup {c}
      /\ calls' = [calls EXCEPT ![c] = <<>>]
      /\ job' = [q \in Requests |-> IF q \in Lost(c) THEN "done" ELSE job[q]]
      /\ UNCHANGED <<phase, connection, nextIndex>>
  BY DEF Panic, poolVars
<1>2. \A q : q \in Lost(c) <=> In(calls[c], q)
  <2>1. calls[c] \in Seq(Requests)
    BY DEF QueueInv, QueueTypes
  <2>2. DOMAIN calls[c] = 1 .. Len(calls[c])
    BY <2>1, LenProperties
  <2> QED BY <2>2 DEF Lost, ToSet, In
<1>3. <<>> \in Seq(Requests) /\ Len(<<>>) = 0
  BY EmptySeq
<1>4. /\ calls'[c] = <<>> /\ \A d \in Connections \ {c} : calls'[d] = calls[d]
      /\ calls' \in [Connections -> Seq(Requests)]
  BY <1>1, <1>3 DEF QueueInv, QueueTypes
<1>5. QueueTypes'
  BY <1>1, <1>4 DEF QueueInv, QueueTypes, Jobs
<1>6. \A q \in Requests : job'[q] = IF In(calls[c], q) THEN "done" ELSE job[q]
  BY <1>1, <1>2
<1>7. \A q \in Requests : Pending(q)' <=> Pending(q) /\ ~In(calls[c], q)
  BY <1>6 DEF Pending
<1>8. Queued(c)'
  <2>1. Single(calls'[c]) /\ \A q \in Requests : ~In(calls'[c], q)
    BY <1>3, <1>4 DEF Single, In
  <2> QED BY <1>1, <2>1 DEF Queued
<1>9. ASSUME NEW d \in Connections, d # c PROVE Queued(d)'
  <2>1. \A q \in Requests : connection[q] = d => ~In(calls[c], q)
    BY <1>9 DEF QueueInv, Queued
  <2>2. Single(calls'[d])
    BY <1>4, <1>9 DEF QueueInv, Queued
  <2>3. \A q \in Requests : In(calls'[d], q) <=> Pending(q)' /\ connection'[q] = d /\ d \notin dead'
    BY <1>1, <1>4, <1>7, <1>9, <2>1 DEF QueueInv, Queued
  <2> QED BY <2>2, <2>3 DEF Queued
<1>10. ASSUME NEW q \in Requests, In(calls[c], q) PROVE job[q] # "none"
  BY <1>10 DEF QueueInv, Queued, Pending
<1>11. Unsent'
  BY <1>1, <1>6, <1>10 DEF QueueInv, Unsent
<1> QED BY <1>5, <1>8, <1>9, <1>11 DEF QueueInv

\* A closure is prepared where it stands, at the head of its queue, and leaves it
\* if its query is not accepted (db/csv.rs and parquet.rs, the prepare of the
\* statement).
LEMMA PrepareKeepsQueues ==
  ASSUME QueueInv, NEW r \in Requests, NEW c \in Connections, Prepare(c, r)
  PROVE  QueueInv'
<1>1. /\ HeadCall(c, r) /\ job[r] = "called"
      /\ UNCHANGED <<phase, connection, nextIndex, dead>>
  BY DEF Prepare, poolVars
<1>2. CASE job' = [job EXCEPT ![r] = "running"] /\ UNCHANGED calls
  <2>1. job' \in [Requests -> Jobs]
    BY <1>2 DEF QueueInv, QueueTypes, Jobs
  <2>2. \A q \in Requests : Pending(q)' <=> Pending(q)
    BY <1>1, <1>2 DEF Pending, QueueInv, QueueTypes
  <2>3. \A q \in Requests : /\ phase'[q] = "new" => phase[q] = "new" /\ job'[q] = job[q]
                            /\ job[q] = "none" => job'[q] = "none"
    BY <1>1, <1>2 DEF QueueInv, QueueTypes, Unsent
  <2> QED BY <1>1, <1>2, <2>1, <2>2, <2>3, SameQueues
<1>3. CASE Leave(c, r)
  BY <1>1, <1>3, LeaveKeepsQueues
<1> QED BY <1>2, <1>3 DEF Prepare

\* Every step keeps the queues.
LEMMA QueueNext == CountInv /\ QueueInv /\ [Next]_vars => QueueInv'
<1> SUFFICES ASSUME CountInv, QueueInv, [Next]_vars PROVE QueueInv'
  OBVIOUS
<1>a. ASSUME UNCHANGED <<calls, dead, job, connection, nextIndex>>,
             \A r \in Requests : phase'[r] = "new" => phase[r] = "new"
      PROVE  QueueInv'
  <2>1. job' \in [Requests -> Jobs] /\ \A r \in Requests : Pending(r)' <=> Pending(r)
    BY <1>a DEF QueueInv, QueueTypes, Pending
  <2>2. \A r \in Requests : job'[r] = job[r]
    BY <1>a
  <2> QED BY <1>a, <2>1, <2>2, SameQueues
<1>b. ASSUME NEW r \in Requests, NEW p \in Phases \ {"new"},
             phase' = [phase EXCEPT ![r] = p]
      PROVE  \A q \in Requests : phase'[q] = "new" => phase[q] = "new"
  BY <1>b DEF CountInv, CounterTypes
<1>1. ASSUME NEW r \in Requests, Refuse(r) PROVE QueueInv'
  BY <1>1, <1>a, <1>b DEF Refuse, Phases, poolVars, jobVars
<1>2. ASSUME NEW r \in Requests, Dispatch(r) PROVE QueueInv'
  BY <1>2, DispatchKeepsQueues
<1>3. ASSUME NEW r \in Requests, Serve(r) PROVE QueueInv'
  BY <1>3, <1>a, <1>b DEF Serve, Accept, Reject, Phases, poolVars
<1>4. ASSUME NEW r \in Requests, Cancel(r) PROVE QueueInv'
  BY <1>4, <1>a, <1>b DEF Cancel, Phases, poolVars
<1>5. ASSUME NEW r \in Requests, Read(r) PROVE QueueInv'
  <2>1. UNCHANGED <<calls, dead, job, connection, nextIndex>>
    BY <1>5 DEF Read, PollItem, PollNone, poolVars, jobVars
  <2>2. \A q \in Requests : phase'[q] = "new" => phase[q] = "new"
    BY <1>5, <1>b DEF Read, PollItem, PollNone, Phases
  <2> QED BY <2>1, <2>2, <1>a
<1>6. ASSUME NEW r \in Requests, Abandon(r) PROVE QueueInv'
  BY <1>6, <1>a, <1>b DEF Abandon, Phases, poolVars, jobVars
<1>7. ASSUME NEW r \in Requests, Call(r) PROVE QueueInv'
  BY <1>7, CallKeepsQueues
<1>8. ASSUME NEW c \in Connections, NEW r \in Requests,
             Prepare(c, r) \/ Produce(c, r) \/ Fail(c, r) \/ Finish(c, r) \/ Panic(c, r)
      PROVE  QueueInv'
  <2>1. CASE Prepare(c, r)
    BY <2>1, PrepareKeepsQueues
  <2>2. CASE Produce(c, r)
    BY <2>2, <1>a DEF Produce, poolVars
  <2>3. CASE Fail(c, r)
    BY <2>3, LeaveKeepsQueues DEF Fail, poolVars
  <2>4. CASE Finish(c, r)
    BY <2>4, LeaveKeepsQueues DEF Finish, poolVars
  <2>5. CASE Panic(c, r)
    BY <2>5, PanicKeepsQueues
  <2> QED BY <1>8, <2>1, <2>2, <2>3, <2>4, <2>5
<1>9. CASE UNCHANGED vars
  BY <1>9, <1>a DEF vars, poolVars, jobVars
<1> QED BY <1>1, <1>2, <1>3, <1>4, <1>5, <1>6, <1>7, <1>8, <1>9 DEF Next, Run, Terminated

--------------------------------------------------------------------------------
(* What a request waits for.                                               *)

Answers == {"empty", "ok", "error"}

\* A handler that waits has a closure, which answers before it runs on and at the
\* latest when it is gone; a response is only sent for a closure that has
\* answered; and a closure that is pending has a living thread.
Hopeful(r) ==
  /\ phase[r] = "waiting" => job[r] # "none"
  /\ phase[r] = "waiting" /\ job[r] \in {"running", "done"} => oneshot[r] # "empty"
  /\ oneshot[r] = "ok" => job[r] \in {"running", "done"}
  /\ phase[r] = "streaming" => job[r] \in {"running", "done"}
  /\ Pending(r) => connection[r] \notin dead

WaitInv == oneshot \in [Requests -> Answers] /\ \A r \in Requests : Hopeful(r)

\* Types of what the steps change.
LEMMA WaitTypes ==
  ASSUME CountInv, QueueInv, WaitInv
  PROVE  /\ phase \in [Requests -> Phases] /\ job \in [Requests -> Jobs]
         /\ oneshot \in [Requests -> Answers]
         /\ connection \in [Requests -> Connections \cup {NoConnection}]
BY DEF CountInv, CounterTypes, QueueInv, QueueTypes, WaitInv

\* Nobody waits at first.
LEMMA WaitInit == Init => WaitInv
BY DEF Init, WaitInv, Hopeful, Answers, Pending

\* A handler that starts to wait has spawned the task (handlers.rs, root).
LEMMA DispatchKeepsWait ==
  ASSUME CountInv, QueueInv, WaitInv, NEW r \in Requests, Dispatch(r)
  PROVE  WaitInv'
<1>1. /\ phase[r] = "new" /\ phase' = [phase EXCEPT ![r] = "waiting"]
      /\ job' = [job EXCEPT ![r] = "spawned"]
      /\ connection' = [connection EXCEPT ![r] = nextIndex % PoolSize]
      /\ UNCHANGED <<oneshot, dead>>
  BY DEF Dispatch
<1>2. job[r] = "none"
  BY <1>1 DEF QueueInv, Unsent
<1>3. oneshot[r] # "ok"
  BY <1>2 DEF WaitInv, Hopeful
<1>4. ASSUME NEW q \in Requests PROVE Hopeful(q)'
  <2>1. CASE q = r
    BY <1>1, <1>3, <2>1, WaitTypes DEF Hopeful, Pending
  <2>2. CASE q # r
    BY <1>1, <2>2, WaitTypes DEF WaitInv, Hopeful, Pending
  <2> QED BY <2>1, <2>2
<1> QED BY <1>1, <1>4 DEF WaitInv

\* A handler that takes its answer, or leaves without one, waits no more
\* (handlers.rs, root).
LEMMA ServeKeepsWait ==
  ASSUME CountInv, QueueInv, WaitInv, NEW r \in Requests, Serve(r) \/ Cancel(r)
  PROVE  WaitInv'
<1>1. PICK p \in {"streaming", "rejected", "cancelled"} :
        /\ phase' = [phase EXCEPT ![r] = p]
        /\ p = "streaming" => oneshot[r] = "ok"
  BY DEF Serve, Accept, Reject, Cancel
<1>2. /\ oneshot' = [oneshot EXCEPT ![r] = "empty"]
      /\ UNCHANGED <<job, connection, dead>>
  BY DEF Serve, Accept, Reject, Cancel, poolVars
<1>3. ASSUME NEW q \in Requests PROVE Hopeful(q)'
  <2>1. CASE q = r
    BY <1>1, <1>2, <2>1, WaitTypes DEF WaitInv, Hopeful, Pending
  <2>2. CASE q # r
    BY <1>1, <1>2, <2>2, WaitTypes DEF WaitInv, Hopeful, Pending
  <2> QED BY <2>1, <2>2
<1>4. oneshot' \in [Requests -> Answers]
  BY <1>2, WaitTypes DEF Answers
<1> QED BY <1>3, <1>4 DEF WaitInv

\* A step after which a request that waited or was sent does so no more, and that
\* is all, promises nothing new (handlers.rs, root; metrics.rs, drop).
LEMMA EndKeepsWait ==
  ASSUME CountInv, QueueInv, WaitInv, UNCHANGED <<job, oneshot, connection, dead>>,
         \A q \in Requests : phase'[q] \in {"waiting", "streaming"} => phase'[q] = phase[q]
  PROVE  WaitInv'
<1>1. ASSUME NEW q \in Requests PROVE Hopeful(q)'
  BY DEF WaitInv, Hopeful, Pending
<1> QED BY <1>1 DEF WaitInv

\* A closure is called on a living thread, or dropped with an answer (db/csv.rs,
\* query_as_csv_stream).
LEMMA CallKeepsWait ==
  ASSUME CountInv, QueueInv, WaitInv, NEW r \in Requests, Call(r)
  PROVE  WaitInv'
<1>1. job[r] = "spawned" /\ UNCHANGED <<phase, connection, dead>>
  BY DEF Call, poolVars
<1>2. CASE connection[r] \notin dead /\ job' = [job EXCEPT ![r] = "called"] /\ UNCHANGED oneshot
  <2>1. oneshot[r] # "ok" /\ phase[r] # "streaming"
    BY <1>1 DEF WaitInv, Hopeful
  <2>2. ASSUME NEW q \in Requests PROVE Hopeful(q)'
    <3>1. CASE q = r
      BY <1>1, <1>2, <2>1, <3>1, WaitTypes DEF Hopeful, Pending
    <3>2. CASE q # r
      BY <1>1, <1>2, <3>2, WaitTypes DEF WaitInv, Hopeful, Pending
    <3> QED BY <3>1, <3>2
  <2> QED BY <1>2, <2>2 DEF WaitInv
<1>3. CASE job' = [job EXCEPT ![r] = "done"] /\ Answer({r}, "error")
  <2>1. oneshot' = [q \in Requests |-> IF q = r /\ phase[q] = "waiting" THEN "error"
                                                                       ELSE oneshot[q]]
    BY <1>3 DEF Answer
  <2>2. ASSUME NEW q \in Requests PROVE Hopeful(q)'
    <3>1. CASE q = r
      BY <1>1, <1>3, <2>1, <3>1, WaitTypes DEF Hopeful, Pending
    <3>2. CASE q # r
      BY <1>1, <1>3, <2>1, <3>2, WaitTypes DEF WaitInv, Hopeful, Pending
    <3> QED BY <3>1, <3>2
  <2>3. oneshot' \in [Requests -> Answers]
    BY <2>1, WaitTypes DEF Answers
  <2> QED BY <2>2, <2>3 DEF WaitInv
<1> QED BY <1>2, <1>3 DEF Call, ThreadOf

\* A closure answers where its statement is prepared, whatever the outcome
\* (db/csv.rs and parquet.rs, the prepare of the statement).
LEMMA PrepareKeepsWait ==
  ASSUME CountInv, QueueInv, WaitInv, NEW r \in Requests, NEW c \in Connections, Prepare(c, r)
  PROVE  WaitInv'
<1>1. job[r] = "called" /\ UNCHANGED <<phase, connection, dead>>
  BY DEF Prepare, poolVars
<1>2. PICK answer \in {"ok", "error"} : Answer({r}, answer)
  BY DEF Prepare
<1>3. PICK j \in {"running", "done"} : job' = [job EXCEPT ![r] = j]
  BY DEF Prepare, Leave
<1>4. oneshot' = [q \in Requests |-> IF q = r /\ phase[q] = "waiting" THEN answer
                                                                     ELSE oneshot[q]]
  BY <1>2 DEF Answer
<1>5. ASSUME NEW q \in Requests PROVE Hopeful(q)'
  <2>1. CASE q = r
    BY <1>1, <1>3, <1>4, <2>1, WaitTypes DEF WaitInv, Hopeful, Pending
  <2>2. CASE q # r
    BY <1>1, <1>3, <1>4, <2>2, WaitTypes DEF WaitInv, Hopeful, Pending
  <2> QED BY <2>1, <2>2
<1>6. oneshot' \in [Requests -> Answers]
  BY <1>4, WaitTypes DEF Answers
<1> QED BY <1>5, <1>6 DEF WaitInv

\* A closure that returns has answered (db/csv.rs, the end of the closure).
LEMMA LeaveKeepsWait ==
  ASSUME CountInv, QueueInv, WaitInv, NEW r \in Requests, NEW c \in Connections,
         job[r] = "running", Leave(c, r), UNCHANGED <<phase, connection, dead, oneshot>>
  PROVE  WaitInv'
<1>1. job' = [job EXCEPT ![r] = "done"]
  BY DEF Leave
<1>2. ASSUME NEW q \in Requests PROVE Hopeful(q)'
  <2>1. CASE q = r
    BY <1>1, <2>1, WaitTypes DEF WaitInv, Hopeful, Pending
  <2>2. CASE q # r
    BY <1>1, <2>2, WaitTypes DEF WaitInv, Hopeful, Pending
  <2> QED BY <2>1, <2>2
<1> QED BY <1>2 DEF WaitInv

\* A thread that dies drops the closures behind the one that panicked, and their
\* oneshots with them; the one that panicked had answered (db/csv.rs).
LEMMA PanicKeepsWait ==
  ASSUME CountInv, QueueInv, WaitInv, NEW r \in Requests, NEW c \in Connections, Panic(c, r)
  PROVE  WaitInv'
<1>1. /\ job[r] = "running" /\ dead' = dead \cup {c}
      /\ job' = [q \in Requests |-> IF q \in Lost(c) THEN "done" ELSE job[q]]
      /\ UNCHANGED <<phase, connection>>
  BY DEF Panic, poolVars
<1>2. oneshot' = [q \in Requests |-> IF q \in Lost(c) \ {r} /\ phase[q] = "waiting"
                                       THEN "error" ELSE oneshot[q]]
  BY DEF Panic, Answer
<1>3. \A q \in Requests : q \in Lost(c) <=> In(calls[c], q)
  <2>1. calls[c] \in Seq(Requests)
    BY DEF QueueInv, QueueTypes
  <2>2. DOMAIN calls[c] = 1 .. Len(calls[c])
    BY <2>1, LenProperties
  <2> QED BY <2>2 DEF Lost, ToSet, In
<1>4. \A q \in Requests : In(calls[c], q) <=> Pending(q) /\ connection[q] = c /\ c \notin dead
  BY DEF QueueInv, Queued
<1>5. ASSUME NEW q \in Requests PROVE Hopeful(q)'
  <2>1. Hopeful(q)
    BY DEF WaitInv
  <2>2. CASE q \in Lost(c)
    <3>1. job'[q] = "done" /\ ~Pending(q)'
      BY <1>1, <2>2 DEF Pending
    <3>2. phase[q] = "waiting" => oneshot'[q] # "empty"
      <4>1. CASE q = r
        BY <1>1, <1>2, <2>1, <4>1 DEF Hopeful
      <4>2. CASE q # r
        BY <1>2, <2>2, <4>2
      <4> QED BY <4>1, <4>2
    <3> QED BY <1>1, <3>1, <3>2 DEF Hopeful
  <2>3. CASE q \notin Lost(c)
    <3>1. job'[q] = job[q] /\ oneshot'[q] = oneshot[q]
      BY <1>1, <1>2, <2>3
    <3>2. Pending(q) => connection[q] \notin dead'
      BY <1>1, <1>3, <1>4, <2>1, <2>3 DEF Hopeful
    <3> QED BY <1>1, <2>1, <3>1, <3>2 DEF Hopeful, Pending
  <2> QED BY <2>2, <2>3
<1>6. oneshot' \in [Requests -> Answers]
  BY <1>2, WaitTypes DEF Answers
<1> QED BY <1>5, <1>6 DEF WaitInv

\* Every step keeps what the requests wait for.
LEMMA WaitNext == CountInv /\ QueueInv /\ WaitInv /\ [Next]_vars => WaitInv'
<1> SUFFICES ASSUME CountInv, QueueInv, WaitInv, [Next]_vars PROVE WaitInv'
  OBVIOUS
<1>a. ASSUME NEW r \in Requests, NEW p \in Phases \ {"waiting", "streaming"},
             phase' = [phase EXCEPT ![r] = p]
      PROVE  \A q \in Requests : phase'[q] \in {"waiting", "streaming"} => phase'[q] = phase[q]
  BY <1>a, WaitTypes
<1>1. ASSUME NEW r \in Requests, Refuse(r) PROVE WaitInv'
  BY <1>1, <1>a, EndKeepsWait DEF Refuse, Phases, poolVars, jobVars
<1>2. ASSUME NEW r \in Requests, Dispatch(r) PROVE WaitInv'
  BY <1>2, DispatchKeepsWait
<1>3. ASSUME NEW r \in Requests, Serve(r) \/ Cancel(r) PROVE WaitInv'
  BY <1>3, ServeKeepsWait
<1>4. ASSUME NEW r \in Requests, Read(r) PROVE WaitInv'
  <2>1. UNCHANGED <<job, oneshot, connection, dead>>
    BY <1>4 DEF Read, PollItem, PollNone, poolVars, jobVars
  <2>2. \A q \in Requests : phase'[q] \in {"waiting", "streaming"} => phase'[q] = phase[q]
    BY <1>4, <1>a DEF Read, PollItem, PollNone, Phases
  <2> QED BY <2>1, <2>2, EndKeepsWait
<1>5. ASSUME NEW r \in Requests, Abandon(r) PROVE WaitInv'
  BY <1>5, <1>a, EndKeepsWait DEF Abandon, Phases, poolVars, jobVars
<1>6. ASSUME NEW r \in Requests, Call(r) PROVE WaitInv'
  BY <1>6, CallKeepsWait
<1>7. ASSUME NEW c \in Connections, NEW r \in Requests,
             Prepare(c, r) \/ Produce(c, r) \/ Fail(c, r) \/ Finish(c, r) \/ Panic(c, r)
      PROVE  WaitInv'
  <2>1. CASE Prepare(c, r)
    BY <2>1, PrepareKeepsWait
  <2>2. CASE Produce(c, r)
    BY <2>2, EndKeepsWait DEF Produce, poolVars
  <2>3. CASE Fail(c, r)
    BY <2>3, LeaveKeepsWait DEF Fail, poolVars
  <2>4. CASE Finish(c, r)
    BY <2>4, LeaveKeepsWait DEF Finish, poolVars
  <2>5. CASE Panic(c, r)
    BY <2>5, PanicKeepsWait
  <2> QED BY <1>7, <2>1, <2>2, <2>3, <2>4, <2>5
<1>8. CASE UNCHANGED vars
  BY <1>8, EndKeepsWait DEF vars, poolVars, jobVars
<1> QED BY <1>1, <1>2, <1>3, <1>4, <1>5, <1>6, <1>7, <1>8 DEF Next, Run, Terminated

\* The client of a full channel has something to receive: the items, or the answer
\* that came before them.
LEMMA BlockedHasNews ==
  ASSUME WaitInv, NEW r \in Requests, Blocked(r)
  PROVE  HasNews(r)
<1>1. job[r] = "running" /\ items[r] = ChannelCapacity /\ phase[r] \in {"waiting", "streaming"}
  BY DEF Blocked, Listening
<1>2. CASE phase[r] = "waiting"
  BY <1>1, <1>2 DEF WaitInv, Hopeful, HasNews
<1>3. CASE phase[r] = "streaming"
  BY <1>1, <1>3, ServerAssumption DEF HasNews
<1> QED BY <1>1, <1>2, <1>3

\* A request in flight has something to receive, or its closure is still to be
\* called, or is in the queue of a living thread that only a client with something
\* to receive can hold up, for any requests, pool and capacity (db/csv.rs,
\* query_as_csv_stream; handlers.rs, root).
THEOREM NobodyInVain == Spec => []NobodyWaitsInVain
<1>1. QueueInv /\ WaitInv => NobodyWaitsInVain
  <2> SUFFICES ASSUME QueueInv, WaitInv, NEW r \in InFlight, ~HasNews(r), job[r] # "spawned"
               PROVE  /\ connection[r] \notin dead /\ r \in ToSet(calls[connection[r]])
                      /\ LET head == Head(calls[connection[r]])
                         IN  Blocked(head) => HasNews(head)
    BY DEF NobodyWaitsInVain
  <2>1. r \in Requests /\ phase[r] \in {"waiting", "streaming"}
    BY DEF InFlight
  <2>2. Hopeful(r) /\ job[r] \in Jobs
    BY <2>1 DEF WaitInv, QueueInv, QueueTypes
  <2>3. Pending(r)
    BY <2>1, <2>2 DEF Hopeful, HasNews, Pending, Jobs
  <2>4. connection[r] \in Connections /\ connection[r] \notin dead
    BY <2>1, <2>2, <2>3 DEF QueueInv, Unsent, Hopeful, Pending
  <2> DEFINE queue == calls[connection[r]]
  <2>5. queue \in Seq(Requests) /\ Single(queue) /\ In(queue, r)
    BY <2>1, <2>3, <2>4 DEF QueueInv, QueueTypes, Queued
  <2>6. DOMAIN queue = 1 .. Len(queue)
    BY <2>5, LenProperties
  <2>7. r \in ToSet(queue) /\ queue # <<>>
    BY <2>5, <2>6, EmptySeq DEF In, ToSet
  <2>8. Head(queue) \in Requests
    BY <2>5, <2>7, TailIn
  <2>9. Blocked(Head(queue)) => HasNews(Head(queue))
    BY <2>8, BlockedHasNews
  <2> QED BY <2>4, <2>7, <2>9
<1>2. Init => CountInv /\ QueueInv /\ WaitInv
  BY CountInit, QueueInit, WaitInit
<1>3. CountInv /\ QueueInv /\ WaitInv /\ [Next]_vars => (CountInv /\ QueueInv /\ WaitInv)'
  BY CountNext, QueueNext, WaitNext
<1> QED BY <1>1, <1>2, <1>3, PTL DEF Spec

================================================================================
