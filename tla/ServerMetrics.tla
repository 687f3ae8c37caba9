----------------------------- MODULE ServerMetrics -----------------------------
(***************************************************************************)
(* The metrics tracker of src/src/metrics.rs: request_started and          *)
(* record_request, called by the handlers of concurrent requests, and      *)
(* `snapshot`, called by whoever asks for /api/metrics.                    *)
(*                                                                         *)
(* Each counter is an atomic of its own, updated and loaded with           *)
(* Ordering::Relaxed, and history, clients and recent_queries have a lock  *)
(* each; nothing is held across two of them.  A request's bytes, rows and  *)
(* duration are one `amount` here, and the counter of rows stands for that *)
(* of the duration too, which record_request updates next to it.           *)
(***************************************************************************)
EXTENDS Integers, Sequences, FiniteSets, SequencesExt

CONSTANTS
  Requests,     \* the requests there may be
  Readers,      \* the snapshots that may be taken
  Clients,      \* the addresses they may come from
  Events,       \* what record_request may be told of a request
  RingSize,     \* RING_BUFFER_SIZE
  MaxRecent,    \* MAX_RECENT_QUERIES
  InOrder,      \* Relaxed operations of a thread take effect in program order
  MaxLag,       \* bound: seconds a thread may lose on its way to the history
  MaxTime       \* bound: the last second of the clock

Event == [client : Clients, status : {200, 400, 500}, format : {"C", "P"}, amount : Nat]

ASSUME MetricsAssumption ==
  /\ Events \subseteq Event
  /\ RingSize \in Nat \ {0} /\ MaxRecent \in Nat \ {0}
  /\ InOrder \in BOOLEAN
  /\ MaxLag \in Nat
  /\ MaxTime \in Nat

Figures == {"total", "active", "successful", "failed", "csv", "parquet", "rows"}

VARIABLES
  clock,     \* SystemTime, in whole seconds
  stage,     \* where each request stands, see Stages
  event,     \* the RequestEvent of each request that has one
  todo,      \* the atomics a request has still to update
  second,    \* current_sec, as record_request has read it
  late,      \* history: the requests whose second had left the ring before
             \* they came to it
  counter,   \* the atomics
  history,   \* the ring of SecondBuckets
  clients,   \* the ClientStats, zero for a client without entry
  recent,    \* recent_queries, front first
  log,       \* history: the requests in the order they were logged
  reader,    \* where each snapshot stands, see ReaderSteps
  toLoad,    \* the atomics it has still to load
  view,      \* what it has gathered
  settled    \* history: the requests recorded before it began

requestVars == <<stage, event, todo, second, late>>
metrics == <<counter, history, clients, recent, log>>
readerVars == <<reader, toLoad, view, settled>>
vars == <<clock, requestVars, metrics, readerVars>>

\* new        not begun                    timed     has read the clock
\* starting   in request_started           bucketed  is in the history
\* running    elsewhere                    hosted    is in the client's figures
\* recording  updating the atomics         done      record_request is over
Stages == {"new", "starting", "running", "recording", "timed", "bucketed", "hosted", "done"}

ReaderSteps == {"idle", "loading", "timed", "history", "clients", "done"}

Zero == [requests |-> 0, amount |-> 0]

Init ==
  /\ clock = RingSize
  /\ stage = [r \in Requests |-> "new"]
  /\ event = [r \in {} |-> 0]
  /\ todo = [r \in Requests |-> <<>>]
  /\ second = [r \in Requests |-> 0]
  /\ late = {}
  /\ counter = [f \in Figures |-> 0]
  /\ history = [i \in 0 .. RingSize - 1 |-> [second |-> 0, requests |-> 0, amount |-> 0]]
  /\ clients = [c \in Clients |-> Zero]
  /\ recent = <<>> /\ log = <<>>
  /\ reader = [q \in Readers |-> "idle"]
  /\ toLoad = [q \in Readers |-> <<>>]
  /\ settled = [q \in Readers |-> {}]
  /\ view = [q \in Readers |->
       [figures |-> [f \in Figures |-> 0], now |-> 0, seen |-> 0, points |-> <<>>,
        clients |-> [c \in Clients |-> Zero], recent |-> <<>>]]

--------------------------------------------------------------------------------
\* The operations that may take effect next: the first, or any if the platform
\* reorders Relaxed operations.
Effective(ops) == {i \in DOMAIN ops : InOrder => i = 1}

Add(stats, amount) ==
  [stats EXCEPT !.requests = @ + 1, !.amount = @ + amount]

\* Mutant: request_started leaves the gauge alone.
StartedFigures_NoGauge == <<"total">>

StartedFigures == <<"total", "active">>

\* request_started begins.
Start(r) ==
  /\ stage[r] = "new"
  /\ stage' = [stage EXCEPT ![r] = "starting"]
  /\ todo' = [todo EXCEPT ![r] = StartedFigures]
  /\ UNCHANGED <<clock, event, second, late, metrics, readerVars>>

\* One fetch_add of request_started.
CountStarted(r) ==
  /\ stage[r] = "starting"
  /\ \E i \in Effective(todo[r]) :
       /\ counter' = [counter EXCEPT ![todo[r][i]] = @ + 1]
       /\ todo' = [todo EXCEPT ![r] = RemoveAt(@, i)]
  /\ stage' = [stage EXCEPT ![r] = IF todo'[r] = <<>> THEN "running" ELSE @]
  /\ UNCHANGED <<clock, event, second, late, history, clients, recent, log, readerVars>>

\* Mutant: a failed request is not taken out of the gauge.
RecordedFigures_KeepsActive(e) ==
  (IF e.status < 400 THEN <<"active", "successful">> ELSE <<"failed">>)
  \o <<IF e.format = "P" THEN "parquet" ELSE "csv", "rows">>

RecordedFigures(e) ==
  <<"active",
    IF e.status < 400 THEN "successful" ELSE "failed",
    IF e.format = "P" THEN "parquet" ELSE "csv",
    "rows">>

\* record_request begins: which atomics it updates depends on status and format.
Record(r) ==
  /\ stage[r] = "running"
  /\ \E e \in Events :
       /\ event' = [q \in DOMAIN event \cup {r} |-> IF q = r THEN e ELSE event[q]]
       /\ todo' = [todo EXCEPT ![r] = RecordedFigures(e)]
  /\ stage' = [stage EXCEPT ![r] = "recording"]
  /\ UNCHANGED <<clock, second, late, metrics, readerVars>>

\* What record_request adds to a counter.
Share(r, f) == IF f = "active" THEN -1
               ELSE IF f \in {"successful", "failed"} THEN 1 ELSE event[r].amount

\* One fetch_sub or fetch_add of record_request.
CountRecorded(r) ==
  /\ stage[r] = "recording"
  /\ \E i \in Effective(todo[r]) :
       /\ counter' = [counter EXCEPT ![todo[r][i]] = @ + Share(r, todo[r][i])]
       /\ todo' = [todo EXCEPT ![r] = RemoveAt(@, i)]
  /\ UNCHANGED <<clock, stage, event, second, late, history, clients, recent, log, readerVars>>

\* The clock is read before the lock of the history is taken.
ReadClock(r) ==
  /\ stage[r] = "recording" /\ todo[r] = <<>>
  /\ second' = [second EXCEPT ![r] = clock]
  /\ stage' = [stage EXCEPT ![r] = "timed"]
  /\ UNCHANGED <<clock, event, todo, late, metrics, readerVars>>

Slot(s) == s % RingSize

\* Mutant: the figures of an earlier round are added to.
BucketFor_NeverResets(bucket, sec) == [bucket EXCEPT !.second = sec]

\* A bucket of another second is taken over, an older one's or a newer one's.
BucketFor(bucket, sec) ==
  IF bucket.second = sec THEN bucket ELSE [second |-> sec, requests |-> 0, amount |-> 0]

\* Under the lock of the history.
UpdateHistory(r) ==
  /\ stage[r] = "timed"
  /\ history' = [history EXCEPT ![Slot(second[r])] =
                   Add(BucketFor(@, second[r]), event[r].amount)]
  /\ late' = IF clock - second[r] >= RingSize THEN late \union {r} ELSE late
  /\ stage' = [stage EXCEPT ![r] = "bucketed"]
  /\ UNCHANGED <<clock, event, todo, second, counter, clients, recent, log, readerVars>>

\* Under the lock of the clients.
UpdateClients(r) ==
  /\ stage[r] = "bucketed"
  /\ clients' = [clients EXCEPT ![event[r].client] = Add(@, event[r].amount)]
  /\ stage' = [stage EXCEPT ![r] = "hosted"]
  /\ UNCHANGED <<clock, event, todo, second, late, counter, history, recent, log, readerVars>>

\* Mutant: the newest entry makes room.
MakeRoom_PopFront(queries) == IF Len(queries) >= MaxRecent THEN Tail(queries) ELSE queries

\* The oldest entry makes room.
MakeRoom(queries) == IF Len(queries) >= MaxRecent THEN Front(queries) ELSE queries

\* Under the lock of the recent queries.
UpdateRecent(r) ==
  /\ stage[r] = "hosted"
  /\ recent' = <<r>> \o MakeRoom(recent)
  /\ log' = Append(log, r)
  /\ stage' = [stage EXCEPT ![r] = "done"]
  /\ UNCHANGED <<clock, event, todo, second, late, counter, history, clients, readerVars>>

--------------------------------------------------------------------------------
(* snapshot                                                                *)

Gather(q, part, value) == view' = [view EXCEPT ![q][part] = value]
ReaderAt(q, here, there) == reader[q] = here /\ reader' = [reader EXCEPT ![q] = there]

BeginSnapshot(q) ==
  /\ ReaderAt(q, "idle", "loading")
  /\ toLoad' = [toLoad EXCEPT ![q] =
       <<"total", "successful", "failed", "active", "csv", "parquet", "rows">>]
  /\ settled' = [settled EXCEPT ![q] = {r \in Requests : stage[r] = "done"}]
  /\ UNCHANGED <<clock, requestVars, metrics, view>>

LoadCounter(q) ==
  /\ reader[q] = "loading"
  /\ \E i \in Effective(toLoad[q]) :
       LET f == toLoad[q][i] IN
         /\ Gather(q, "figures", [view[q].figures EXCEPT ![f] = counter[f]])
         /\ toLoad' = [toLoad EXCEPT ![q] = RemoveAt(@, i)]
  /\ UNCHANGED <<clock, requestVars, metrics, reader, settled>>

SnapshotClock(q) ==
  /\ toLoad[q] = <<>>
  /\ ReaderAt(q, "loading", "timed")
  /\ Gather(q, "now", clock)
  /\ UNCHANGED <<clock, requestVars, metrics, toLoad, settled>>

\* The RingSize seconds up to now, oldest first; no second is before 0.
Window(now) == [k \in 1 .. RingSize |-> IF now + k > RingSize THEN now + k - RingSize ELSE 0]

\* Mutant: a bucket is shown for whatever second comes to its slot.
Point_AnyRound(s) == history[Slot(s)].requests

\* A bucket counts for a second only if it was last taken over in that second.
Point(s) == IF history[Slot(s)].second = s THEN history[Slot(s)].requests ELSE 0

\* Under the lock of the history, the chronological slice up to the time read.
ReadHistory(q) ==
  /\ ReaderAt(q, "timed", "history")
  /\ view' = [view EXCEPT ![q].seen = clock,
       ![q].points = [k \in 1 .. RingSize |-> Point(Window(view[q].now)[k])]]
  /\ UNCHANGED <<clock, requestVars, metrics, toLoad, settled>>

\* Mutant: the clients are those of the last snapshot.
ReadClients_Stale(q) ==
  /\ ReaderAt(q, "history", "clients")
  /\ UNCHANGED <<clock, requestVars, metrics, toLoad, view, settled>>

ReadClients(q) ==
  /\ ReaderAt(q, "history", "clients")
  /\ Gather(q, "clients", clients)
  /\ UNCHANGED <<clock, requestVars, metrics, toLoad, settled>>

ReadRecent(q) ==
  /\ ReaderAt(q, "clients", "done")
  /\ Gather(q, "recent", recent)
  /\ UNCHANGED <<clock, requestVars, metrics, toLoad, settled>>

--------------------------------------------------------------------------------
\* Time passes; nobody loses more than MaxLag seconds between reading the clock
\* and getting hold of the history.
Tick ==
  /\ clock < MaxTime
  /\ \A r \in Requests : stage[r] = "timed" => clock - second[r] < MaxLag
  /\ \A q \in Readers : reader[q] = "timed" => clock - view[q].now < MaxLag
  /\ clock' = clock + 1
  /\ UNCHANGED <<requestVars, metrics, readerVars>>

Handle(r) ==
  \/ Start(r) \/ CountStarted(r)
  \/ Record(r) \/ CountRecorded(r) \/ ReadClock(r)
  \/ UpdateHistory(r) \/ UpdateClients(r) \/ UpdateRecent(r)

Snapshot(q) ==
  \/ BeginSnapshot(q) \/ LoadCounter(q) \/ SnapshotClock(q)
  \/ ReadHistory(q) \/ ReadClients(q) \/ ReadRecent(q)

Next ==
  \/ \E r \in Requests : Handle(r)
  \/ \E q \in Readers : Snapshot(q)
  \/ Tick

Spec == Init /\ [][Next]_vars

--------------------------------------------------------------------------------
Stats == [requests : Nat, amount : Nat]

TypeOK ==
  /\ clock \in Nat
  /\ stage \in [Requests -> Stages]
  /\ \A r \in DOMAIN event : r \in Requests /\ event[r] \in Events
  /\ todo \in [Requests -> Seq(Figures)]
  /\ second \in [Requests -> Nat]
  /\ late \subseteq Requests
  /\ counter \in [Figures -> Nat]
  /\ history \in [0 .. RingSize - 1 -> [second : Nat, requests : Nat, amount : Nat]]
  /\ clients \in [Clients -> Stats]
  /\ recent \in Seq(Requests) /\ Len(recent) <= MaxRecent
  /\ log \in Seq(Requests)
  /\ reader \in [Readers -> ReaderSteps]
  /\ toLoad \in [Readers -> Seq(Figures)]
  /\ settled \in [Readers -> SUBSET Requests]

InStage(stages) == {r \in Requests : stage[r] \in stages}

\* The sum of the values of f, counted unit by unit.
Units(f) == UNION {{x} \X (1 .. f[x]) : x \in DOMAIN f}
Sum(f) == Cardinality(Units(f))

Amount(rs) == Sum([r \in rs |-> event[r].amount])
From(c) == {r \in InStage({"done"}) : event[r].client = c}

\* Whenever no request is inside request_started or record_request, all parts
\* agree, although none of them was updated together with another: the counters
\* add up, and the clients' figures add up to the counters (metrics.rs,
\* record_request).
AtRestConsistent ==
  InStage({"new", "running", "done"}) = Requests =>
    /\ counter["active"] = Cardinality(InStage({"running"}))
    /\ counter["total"] = counter["successful"] + counter["failed"] + counter["active"]
    /\ counter["rows"] = counter["csv"] + counter["parquet"]
    /\ counter["rows"] = Sum([c \in Clients |-> clients[c].amount])
    /\ \A c \in Clients : clients[c] = [requests |-> Cardinality(From(c)),
                                        amount |-> Amount(From(c))]

Bucketed(s) == {r \in InStage({"bucketed", "hosted", "done"}) : second[r] = s}

\* No late thread has been to the bucket of second s.
Undisturbed(s) == \A r \in late : Slot(second[r]) # Slot(s)

\* For each of the last RingSize seconds the ring holds exactly the requests
\* recorded in it: nobody takes over the bucket of a newer second or adds to that
\* of another one, unless a thread lost RingSize seconds between the clock and the
\* lock.  What such a thread disturbs is its own bucket alone, which may lack
\* requests then but never shows one of another second (metrics.rs,
\* record_request).
HistoryIsExact ==
  \A s \in clock - RingSize + 1 .. clock :
    LET b == history[Slot(s)]
        n == Cardinality(Bucketed(s))
        a == Amount(Bucketed(s))
    IN  /\ b.second = s => b.requests <= n /\ b.amount <= a
        /\ Undisturbed(s) /\ n > 0 => b = [second |-> s, requests |-> n, amount |-> a]

\* The log of recent queries holds the last MaxRecent requests to reach it,
\* newest first (metrics.rs, record_request).
RecentIsNewest ==
  recent = SubSeq(Reverse(log), 1, IF Len(log) < MaxRecent THEN Len(log) ELSE MaxRecent)

\* A point of a snapshot shows requests of its own second only, and all of those
\* that were recorded before the snapshot began, unless its second had left the
\* ring by the time the ring was read or a late thread was there (metrics.rs,
\* snapshot).
PointsAreTrue ==
  \A q \in Readers : reader[q] \in {"history", "clients", "done"} =>
    \A k \in 1 .. RingSize :
      LET s == Window(view[q].now)[k]
      IN  /\ view[q].points[k] <= Cardinality(Bucketed(s))
          /\ s > view[q].seen - RingSize /\ Undisturbed(s) =>
               view[q].points[k] >= Cardinality(settled[q] \cap Bucketed(s))

\* Whatever is recorded meanwhile, a snapshot accounts for every request that
\* was recorded before it began, in each of its parts (metrics.rs, snapshot).
SnapshotCoversSettled ==
  \A q \in Readers : reader[q] = "done" =>
    LET shown == view[q].figures
        before == settled[q]
    IN  /\ shown["successful"] + shown["failed"] >= Cardinality(before)
        /\ shown["csv"] + shown["parquet"] >= Amount(before)
        /\ shown["rows"] >= Amount(before)
        /\ \A c \in Clients :
             view[q].clients[c].requests >= Cardinality({r \in before : event[r].client = c})
        /\ before \subseteq ToSet(view[q].recent) \/ Len(view[q].recent) = MaxRecent
================================================================================
