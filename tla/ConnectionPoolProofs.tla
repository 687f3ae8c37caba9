------------------------- MODULE ConnectionPoolProofs -------------------------
(***************************************************************************)
(* Proofs about ConnectionPool: the pool is whole when it serves, what a   *)
(* request reads is no older than the request, headers are stale at most   *)
(* once for each change of the schema, and connections take turns.         *)
(***************************************************************************)
EXTENDS ConnectionPool, FiniteSetTheorems, TLAPS

Types ==
  /\ process \in {"opening", "binding", "bindingUI", "serving", "ended"}
  /\ argument \in Arguments
  /\ opened \in Nat /\ nextIndex \in Nat /\ version \in Nat
  /\ schema \in [Connections -> Int]
  /\ snapshot \in [Connections -> Int]
  /\ transaction \in [Connections -> BOOLEAN]
  /\ active \in [Connections -> SUBSET Requests]
  /\ stage \in [Requests -> {"new", "called", "prepared", "stepped", "ended"}]
  /\ connection \in [Requests -> Int]
  /\ asked \in [Requests -> Int]
  /\ header \in [Requests -> Int]
  /\ seen \in [Requests -> Int]

\* Requests are sent only to connections that are open, all of which are once
\* the listeners are being bound.
Pooled ==
  /\ opened <= ConnectionCount
  /\ process \in {"binding", "bindingUI", "serving"} => opened = ConnectionCount
  /\ \A r \in Requests :
       stage[r] # "new" => process = "serving" /\ connection[r] \in 0 .. opened - 1

Running(r) == stage[r] \in {"prepared", "stepped"}

\* A connection runs one closure at a time, and its statement is the only active
\* one.
Exclusive ==
  /\ \A r, q \in Requests :
       Running(r) /\ Running(q) /\ connection[r] = connection[q] => r = q
  /\ \A c \in Connections : \A r \in active[c] : stage[r] = "stepped" /\ connection[r] = c

\* A snapshot is held by a statement or a transaction of a server that serves, and
\* is of the schema the connection has read last, which is never ahead of the
\* database.
Sessions ==
  \A c \in Connections :
    /\ schema[c] <= version
    /\ snapshot[c] # None =>
         /\ process = "serving" /\ snapshot[c] = schema[c]
         /\ active[c] # {} \/ transaction[c]

\* A prepared statement has the schema of its connection, and no result is newer
\* than that.
Headers ==
  \A r \in Requests :
    /\ asked[r] <= version
    /\ stage[r] = "prepared" => header[r] = schema[connection[r]]
    /\ seen[r] # None => stage[r] \in {"stepped", "ended"} /\ seen[r] <= schema[connection[r]]

IInv == Types /\ Pooled /\ Exclusive /\ Sessions /\ Headers /\ StaleHeaderOnce

--------------------------------------------------------------------------------
\* Every command line opens at least one connection (pool.rs, open_pool).
LEMMA CountType ==
  ASSUME Types
  PROVE  /\ ConnectionCount \in Nat \ {0}
         /\ ConnectionCount = (IF argument > 0 THEN argument ELSE Parallelism)
         /\ 0 .. ConnectionCount - 1 \subseteq Connections
<1>1. argument \in Arguments /\ argument \in Nat /\ Parallelism \in Nat \ {0}
  BY PoolAssumption DEF Types
<1>2. ConnectionCount = IF argument > 0 THEN argument ELSE Parallelism
  BY <1>1 DEF ConnectionCount
<1>3. ConnectionCount \in Nat \ {0} /\ ConnectionCount \in Arguments \cup {Parallelism}
  BY <1>1, <1>2
<1>4. 0 .. ConnectionCount - 1 \subseteq Connections
  <2> HIDE DEF ConnectionCount
  <2> QED BY <1>3 DEF Connections
<1> QED BY <1>2, <1>3, <1>4

\* A request that has been sent has a connection of the pool.
LEMMA GivenType ==
  ASSUME Types, Pooled, NEW r \in Requests, stage[r] # "new"
  PROVE  /\ connection[r] \in Connections
         /\ process = "serving" /\ opened = ConnectionCount
BY CountType DEF Types, Pooled

\* The turn of a connection is one of those that are open (pool.rs,
\* get_connection).
LEMMA TurnType ==
  ASSUME Types, Pooled, process = "serving"
  PROVE  nextIndex % opened \in 0 .. opened - 1 /\ IndexAfter(nextIndex) \in Nat
<1>1. opened \in Nat \ {0}
  BY CountType DEF Pooled
<1> QED BY <1>1, PoolAssumption DEF Types, IndexAfter

\* The invariant holds initially.
LEMMA InitIInv == Init => IInv
<1> SUFFICES ASSUME Init PROVE IInv
  OBVIOUS
<1>1. Types
  BY DEF Init, Types, None
<1>2. Pooled
  BY <1>1, CountType DEF Init, Pooled
<1>3. Exclusive /\ Sessions
  BY <1>1 DEF Init, Exclusive, Running, Sessions, Types, None
<1>4. Headers /\ StaleHeaderOnce
  BY DEF Init, Headers, StaleHeaderOnce, None
<1> QED BY <1>1, <1>2, <1>3, <1>4 DEF IInv

--------------------------------------------------------------------------------
(* One lemma for each kind of step.                                        *)

\* Startup touches no request, and only the connection it opens.
LEMMA StartKeepsInv == IInv /\ Start => IInv'
<1> SUFFICES ASSUME IInv, Start PROVE IInv'
  OBVIOUS
<1> USE DEF IInv
<1>0. /\ UNCHANGED <<argument, nextIndex, version, requestVars, snapshot, transaction, active>>
      /\ process # "serving"
  BY DEF Start, OpenConnection, PoolIsOpen, Bind, StartFails, StartKeeps, sessionVars
<1>1. \A r \in Requests : stage[r] = "new"
  BY <1>0 DEF Pooled
<1>2. /\ opened' \in Nat /\ opened' <= ConnectionCount
      /\ process' \in {"binding", "bindingUI", "serving"} => opened' = ConnectionCount
      /\ process' \in {"opening", "binding", "bindingUI", "serving", "ended"}
  BY CountType DEF Start, OpenConnection, PoolIsOpen, Bind, StartFails, Types, Pooled
<1>3. schema' \in [Connections -> Int] /\ \A c \in Connections : schema'[c] \in {schema[c], version}
  BY DEF Start, OpenConnection, PoolIsOpen, Bind, StartFails, Types, sessionVars
<1>4. Types'
  BY <1>0, <1>2, <1>3 DEF Types, requestVars
<1>5. Pooled'
  BY <1>0, <1>1, <1>2 DEF Pooled, requestVars, ConnectionCount
<1>6. Exclusive'
  BY <1>0 DEF Exclusive, Running, requestVars
<1>7. Sessions'
  BY <1>0, <1>3 DEF Sessions, Types
<1>8. Headers' /\ StaleHeaderOnce'
  BY <1>0, <1>1 DEF Headers, StaleHeaderOnce, requestVars
<1> QED BY <1>4, <1>5, <1>6, <1>7, <1>8

\* A request is sent to an open connection, and nothing else changes.
LEMMA DispatchKeepsInv ==
  ASSUME IInv, NEW r \in Requests, Dispatch(r)
  PROVE  IInv'
<1> USE DEF IInv
<1>0. /\ process = "serving" /\ stage[r] = "new"
      /\ stage' = [stage EXCEPT ![r] = "called"]
      /\ connection' = [connection EXCEPT ![r] = nextIndex % opened]
      /\ nextIndex' = IndexAfter(nextIndex)
      /\ asked' = [asked EXCEPT ![r] = version]
      /\ UNCHANGED <<process, argument, opened, version, schema, snapshot, transaction, active, header, seen>>
  BY DEF Dispatch, startVars, sessionVars
<1>1. nextIndex % opened \in 0 .. opened - 1 /\ nextIndex' \in Nat
  BY <1>0, TurnType
<1>2. Types'
  BY <1>0, <1>1 DEF Types
<1>3. Pooled'
  BY <1>0, <1>1 DEF Pooled, Types, ConnectionCount
<1>4. Exclusive'
  BY <1>0 DEF Exclusive, Running, Types
<1>5. Sessions'
  BY <1>0 DEF Sessions
<1>6. Headers' /\ StaleHeaderOnce'
  BY <1>0 DEF Headers, StaleHeaderOnce, Types
<1> QED BY <1>2, <1>3, <1>4, <1>5, <1>6

\* A statement is prepared while its connection is idle.
LEMMA PrepareKeepsInv ==
  ASSUME IInv, NEW r \in Requests, Prepare(r)
  PROVE  IInv'
<1> USE DEF IInv
<1> DEFINE c == connection[r]
<1>0. /\ stage[r] = "called" /\ Idle(c)
      /\ UNCHANGED <<startVars, nextIndex, version, connection, asked, snapshot, transaction, active, seen>>
  BY DEF Prepare, RequestKeeps
<1>1. PICK v \in {schema[c], Visible(c)} :
        /\ schema' = [schema EXCEPT ![c] = v]
        /\ \/ /\ stage' = [stage EXCEPT ![r] = "prepared"]
              /\ header' = [header EXCEPT ![r] = v]
           \/ /\ stage' = [stage EXCEPT ![r] = "ended"]
              /\ UNCHANGED header
  BY DEF Prepare
<1>2. c \in Connections
  BY <1>0, GivenType
<1>3. /\ v \in Int /\ schema[c] <= v /\ v <= version
      /\ snapshot[c] # None => v = snapshot[c]
  BY <1>2 DEF Visible, Sessions, Types
<1> HIDE DEF c
<1>4. Types'
  BY <1>0, <1>1, <1>3 DEF Types, startVars
<1>5. Pooled'
  BY <1>0, <1>1 DEF Pooled, Types, ConnectionCount, startVars
<1>6. Exclusive'
  BY <1>0, <1>1 DEF Exclusive, Running, Types, Idle, c
<1>7. Sessions'
  BY <1>0, <1>1, <1>2, <1>3 DEF Sessions, Types, startVars
<1>8. Headers'
  BY <1>0, <1>1, <1>2, <1>3 DEF Headers, Types, Idle, Pooled, c
<1>9. StaleHeaderOnce'
  BY <1>0, <1>1 DEF StaleHeaderOnce, Headers, Types
<1> QED BY <1>4, <1>5, <1>6, <1>7, <1>8, <1>9

\* What the first step of a statement reads: the snapshot the session holds, or
\* the newest version.
LEMMA VisibleType ==
  ASSUME IInv, NEW c \in Connections
  PROVE  /\ Visible(c) \in Int /\ schema[c] <= Visible(c) /\ Visible(c) <= version
         /\ Visible(c) = version \/ (Visible(c) = schema[c] /\ Visible(c) = snapshot[c])
BY DEF IInv, Visible, Sessions, Types

\* The first step of a query. Its header is stale only if the schema of the
\* connection was, in which case nobody has read this version on it before.
LEMMA SelectKeepsInv ==
  ASSUME IInv, NEW r \in Requests, Select(r)
  PROVE  IInv'
<1> USE DEF IInv
<1> DEFINE c == connection[r]
           v == Visible(c)
<1>0. /\ stage[r] = "prepared"
      /\ UNCHANGED <<startVars, nextIndex, version, connection, asked, transaction, header>>
  BY DEF Select, RequestKeeps
<1>1. c \in Connections
  BY <1>0, GivenType
<1>2. /\ v \in Int /\ schema[c] <= v /\ v <= version
      /\ v = version \/ (v = schema[c] /\ v = snapshot[c])
  BY <1>1, VisibleType
<1>3. CASE stage' = [stage EXCEPT ![r] = "ended"] /\ UNCHANGED <<seen, snapshot, schema, active>>
  <2>1. Types'
    BY <1>0, <1>3 DEF Types, startVars
  <2>2. Pooled'
    BY <1>0, <1>3 DEF Pooled, Types, ConnectionCount, startVars
  <2>3. Exclusive' /\ Sessions'
    BY <1>0, <1>3 DEF Exclusive, Running, Sessions, Types, startVars
  <2>4. Headers' /\ StaleHeaderOnce'
    BY <1>0, <1>3 DEF Headers, StaleHeaderOnce, Types
  <2> QED BY <2>1, <2>2, <2>3, <2>4
<1>4. CASE /\ stage' = [stage EXCEPT ![r] = "stepped"]
           /\ seen' = [seen EXCEPT ![r] = v]
           /\ snapshot' = [snapshot EXCEPT ![c] = v]
           /\ schema' = [schema EXCEPT ![c] = v]
           /\ active' = [active EXCEPT ![c] = @ \cup {r}]
  <2> HIDE DEF v
  <2>1. Types'
    BY <1>0, <1>1, <1>2, <1>4 DEF Types, startVars
  <2>2. Pooled'
    BY <1>0, <1>4 DEF Pooled, Types, ConnectionCount, startVars
  <2>3. Exclusive'
    BY <1>0, <1>1, <1>4 DEF Exclusive, Running, Types
  <2>4. Sessions'
    BY <1>0, <1>1, <1>2, <1>4, GivenType DEF Sessions, Types, startVars
  <2>5. Headers'
    BY <1>0, <1>1, <1>2, <1>4 DEF Headers, Types, Exclusive, Running
  <2>6. header[r] # v => \A q \in Requests : seen[q] # None /\ connection[q] = c => seen[q] # v
    BY <1>0, <1>2 DEF Headers, Types
  <2>7. StaleHeaderOnce'
    BY <1>0, <1>4, <2>6 DEF StaleHeaderOnce, Types
  <2> QED BY <2>1, <2>2, <2>3, <2>4, <2>5, <2>7
<1> QED BY <1>3, <1>4 DEF Select

\* A closure ends, and with it its statement, or the transaction it began or
\* committed: the snapshot goes unless something still holds it.
LEMMA EndKeepsInv ==
  ASSUME IInv, NEW r \in Requests, BeginOrCommit(r) \/ Stop(r) \/ Exhaust(r)
  PROVE  IInv'
<1> USE DEF IInv
<1> DEFINE c == connection[r]
<1>0. /\ Running(r) /\ stage' = [stage EXCEPT ![r] = "ended"]
      /\ UNCHANGED <<startVars, nextIndex, version, connection, asked, schema, header, seen>>
      /\ Release(c)
  BY DEF BeginOrCommit, Stop, Exhaust, RequestKeeps, Running
<1>1. c \in Connections
  BY <1>0, GivenType DEF Running
<1>2. /\ active' = active \/ active' = [active EXCEPT ![c] = @ \ {r}]
      /\ stage[r] = "stepped" => active' = [active EXCEPT ![c] = @ \ {r}]
  BY DEF BeginOrCommit, Stop, Exhaust, Finalize
<1>3. /\ transaction' \in [Connections -> BOOLEAN]
      /\ \A d \in Connections \ {c} : transaction'[d] = transaction[d]
  BY DEF BeginOrCommit, Stop, Exhaust, Types
<1>4. snapshot' = [snapshot EXCEPT ![c] = IF active'[c] = {} /\ ~transaction'[c] THEN None ELSE @]
  BY <1>0 DEF Release
<1> HIDE DEF c
<1>5. Types'
  <2>1. active' \in [Connections -> SUBSET Requests]
    BY <1>1, <1>2 DEF Types
  <2>2. snapshot' \in [Connections -> Int]
    BY <1>1, <1>4 DEF Types, None
  <2> QED BY <1>0, <1>3, <2>1, <2>2 DEF Types, startVars
<1>6. Pooled'
  BY <1>0 DEF Pooled, Types, ConnectionCount, startVars, Running
<1>7. Exclusive'
  BY <1>0, <1>1, <1>2 DEF Exclusive, Running, Types, c
<1>8. Sessions'
  BY <1>0, <1>1, <1>2, <1>3, <1>4 DEF Sessions, Types, startVars
<1>9. Headers' /\ StaleHeaderOnce'
  BY <1>0 DEF Headers, StaleHeaderOnce, Types, Running
<1> QED BY <1>5, <1>6, <1>7, <1>8, <1>9

\* Another program's commit only makes the database newer.
LEMMA OutsideKeepsInv == IInv /\ OutsideCommit => IInv'
<1> SUFFICES ASSUME IInv, OutsideCommit PROVE IInv'
  OBVIOUS
<1> USE DEF IInv
<1>0. /\ version' = version + 1
      /\ UNCHANGED <<startVars, nextIndex, sessionVars, requestVars>>
  BY DEF OutsideCommit
<1>1. Types' /\ Pooled'
  BY <1>0 DEF Types, Pooled, ConnectionCount, startVars, sessionVars, requestVars
<1>2. Exclusive' /\ Sessions'
  BY <1>0 DEF Exclusive, Running, Sessions, Types, startVars, sessionVars, requestVars
<1>3. Headers' /\ StaleHeaderOnce'
  BY <1>0 DEF Headers, StaleHeaderOnce, Types, sessionVars, requestVars
<1> QED BY <1>1, <1>2, <1>3

\* The invariant is inductive.
LEMMA StepIInv == IInv /\ [Next]_vars => IInv'
<1> SUFFICES ASSUME IInv, [Next]_vars PROVE IInv'
  OBVIOUS
<1>1. CASE Start
  BY <1>1, StartKeepsInv
<1>2. ASSUME NEW r \in Requests, Dispatch(r) \/ Run(r) PROVE IInv'
  BY <1>2, DispatchKeepsInv, PrepareKeepsInv, SelectKeepsInv, EndKeepsInv DEF Run
<1>3. CASE OutsideCommit
  BY <1>3, OutsideKeepsInv
<1>4. CASE UNCHANGED vars
  BY <1>4 DEF IInv, Types, Pooled, Exclusive, Running, Sessions, Headers, StaleHeaderOnce,
              ConnectionCount, vars, startVars, sessionVars, requestVars
<1> QED BY <1>1, <1>2, <1>3, <1>4 DEF Next, Terminated

\* The invariant holds throughout.
LEMMA Invariance == Spec => []IInv
BY InitIInv, StepIInv, PTL DEF Spec

--------------------------------------------------------------------------------
\* A server that serves has its whole pool, which is never empty, and every
\* request has an open connection, for every command line (pool.rs, open_pool
\* and get_connection).
THEOREM WholePool == Spec => []ServesWithWholePool
<1>1. IInv => ServesWithWholePool
  BY CountType DEF IInv, Pooled, ServesWithWholePool, Types
<1> QED BY <1>1, Invariance, PTL

\* Of the requests that read one version on one connection, at most one has the
\* column names of an older one (csv.rs, write_csv_results).
THEOREM StaleHeaders == Spec => []StaleHeaderOnce
<1>1. IInv => StaleHeaderOnce
  BY DEF IInv
<1> QED BY <1>1, Invariance, PTL

\* A request reads what was committed before it was sent, unless its connection
\* has a transaction open (raw_statement.rs, drop).
THEOREM Freshness == Spec => FreshRead
<1> DEFINE Fresh == \A r \in Requests :
             seen'[r] # seen[r] /\ seen'[r] < asked[r] => transaction[connection[r]]
<1>1. ASSUME IInv, [Next]_vars, NEW r \in Requests, seen'[r] # seen[r], seen'[r] < asked[r]
      PROVE  transaction[connection[r]]
  <2>1. PICK q \in Requests : Select(q) /\ seen' # seen
    BY <1>1 DEF Next, Start, OpenConnection, PoolIsOpen, Bind, StartFails, StartKeeps, Dispatch,
         Run, Prepare, BeginOrCommit, Stop, Exhaust, OutsideCommit, Terminated, RequestKeeps,
         vars, requestVars
  <2>2. q = r /\ stage[r] = "prepared" /\ seen'[r] = Visible(connection[r])
    BY <1>1, <2>1 DEF Select, IInv, Types
  <2>3. connection[r] \in Connections
    BY <1>1, <2>2, GivenType DEF IInv
  <2>4. snapshot[connection[r]] # None
    BY <1>1, <2>2 DEF IInv, Headers, Types, Visible
  <2>5. active[connection[r]] = {}
    BY <1>1, <2>2, <2>3 DEF IInv, Exclusive, Running, Types
  <2> QED BY <1>1, <2>3, <2>4, <2>5 DEF IInv, Sessions
<1>2. IInv /\ [Next]_vars => [Fresh]_vars
  BY <1>1
<1> QED BY <1>2, Invariance, PTL DEF Spec, FreshRead

--------------------------------------------------------------------------------
(* Turns. In each round of IndexRange requests the connections before the  *)
(* one whose turn it is are one request ahead; a round that ends in the    *)
(* middle of a turn leaves them ahead for good.                            *)

Turn == nextIndex % opened

\* The connection has had its turn in the current round through the pool.
Ahead(c) == IF c < Turn THEN 1 ELSE 0

\* After so many wraps of the index, the connections differ by no more than that,
\* the current round through the pool aside.
Even(wraps) ==
  \A c, d \in 0 .. opened - 1 :
    Cardinality(Given(c)) - Ahead(c) <= Cardinality(Given(d)) - Ahead(d) + wraps

Turns ==
  /\ nextIndex \in 0 .. IndexRange - 1
  /\ IsFiniteSet(Dispatched)
  /\ \A r \in Requests : stage[r] = "new" => connection[r] = None
  /\ \E wraps \in Nat : /\ Cardinality(Dispatched) = wraps * IndexRange + nextIndex
                        /\ Even(wraps)

\* What a connection was given are requests that were sent.
LEMMA GivenFinite ==
  ASSUME Turns, NEW c \in Nat
  PROVE  /\ Given(c) \subseteq Dispatched
         /\ IsFiniteSet(Given(c)) /\ Cardinality(Given(c)) \in Nat
<1>1. Given(c) \subseteq Dispatched
  BY DEF Turns, Given, Dispatched, None
<1> QED BY <1>1, FS_Subset, FS_CardinalityType DEF Turns

\* Before the first request it is the first connection's turn.
LEMMA NobodySent ==
  ASSUME \A r \in Requests : stage[r] = "new" /\ connection[r] = None, nextIndex = 0,
         opened \in Nat
  PROVE  Turns
<1>1. Dispatched = {} /\ \A c \in Nat : Given(c) = {}
  BY DEF Dispatched, Given, None
<1>2. IsFiniteSet(Dispatched) /\ Cardinality(Dispatched) = 0
  BY <1>1, FS_EmptySet
<1>3. \A c \in Nat : Cardinality(Given(c)) = 0
  BY <1>1, FS_EmptySet
<1>4. opened > 0 => Turn = 0
  BY DEF Turn
<1>5. Even(0)
  <2> SUFFICES ASSUME NEW c \in 0 .. opened - 1, NEW d \in 0 .. opened - 1
               PROVE  Cardinality(Given(c)) - Ahead(c) <= Cardinality(Given(d)) - Ahead(d) + 0
    BY DEF Even
  <2>1. Ahead(c) = 0 /\ Ahead(d) = 0
    BY <1>4 DEF Ahead
  <2> QED BY <1>3, <2>1
<1>6. 0 \in 0 .. IndexRange - 1 /\ 0 = 0 * IndexRange + 0 /\ 0 \in Nat
  BY PoolAssumption
<1> QED BY <1>2, <1>5, <1>6 DEF Turns

\* The next turn is that of the next connection, or of the first.
LEMMA TurnMoves ==
  ASSUME NEW n \in Nat \ {0}, NEW i \in Nat
  PROVE  (i + 1) % n = IF (i % n) + 1 = n THEN 0 ELSE (i % n) + 1
<1> DEFINE p == i \div n
           m == i % n
<1>1. i = n * p + m /\ m \in 0 .. n - 1 /\ p \in Nat
  OBVIOUS
<1> HIDE DEF p, m
<1>2. CASE m + 1 = n
  <2>1. i + 1 = n * (p + 1) + 0
    BY <1>1, <1>2
  <2>2. (n * (p + 1) + 0) % n = 0
    BY <1>1
  <2> QED BY <1>2, <2>1, <2>2 DEF m
<1>3. CASE m + 1 # n
  <2>1. i + 1 = n * p + (m + 1) /\ m + 1 \in 0 .. n - 1
    BY <1>1, <1>3
  <2>2. (n * p + (m + 1)) % n = m + 1
    BY <1>1, <2>1
  <2> QED BY <1>3, <2>1, <2>2 DEF m
<1> QED BY <1>2, <1>3

\* A request that is sent takes the turn (pool.rs, get_connection).
LEMMA DispatchKeepsTurns ==
  ASSUME IInv, Turns, NEW r \in Requests, Dispatch(r)
  PROVE  Turns'
<1>1. /\ process = "serving" /\ stage[r] = "new"
      /\ stage' = [stage EXCEPT ![r] = "called"]
      /\ connection' = [connection EXCEPT ![r] = Turn]
      /\ nextIndex' = (nextIndex + 1) % IndexRange
      /\ UNCHANGED opened
  BY DEF Dispatch, startVars, IndexAfter, Turn
<1>2. opened \in Nat \ {0} /\ Turn \in 0 .. opened - 1
  <2>1. opened \in Nat \ {0}
    BY <1>1, CountType DEF IInv, Types, Pooled
  <2> QED BY <1>1, <2>1, TurnType DEF IInv, Turn
<1>3. PICK n, m, i, wraps \in Nat :
        /\ n = opened /\ m = Turn /\ i = nextIndex
        /\ Cardinality(Dispatched) = wraps * IndexRange + nextIndex
        /\ Even(wraps)
  <2>1. opened \in Nat /\ Turn \in Nat /\ nextIndex \in Nat
    BY <1>2, PoolAssumption DEF Turns
  <2> QED BY <2>1 DEF Turns
<1>n. PICK next \in Nat : next = IF m + 1 = n THEN 0 ELSE m + 1
  OBVIOUS
<1>4. /\ n \in Nat \ {0} /\ m \in 0 .. n - 1 /\ m = i % n /\ i \in 0 .. IndexRange - 1
      /\ IndexRange \in Nat \ {0} /\ i \in Nat
  BY <1>2, <1>3, PoolAssumption DEF Turns, Turn
<1>5. Dispatched' = Dispatched \cup {r} /\ r \notin Dispatched
  BY <1>1 DEF Dispatched, IInv, Types
<1>6. IsFiniteSet(Dispatched') /\ Cardinality(Dispatched') = Cardinality(Dispatched) + 1
  BY <1>5, FS_AddElement DEF Turns
<1>7. \A q \in Requests : stage'[q] = "new" => connection'[q] = None
  BY <1>1 DEF Turns, IInv, Types
<1>8. ASSUME NEW c \in 0 .. n - 1
      PROVE  /\ Cardinality(Given(c)) \in Nat /\ Cardinality(Given(c)') \in Nat
             /\ Cardinality(Given(c)') = IF c = m THEN Cardinality(Given(c)) + 1
                                                   ELSE Cardinality(Given(c))
  <2>1. IsFiniteSet(Given(c)) /\ Cardinality(Given(c)) \in Nat
    BY <1>4, GivenFinite
  <2>2. CASE c = m
    <3>1. Given(c)' = Given(c) \cup {r} /\ r \notin Given(c)
      BY <1>1, <1>2, <1>3, <2>2 DEF Given, IInv, Types, Turns, None
    <3> QED BY <2>1, <2>2, <3>1, FS_AddElement
  <2>3. CASE c # m
    <3>1. Given(c)' = Given(c)
      BY <1>1, <1>2, <1>3, <1>4, <2>3 DEF Given, IInv, Types, Turns, None
    <3> QED BY <2>1, <2>3, <3>1
  <2> QED BY <2>2, <2>3
<1>9. ASSUME NEW c \in 0 .. n - 1, NEW d \in 0 .. n - 1
      PROVE  /\ Cardinality(Given(c)') - (IF c < next THEN 1 ELSE 0) <=
                  Cardinality(Given(d)') - (IF d < next THEN 1 ELSE 0) + wraps
             /\ Cardinality(Given(c)') - 0 <= Cardinality(Given(d)') - 0 + (wraps + 1)
  <2>1. PICK x, y, u, v \in Nat :
          /\ x = Cardinality(Given(c)) /\ y = Cardinality(Given(d))
          /\ u = Cardinality(Given(c)') /\ v = Cardinality(Given(d)')
    BY <1>8
  <2>2. x - (IF c < m THEN 1 ELSE 0) <= y - (IF d < m THEN 1 ELSE 0) + wraps
    BY <1>3, <2>1 DEF Even, Ahead
  <2>3. u = (IF c = m THEN x + 1 ELSE x) /\ v = (IF d = m THEN y + 1 ELSE y)
    BY <1>8, <2>1
  <2>4. c \in Nat /\ d \in Nat /\ c < n /\ d < n
    BY <1>4
  <2>5. /\ u - (IF c < next THEN 1 ELSE 0) <= v - (IF d < next THEN 1 ELSE 0) + wraps
        /\ u - 0 <= v - 0 + (wraps + 1)
    <3>1. CASE m + 1 = n
      <4>1. next = 0
        BY <1>n, <3>1
      <4> QED BY <2>2, <2>3, <2>4, <3>1, <4>1
    <3>2. CASE m + 1 # n
      <4>1. next = m + 1
        BY <1>n, <3>2
      <4> QED BY <2>2, <2>3, <2>4, <3>2, <4>1
    <3> QED BY <3>1, <3>2
  <2> QED BY <2>1, <2>5
<1>13. CASE i + 1 # IndexRange
  <2>1. nextIndex' = i + 1 /\ nextIndex' \in 0 .. IndexRange - 1
    BY <1>1, <1>3, <1>4, <1>13
  <2>2. Turn' = next
    <3>1. Turn' = (i + 1) % n
      BY <1>1, <1>3, <2>1 DEF Turn
    <3> QED BY <1>4, <1>n, <3>1, TurnMoves
  <2>3. Even(wraps)'
    BY <1>1, <1>3, <1>9, <2>2 DEF Even, Ahead
  <2>4. Cardinality(Dispatched') = wraps * IndexRange + nextIndex'
    BY <1>3, <1>4, <1>6, <2>1
  <2> QED BY <1>6, <1>7, <2>1, <2>3, <2>4 DEF Turns
<1>14. CASE i + 1 = IndexRange
  <2>1. nextIndex' = 0 /\ nextIndex' \in 0 .. IndexRange - 1
    BY <1>1, <1>3, <1>4, <1>14
  <2>2. Turn' = 0
    BY <1>1, <1>3, <1>4, <2>1 DEF Turn
  <2>3. Even(wraps + 1)'
    BY <1>1, <1>3, <1>9, <2>2 DEF Even, Ahead
  <2>4. Cardinality(Dispatched') = (wraps + 1) * IndexRange + nextIndex' /\ wraps + 1 \in Nat
    BY <1>3, <1>4, <1>6, <1>14, <2>1
  <2> QED BY <1>6, <1>7, <2>1, <2>3, <2>4 DEF Turns
<1> QED BY <1>13, <1>14

\* Every step keeps the turns.
LEMMA TurnsNext == IInv /\ Turns /\ [Next]_vars => Turns'
<1> SUFFICES ASSUME IInv, Turns, [Next]_vars PROVE Turns'
  OBVIOUS
<1>1. ASSUME UNCHANGED <<nextIndex, opened, connection>>,
             \A r \in Requests : stage'[r] = "new" <=> stage[r] = "new"
      PROVE  Turns'
  <2>1. Dispatched' = Dispatched /\ \A c : Given(c)' = Given(c)
    BY <1>1 DEF Dispatched, Given
  <2> QED BY <1>1, <2>1 DEF Turns, Even, Ahead, Turn
<1>2. CASE Start
  <2>1. UNCHANGED <<nextIndex, requestVars>> /\ process # "serving"
    BY <1>2 DEF Start, OpenConnection, PoolIsOpen, Bind, StartFails, StartKeeps
  <2>2. \A r \in Requests : stage[r] = "new"
    BY <2>1 DEF IInv, Pooled
  <2>3. \A r \in Requests : stage'[r] = "new" /\ connection'[r] = None
    BY <2>1, <2>2 DEF Turns, requestVars
  <2>4. nextIndex' = 0
    <3>1. Dispatched = {}
      BY <2>2 DEF Dispatched
    <3>2. Cardinality(Dispatched) = 0
      BY <3>1, FS_EmptySet
    <3>3. PICK wraps \in Nat : 0 = wraps * IndexRange + nextIndex
      BY <3>2 DEF Turns
    <3>4. wraps * IndexRange \in Nat /\ nextIndex \in Nat
      BY PoolAssumption DEF Turns
    <3> QED BY <2>1, <3>3, <3>4
  <2>5. opened' \in Nat
    <3>1. IInv'
      BY <1>2, StartKeepsInv
    <3> QED BY <3>1 DEF IInv, Types
  <2>6. Dispatched' = {} /\ \A c \in Nat : Given(c)' = {}
    BY <2>3 DEF Dispatched, Given, None
  <2>7. Even(0)'
    <3> SUFFICES ASSUME NEW c \in 0 .. opened' - 1, NEW d \in 0 .. opened' - 1
                 PROVE  Cardinality(Given(c)') - Ahead(c)' <=
                          Cardinality(Given(d)') - Ahead(d)' + 0
      BY DEF Even
    <3>1. Turn' = 0
      <4>1. PICK n \in Nat : n = opened'
        BY <2>5
      <4>2. c \in 0 .. n - 1
        BY <4>1
      <4>3. n # 0 /\ 0 % n = 0
        BY <4>2
      <4> QED BY <2>4, <4>1, <4>3 DEF Turn
    <3>2. Ahead(c)' = 0 /\ Ahead(d)' = 0
      BY <2>5, <3>1 DEF Ahead
    <3>3. Given(c)' = {} /\ Given(d)' = {}
      BY <2>5, <2>6
    <3>4. Cardinality(Given(c)') = 0 /\ Cardinality(Given(d)') = 0
      BY <3>3, FS_EmptySet
    <3> QED BY <3>2, <3>4
  <2>8. IsFiniteSet(Dispatched') /\ Cardinality(Dispatched') = 0
    BY <2>6, FS_EmptySet
  <2>9. 0 \in 0 .. IndexRange - 1 /\ 0 = 0 * IndexRange + 0 /\ 0 \in Nat
    BY PoolAssumption
  <2> QED BY <2>3, <2>4, <2>7, <2>8, <2>9 DEF Turns
<1>3. ASSUME NEW r \in Requests, Dispatch(r) PROVE Turns'
  BY <1>3, DispatchKeepsTurns
<1>4. ASSUME NEW r \in Requests, Run(r) PROVE Turns'
  <2>1. UNCHANGED <<nextIndex, opened, connection>>
    BY <1>4 DEF Run, Prepare, Select, BeginOrCommit, Stop, Exhaust, RequestKeeps, startVars
  <2>2. \A q \in Requests : stage'[q] = "new" <=> stage[q] = "new"
    BY <1>4 DEF Run, Prepare, Select, BeginOrCommit, Stop, Exhaust, IInv, Types
  <2> QED BY <1>1, <2>1, <2>2
<1>5. CASE OutsideCommit
  BY <1>1, <1>5 DEF OutsideCommit, startVars, requestVars
<1>6. CASE UNCHANGED vars
  BY <1>1, <1>6 DEF vars, startVars, requestVars
<1> QED BY <1>2, <1>3, <1>4, <1>5, <1>6 DEF Next, Terminated

\* Connections take turns: none is more than one request ahead of another, and one
\* more for each time the index has wrapped, for every size of the pool and every
\* range of the index (pool.rs, get_connection).
THEOREM TakeTurns == Spec => []RoundRobin
<1>1. Init => Turns
  <2> SUFFICES ASSUME Init PROVE Turns
    OBVIOUS
  <2>1. nextIndex = 0 /\ opened \in Nat
        /\ \A r \in Requests : stage[r] = "new" /\ connection[r] = None
    BY DEF Init
  <2> QED BY <2>1, NobodySent
<1>2. IInv /\ Turns => RoundRobin
  <2> SUFFICES ASSUME IInv, Turns, NEW c \in 0 .. opened - 1, NEW d \in 0 .. opened - 1
               PROVE  Cardinality(Given(c)) <=
                        Cardinality(Given(d)) + 1 + Cardinality(Dispatched) \div IndexRange
    BY DEF RoundRobin
  <2>1. PICK wraps \in Nat : /\ Cardinality(Dispatched) = wraps * IndexRange + nextIndex
                             /\ Even(wraps)
    BY DEF Turns
  <2>2. Cardinality(Given(c)) - Ahead(c) <= Cardinality(Given(d)) - Ahead(d) + wraps
    BY <2>1 DEF Even
  <2>3. Cardinality(Given(c)) \in Nat /\ Cardinality(Given(d)) \in Nat
    BY GivenFinite DEF IInv, Types
  <2>4. Ahead(c) \in {0, 1} /\ Ahead(d) \in {0, 1}
    BY DEF Ahead
  <2>5. Cardinality(Dispatched) \div IndexRange = wraps
    <3>1. \A n \in Nat \ {0} : \A i \in 0 .. n - 1 : (wraps * n + i) \div n = wraps
      OBVIOUS
    <3> QED BY <2>1, <3>1, PoolAssumption DEF Turns
  <2> QED BY <2>2, <2>3, <2>4, <2>5
<1>3. IInv /\ Turns /\ [Next]_vars => Turns'
  BY TurnsNext
<1> QED BY <1>1, <1>2, <1>3, InitIInv, StepIInv, PTL DEF Spec
================================================================================
