---------------------------- MODULE ConnectionPool ----------------------------
(***************************************************************************)
(* From startup (src/src/main.rs, src/src/db/pool.rs) to the sessions of   *)
(* the pooled connections: a request runs on whichever connection is next, *)
(* and meets there what earlier requests left of the session, an open      *)
(* transaction above all, while some other program writes to the database. *)
(*                                                                         *)
(* A version of the database stands for its tables and their rows at once. *)
(* SQLite is external: a connection keeps the schema it has last read, by  *)
(* which statements are prepared; the first step of a statement takes a    *)
(* snapshot, which lasts until no statement and no transaction is left,    *)
(* and prepares the statement again if its schema is not that of the       *)
(* snapshot.                                                               *)
(***************************************************************************)
EXTENDS Integers, FiniteSets

CONSTANTS
  Requests,      \* the requests clients may send
  Arguments,     \* the values --connections may have, 0 when it is absent
  Parallelism,   \* available_parallelism, 1 if unknown
  IndexRange,    \* 2^64 in the code: next_index wraps around
  MaxVersion     \* bound: commits of the outside writer

ASSUME PoolAssumption ==
  /\ Arguments \subseteq Nat
  /\ Parallelism \in Nat \ {0} /\ IndexRange \in Nat \ {0}
  /\ MaxVersion \in Nat

None == -1
\* Those that some command line opens.
Connections == UNION {0 .. n - 1 : n \in Arguments \cup {Parallelism}}

VARIABLES
  process,      \* "opening", "binding", "bindingUI", "serving" or "ended"
  argument,     \* pool_size, as main passes it to open_pool
  opened,       \* connections opened and configured so far
  nextIndex,    \* the pool's next_index
  version,      \* the last version committed
  schema,       \* per connection: the version whose schema it has read last
  snapshot,     \* per connection: the version its read transaction sees, or None
  transaction,  \* per connection: whether a BEGIN is in force
  active,       \* per connection: the statements that have been stepped and are
                \* neither done nor finalized
  stage,        \* per request: "new", "called", "prepared", "stepped", "ended"
  sql,          \* per request: "SELECT", "BEGIN" or "COMMIT"
  connection,   \* per request: the connection it was given, or None
  asked,        \* per request: history, the version when it was dispatched
  header,       \* per request: the version its column names are of, or None
  seen          \* per request: the version its rows are of, or None

startVars == <<process, argument, opened>>
sessionVars == <<schema, snapshot, transaction, active>>
requestVars == <<stage, sql, connection, asked, header, seen>>
vars == <<startVars, nextIndex, version, sessionVars, requestVars>>

Init ==
  /\ process = "opening" /\ argument \in Arguments
  /\ opened = 0 /\ nextIndex = 0 /\ version = 0
  /\ schema = [c \in Connections |-> None]
  /\ snapshot = [c \in Connections |-> None]
  /\ transaction = [c \in Connections |-> FALSE]
  /\ active = [c \in Connections |-> {}]
  /\ stage = [r \in Requests |-> "new"]
  /\ sql = [r \in Requests |-> "SELECT"]
  /\ connection = [r \in Requests |-> None]
  /\ asked = [r \in Requests |-> None]
  /\ header = [r \in Requests |-> None]
  /\ seen = [r \in Requests |-> None]

--------------------------------------------------------------------------------
(* main, which any error ends.                                             *)

\* Mutant: without --connections, no connection.
ConnectionCount_AsGiven == argument

\* One connection for each core unless the command line says otherwise.
ConnectionCount == IF argument = 0 THEN Parallelism ELSE argument

StartKeeps == UNCHANGED <<argument, nextIndex, version, requestVars>>

\* open_connection, whose PRAGMAs read the schema, and the push.
OpenConnection ==
  /\ process = "opening" /\ opened < ConnectionCount
  /\ opened' = opened + 1
  /\ schema' = [schema EXCEPT ![opened] = version]
  /\ StartKeeps /\ UNCHANGED <<process, snapshot, transaction, active>>

PoolIsOpen ==
  /\ process = "opening" /\ opened = ConnectionCount
  /\ process' = "binding"
  /\ StartKeeps /\ UNCHANGED <<opened, sessionVars>>

\* The API listener, then that of the UI unless --no-ui is given. Nothing is
\* served before both are bound.
Bind ==
  /\ \/ process = "binding" /\ process' \in {"bindingUI", "serving"}
     \/ process = "bindingUI" /\ process' = "serving"
  /\ StartKeeps /\ UNCHANGED <<opened, sessionVars>>

StartFails ==
  /\ \/ process = "opening" /\ opened < ConnectionCount
     \/ process \in {"binding", "bindingUI"}
  /\ process' = "ended"
  /\ StartKeeps /\ UNCHANGED <<opened, sessionVars>>

--------------------------------------------------------------------------------
(* get_connection and the closure on the connection's thread.              *)

\* Mutant: the index stays where it is.
IndexAfter_Stuck(index) == index

IndexAfter(index) == (index + 1) % IndexRange

Dispatch(r) ==
  /\ process = "serving" /\ stage[r] = "new"
  /\ stage' = [stage EXCEPT ![r] = "called"]
  /\ \E text \in {"SELECT", "BEGIN", "COMMIT"} : sql' = [sql EXCEPT ![r] = text]
  /\ connection' = [connection EXCEPT ![r] = nextIndex % opened]
  /\ nextIndex' = IndexAfter(nextIndex)
  /\ asked' = [asked EXCEPT ![r] = version]
  /\ UNCHANGED <<startVars, version, sessionVars, header, seen>>

RequestKeeps == UNCHANGED <<startVars, nextIndex, version, sql, connection, asked>>

\* Mutant: closures of one connection run side by side.
Idle_Always(c) == TRUE

\* The thread has no closure under way.
Idle(c) == \A r \in Requests : connection[r] = c => stage[r] \notin {"prepared", "stepped"}

\* What a statement of the connection reads if it is stepped now.
Visible(c) == IF snapshot[c] = None THEN version ELSE snapshot[c]

\* Prepare the statement and take the names of its columns. A table or column
\* that is not found makes SQLite read the schema again first. The spawned tasks
\* reach the thread in any order.
Prepare(r) ==
  /\ stage[r] = "called" /\ Idle(connection[r])
  /\ LET c == connection[r]
     IN  \E v \in {schema[c], Visible(c)} :
           /\ schema' = [schema EXCEPT ![c] = v]
           /\ \/ /\ stage' = [stage EXCEPT ![r] = "prepared"]
                 /\ header' = [header EXCEPT ![r] = v]
              \/ /\ stage' = [stage EXCEPT ![r] = "ended"]
                 /\ UNCHANGED header
  /\ RequestKeeps /\ UNCHANGED <<snapshot, transaction, active, seen>>

\* The first step of a SELECT, or its failure.
Select(r) ==
  /\ stage[r] = "prepared" /\ sql[r] = "SELECT"
  /\ LET c == connection[r]
         sees == Visible(connection[r])
     IN  \/ /\ stage' = [stage EXCEPT ![r] = "stepped"]
            /\ seen' = [seen EXCEPT ![r] = sees]
            /\ snapshot' = [snapshot EXCEPT ![c] = sees]
            /\ schema' = [schema EXCEPT ![c] = sees]
            /\ active' = [active EXCEPT ![c] = @ \cup {r}]
         \/ /\ stage' = [stage EXCEPT ![r] = "ended"]
            /\ UNCHANGED <<seen, snapshot, schema, active>>
  /\ RequestKeeps /\ UNCHANGED <<transaction, header>>

\* The snapshot goes with the last statement outside a transaction.
Release(c) ==
  snapshot' = [snapshot EXCEPT ![c] = IF active'[c] = {} /\ ~transaction'[c] THEN None ELSE @]

\* The only step of BEGIN and COMMIT, which fails if there is, or is not, a
\* transaction already. BEGIN takes no snapshot yet.
BeginOrCommit(r) ==
  /\ stage[r] = "prepared" /\ sql[r] # "SELECT"
  /\ stage' = [stage EXCEPT ![r] = "ended"]
  /\ transaction' = [transaction EXCEPT ![connection[r]] = sql[r] = "BEGIN" \/ (@ /\ sql[r] # "COMMIT")]
  /\ UNCHANGED active
  /\ Release(connection[r])
  /\ RequestKeeps /\ UNCHANGED <<schema, header, seen>>

\* Mutant: the statement is not finalized.
Finalize_Leak(c, r) == UNCHANGED active

\* Drop of the statement.
Finalize(c, r) == active' = [active EXCEPT ![c] = @ \ {r}]

\* The closure ends with rows left: the query failed, or the client is gone.
Stop(r) ==
  /\ stage[r] = "stepped"
  /\ stage' = [stage EXCEPT ![r] = "ended"]
  /\ Finalize(connection[r], r)
  /\ UNCHANGED transaction
  /\ Release(connection[r])
  /\ RequestKeeps /\ UNCHANGED <<schema, header, seen>>

\* SQLITE_DONE, at which SQLite itself takes the statement back.
Exhaust(r) ==
  /\ stage[r] = "stepped"
  /\ stage' = [stage EXCEPT ![r] = "ended"]
  /\ active' = [active EXCEPT ![connection[r]] = @ \ {r}]
  /\ UNCHANGED transaction
  /\ Release(connection[r])
  /\ RequestKeeps /\ UNCHANGED <<schema, header, seen>>

\* Another program commits to the database.
OutsideCommit ==
  /\ version < MaxVersion
  /\ version' = version + 1
  /\ UNCHANGED <<startVars, nextIndex, sessionVars, requestVars>>

--------------------------------------------------------------------------------
Start == OpenConnection \/ PoolIsOpen \/ Bind \/ StartFails

Run(r) == Prepare(r) \/ Select(r) \/ BeginOrCommit(r) \/ Stop(r) \/ Exhaust(r)

Terminated ==
  /\ process = "ended" \/ \A r \in Requests : stage[r] = "ended"
  /\ UNCHANGED vars

Next ==
  \/ Start
  \/ \E r \in Requests : Dispatch(r) \/ Run(r)
  \/ OutsideCommit
  \/ Terminated

Spec == Init /\ [][Next]_vars

--------------------------------------------------------------------------------
\* A server that has begun to serve has its whole pool, and the pool is not
\* empty whatever the command line says: no request finds a modulus of zero or
\* a connection that is not open (pool.rs, open_pool; main.rs, main).
ServesWithWholePool ==
  /\ process = "serving" =>
       opened > 0 /\ opened = (IF argument > 0 THEN argument ELSE Parallelism)
  /\ \A r \in Requests : stage[r] # "new" => connection[r] \in 0 .. opened - 1

Given(c) == {r \in Requests : connection[r] = c}
Dispatched == {r \in Requests : stage[r] # "new"}

\* Connections take turns, in whatever order requests come and however long they
\* keep their connection: no connection is given more than one request ahead of
\* another, and one more each time the index wraps around, which it need not do
\* at the end of a turn (pool.rs, get_connection).
RoundRobin ==
  \A c, d \in 0 .. opened - 1 :
    Cardinality(Given(c)) <= Cardinality(Given(d)) + 1 + Cardinality(Dispatched) \div IndexRange

\* A request reads what was committed before it was sent, unless an earlier
\* request has left a transaction open on the connection it happens to get: a
\* result that its client walks away from keeps nothing (raw_statement.rs, drop;
\* parquet.rs and csv.rs, the early returns).
FreshRead ==
  [][\A r \in Requests :
       seen'[r] # seen[r] /\ seen'[r] < asked[r] => transaction[connection[r]]]_vars

\* The column names are taken before the first step, by the schema the connection
\* has read last. Of the requests that read one version on one connection at most
\* one, the first, has names of an older version (csv.rs, write_csv_results;
\* parquet.rs, execute_parquet_producer).
StaleHeaderOnce ==
  \A r, q \in Requests :
    /\ seen[r] # None /\ header[r] # seen[r]
    /\ seen[q] # None /\ header[q] # seen[q]
    /\ connection[r] = connection[q] /\ seen[r] = seen[q]
    => r = q

--------------------------------------------------------------------------------
\* db/csv.rs:35 "Serializes query results into a CSV writer, outputting headers
\* and all rows": the header names the columns of the rows below it.
HeaderNamesColumns ==
  \A r \in Requests : seen[r] # None => header[r] = seen[r]
================================================================================
