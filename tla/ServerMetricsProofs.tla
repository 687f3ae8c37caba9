-------------------------- MODULE ServerMetricsProofs --------------------------
(***************************************************************************)
(* Proofs about ServerMetrics for any requests, clients, events and sizes, *)
(* and whether or not the platform reorders Relaxed operations: the parts  *)
(* of the tracker, each updated on its own, agree whenever nobody is at    *)
(* work, the ring of seconds is exact, and the log keeps the newest.       *)
(***************************************************************************)
EXTENDS ServerMetrics, SequenceTheorems, FiniteSetTheorems, TLAPS

(* Sums and sequences.                                                     *)

\* A row of units has as many as its bounds say.
LEMMA RowOfUnits ==
  ASSUME NEW x, NEW low \in Int, NEW high \in Int, low <= high + 1
  PROVE  /\ IsFiniteSet({x} \X (low .. high))
         /\ Cardinality({x} \X (low .. high)) = high - low + 1
<1> DEFINE X == {x}
           K == low .. high
<1>1. IsFiniteSet(X) /\ Cardinality(X) = 1
  BY FS_Singleton
<1>2. IsFiniteSet(K) /\ Cardinality(K) = IF low > high THEN 0 ELSE high - low + 1
  BY FS_Interval
<1>3. Cardinality(K) = high - low + 1
  BY <1>2
<1> HIDE DEF X, K
<1>4. IsFiniteSet(X \X K) /\ Cardinality(X \X K) = 1 * (high - low + 1)
  BY <1>1, <1>2, <1>3, FS_Product
<1>5. IsFiniteSet(X \X K) /\ Cardinality(X \X K) = high - low + 1
  BY <1>4
<1> QED BY <1>5 DEF X, K

\* A sum grows by the number of units that come in.
LEMMA SumGrows ==
  ASSUME NEW f, NEW g, NEW row, IsFiniteSet(Units(f)), IsFiniteSet(row),
         Units(g) = Units(f) \cup row, Units(f) \cap row = {}
  PROVE  IsFiniteSet(Units(g)) /\ Sum(g) = Sum(f) + Cardinality(row)
<1>1. /\ Cardinality(Units(f) \cap row) = 0
      /\ Cardinality(Units(f)) \in Nat /\ Cardinality(row) \in Nat
  BY FS_EmptySet, FS_CardinalityType
<1>2. /\ IsFiniteSet(Units(f) \cup row)
      /\ Cardinality(Units(f) \cup row) =
           Cardinality(Units(f)) + Cardinality(row) - Cardinality(Units(f) \cap row)
  BY FS_Union
<1> QED BY <1>1, <1>2 DEF Sum

\* The sum of nothing.
LEMMA SumNothing ==
  ASSUME NEW f, DOMAIN f = {}
  PROVE  IsFiniteSet(Units(f)) /\ Sum(f) = 0
<1>1. Units(f) = {}
  BY DEF Units
<1> QED BY <1>1, FS_EmptySet DEF Sum

\* An argument that comes in adds its value.
LEMMA SumOneMore ==
  ASSUME NEW f, NEW g, NEW x, x \notin DOMAIN f, DOMAIN g = DOMAIN f \cup {x},
         g[x] \in Nat, \A y \in DOMAIN f : g[y] = f[y], IsFiniteSet(Units(f))
  PROVE  IsFiniteSet(Units(g)) /\ Sum(g) = Sum(f) + g[x]
<1> DEFINE row == {x} \X (1 .. g[x])
           high == g[x]
<1>1. IsFiniteSet(row) /\ Cardinality(row) = g[x] - 1 + 1
  <2>1. 1 \in Int /\ high \in Int /\ 1 <= high + 1
    OBVIOUS
  <2> HIDE DEF high
  <2>2. IsFiniteSet({x} \X (1 .. high)) /\ Cardinality({x} \X (1 .. high)) = high - 1 + 1
    BY <2>1, RowOfUnits
  <2> QED BY <2>2 DEF high
<1>2. Units(g) = Units(f) \cup row /\ Units(f) \cap row = {}
  BY DEF Units
<1>3. g[x] - 1 + 1 = g[x]
  OBVIOUS
<1> HIDE DEF row
<1> QED BY <1>1, <1>2, <1>3, SumGrows

\* A value that grows by n.
LEMMA SumAdded ==
  ASSUME NEW f, NEW x \in DOMAIN f, f[x] \in Nat, NEW n \in Nat, IsFiniteSet(Units(f)),
         NEW g, g = [f EXCEPT ![x] = f[x] + n]
  PROVE  IsFiniteSet(Units(g)) /\ Sum(g) = Sum(f) + n
<1> DEFINE row == {x} \X (f[x] + 1 .. f[x] + n)
<1> DEFINE low == f[x] + 1
           high == f[x] + n
<1>a. low \in Int /\ high \in Int /\ low <= high + 1 /\ high - low + 1 = n
  OBVIOUS
<1>0. IsFiniteSet(row) /\ Cardinality(row) = n
  <2> HIDE DEF low, high
  <2>1. IsFiniteSet({x} \X (low .. high)) /\ Cardinality({x} \X (low .. high)) = high - low + 1
    BY <1>a, RowOfUnits
  <2>2. IsFiniteSet({x} \X (low .. high)) /\ Cardinality({x} \X (low .. high)) = n
    BY <1>a, <2>1
  <2> QED BY <2>2 DEF low, high
<1>1. DOMAIN g = DOMAIN f /\ g[x] = f[x] + n /\ \A y \in DOMAIN f \ {x} : g[y] = f[y]
  OBVIOUS
<1>2. \A k : k \in 1 .. g[x] <=> k \in 1 .. f[x] \/ k \in f[x] + 1 .. f[x] + n
  BY <1>1
<1>3. Units(g) = Units(f) \cup row
  BY <1>1, <1>2 DEF Units
<1>4. Units(f) \cap row = {}
  BY DEF Units
<1> HIDE DEF row
<1> QED BY <1>0, <1>3, <1>4, SumGrows

\* The sum over two disjoint sets.
LEMMA SumApart ==
  ASSUME NEW f, NEW g, NEW h, DOMAIN f \cap DOMAIN g = {},
         DOMAIN h = DOMAIN f \cup DOMAIN g,
         \A y \in DOMAIN f : h[y] = f[y], \A y \in DOMAIN g : h[y] = g[y],
         IsFiniteSet(Units(f)), IsFiniteSet(Units(g))
  PROVE  Sum(h) = Sum(f) + Sum(g)
<1>1. Units(h) = Units(f) \cup Units(g)
  BY DEF Units
<1>2. Units(f) \cap Units(g) = {}
  BY DEF Units
<1> QED BY <1>1, <1>2, SumGrows DEF Sum

In(s, x) == \E i \in 1 .. Len(s) : s[i] = x
Single(s) == \A i, j \in 1 .. Len(s) : s[i] = s[j] => i = j

\* A sequence without its i-th element.
LEMMA RemoveAtIs ==
  ASSUME NEW S, NEW s \in Seq(S), NEW i \in DOMAIN s
  PROVE  /\ RemoveAt(s, i) \in Seq(S) /\ Len(RemoveAt(s, i)) = Len(s) - 1
         /\ Len(s) \in Nat /\ i \in 1 .. Len(s)
         /\ \A j \in 1 .. Len(s) - 1 : RemoveAt(s, i)[j] = IF j < i THEN s[j] ELSE s[j + 1]
<1> DEFINE before == SubSeq(s, 1, i - 1)
           after == SubSeq(s, i + 1, Len(s))
<1>1. Len(s) \in Nat /\ i \in 1 .. Len(s) /\ \A j \in 1 .. Len(s) : s[j] \in S
  BY LenProperties, ElementOfSeq
<1>2. /\ before \in Seq(S) /\ Len(before) = i - 1
      /\ \A j \in 1 .. i - 1 : before[j] = s[j]
  <2>1. \A j \in 1 .. i - 1 : s[j] \in S
    BY <1>1
  <2>2. /\ before \in Seq(S) /\ Len(before) = IF 1 <= i - 1 THEN (i - 1) - 1 + 1 ELSE 0
        /\ \A j \in 1 .. (i - 1) - 1 + 1 : before[j] = s[1 + j - 1]
    BY <1>1, <2>1, SubSeqProperties
  <2> QED BY <1>1, <2>2
<1>3. /\ after \in Seq(S) /\ Len(after) = Len(s) - i
      /\ \A j \in 1 .. Len(s) - i : after[j] = s[i + j]
  <2>1. \A j \in i + 1 .. Len(s) : s[j] \in S
    BY <1>1
  <2>2. /\ after \in Seq(S)
        /\ Len(after) = IF i + 1 <= Len(s) THEN Len(s) - (i + 1) + 1 ELSE 0
        /\ \A j \in 1 .. Len(s) - (i + 1) + 1 : after[j] = s[(i + 1) + j - 1]
    BY <1>1, <2>1, SubSeqProperties
  <2>3. \A j \in 1 .. Len(s) - i : (i + 1) + j - 1 = i + j /\ j \in 1 .. Len(s) - (i + 1) + 1
    BY <1>1
  <2> QED BY <1>1, <2>2, <2>3
<1> HIDE DEF before, after
<1>4. /\ before \o after \in Seq(S) /\ Len(before \o after) = Len(before) + Len(after)
      /\ \A j \in 1 .. Len(before) + Len(after) :
           (before \o after)[j] = IF j <= Len(before) THEN before[j] ELSE after[j - Len(before)]
  BY <1>2, <1>3, ConcatProperties
<1>a. Len(before) + Len(after) = Len(s) - 1
  BY <1>1, <1>2, <1>3
<1>b. /\ before \o after \in Seq(S) /\ Len(before \o after) = Len(s) - 1
      /\ \A j \in 1 .. Len(s) - 1 :
           (before \o after)[j] = IF j <= i - 1 THEN before[j] ELSE after[j - (i - 1)]
  BY <1>2, <1>4, <1>a
<1>5. RemoveAt(s, i) = before \o after
  BY DEF RemoveAt, before, after
<1>6. ASSUME NEW j \in 1 .. Len(s) - 1
      PROVE  (before \o after)[j] = IF j < i THEN s[j] ELSE s[j + 1]
  <2>0. j \in Int /\ i \in Int /\ (j < i <=> j <= i - 1)
    BY <1>1
  <2>1. CASE j < i
    <3>1. j \in 1 .. i - 1
      BY <1>1, <2>0, <2>1
    <3> QED BY <1>2, <1>b, <2>0, <2>1, <3>1
  <2>2. CASE ~(j < i)
    <3>1. j - (i - 1) \in 1 .. Len(s) - i /\ i + (j - (i - 1)) = j + 1
      BY <1>1, <2>0, <2>2
    <3>2. (before \o after)[j] = after[j - (i - 1)]
      BY <1>b, <2>0, <2>2
    <3>3. after[j - (i - 1)] = s[i + (j - (i - 1))]
      BY <1>3, <3>1
    <3>4. after[j - (i - 1)] = s[j + 1]
      BY <3>1, <3>3
    <3> QED BY <2>2, <3>2, <3>4
  <2> QED BY <2>1, <2>2
<1> QED BY <1>1, <1>5, <1>6, <1>b

\* It has lost that element, and no other, if none was there twice.
LEMMA RemoveAtIn ==
  ASSUME NEW S, NEW s \in Seq(S), Single(s), NEW i \in DOMAIN s
  PROVE  /\ RemoveAt(s, i) \in Seq(S) /\ Single(RemoveAt(s, i))
         /\ s[i] \in S /\ In(s, s[i])
         /\ \A x : In(RemoveAt(s, i), x) <=> In(s, x) /\ x # s[i]
<1> DEFINE t == RemoveAt(s, i)
<1>1. /\ t \in Seq(S) /\ Len(t) = Len(s) - 1 /\ Len(s) \in Nat /\ i \in 1 .. Len(s)
      /\ \A j \in 1 .. Len(s) - 1 : t[j] = IF j < i THEN s[j] ELSE s[j + 1]
  BY RemoveAtIs
<1> HIDE DEF t
<1>2. ASSUME NEW x, In(t, x) PROVE In(s, x) /\ x # s[i]
  <2>1. PICK j \in 1 .. Len(s) - 1 : t[j] = x
    BY <1>1, <1>2 DEF In
  <2>2. /\ j \in 1 .. Len(s) /\ j + 1 \in 1 .. Len(s)
        /\ \/ j # i /\ s[j] = x
           \/ j + 1 # i /\ s[j + 1] = x
    BY <1>1, <2>1
  <2> QED BY <1>1, <2>2 DEF In, Single
<1>3. ASSUME NEW x, In(s, x), x # s[i] PROVE In(t, x)
  <2>1. PICK j \in 1 .. Len(s) : s[j] = x
    BY <1>3 DEF In
  <2>2. CASE j < i
    <3>1. j \in 1 .. Len(t) /\ t[j] = x
      BY <1>1, <2>1, <2>2
    <3> QED BY <3>1 DEF In
  <2>3. CASE j > i
    <3>1. j - 1 \in 1 .. Len(t) /\ (j - 1) + 1 = j /\ ~(j - 1 < i)
      BY <1>1, <2>1, <2>3
    <3>2. t[j - 1] = x
      BY <1>1, <2>1, <3>1
    <3> QED BY <3>1, <3>2 DEF In
  <2> QED BY <1>1, <1>3, <2>1, <2>2, <2>3
<1>4. Single(t)
  <2> SUFFICES ASSUME NEW j \in 1 .. Len(t), NEW k \in 1 .. Len(t), t[j] = t[k]
               PROVE  j = k
    BY DEF Single
  <2> DEFINE p == IF j < i THEN j ELSE j + 1
             q == IF k < i THEN k ELSE k + 1
  <2>0. j \in 1 .. Len(s) - 1 /\ k \in 1 .. Len(s) - 1
    BY <1>1
  <2>1. p \in 1 .. Len(s) /\ q \in 1 .. Len(s) /\ (p = q => j = k)
    BY <1>1, <2>0
  <2>2. s[p] = t[j] /\ s[q] = t[k]
    BY <1>1, <2>0
  <2> QED BY <2>1, <2>2 DEF Single
<1>5. s[i] \in S /\ In(s, s[i])
  BY <1>1, ElementOfSeq DEF In
<1> QED BY <1>1, <1>2, <1>3, <1>4, <1>5 DEF t

--------------------------------------------------------------------------------
(* Types. That the counters are not negative follows from what they count. *)

Bucket == [second : Nat, requests : Nat, amount : Nat]

\* The requests that record_request has been called for.
Told == InStage({"recording", "timed", "bucketed", "hosted", "done"})

Types ==
  /\ clock \in Nat
  /\ stage \in [Requests -> Stages]
  /\ DOMAIN event = Told /\ \A r \in Told : event[r] \in Events
  /\ todo \in [Requests -> Seq(Figures)]
  /\ second \in [Requests -> Nat]
  /\ late \subseteq Requests
  /\ counter \in [Figures -> Int]
  /\ history \in [0 .. RingSize - 1 -> Bucket]
  /\ clients \in [Clients -> Stats]
  /\ recent \in Seq(Requests)
  /\ log \in Seq(Requests)
  /\ reader \in [Readers -> ReaderSteps]
  /\ toLoad \in [Readers -> Seq(Figures)]
  /\ settled \in [Readers -> SUBSET Requests]

\* What an event is.
LEMMA EventIs ==
  ASSUME NEW e \in Events
  PROVE  /\ e.client \in Clients /\ e.amount \in Nat
         /\ e.status \in {200, 400, 500} /\ e.format \in {"C", "P"}
BY MetricsAssumption DEF Event

\* The figures of record_request, and those of request_started, each once.
LEMMA FiguresOnce ==
  /\ StartedFigures \in Seq(Figures) /\ Single(StartedFigures)
  /\ \A f : In(StartedFigures, f) <=> f \in {"total", "active"}
  /\ \A e \in Events :
       /\ RecordedFigures(e) \in Seq(Figures) /\ Single(RecordedFigures(e))
       /\ \A f : In(RecordedFigures(e), f) <=>
            \/ f \in {"active", "rows"}
            \/ f = IF e.status < 400 THEN "successful" ELSE "failed"
            \/ f = IF e.format = "P" THEN "parquet" ELSE "csv"
<1>1. /\ StartedFigures \in Seq(Figures) /\ Single(StartedFigures)
      /\ \A f : In(StartedFigures, f) <=> f \in {"total", "active"}
  <2>1. /\ StartedFigures \in Seq(Figures) /\ Len(StartedFigures) = 2
        /\ StartedFigures[1] = "total" /\ StartedFigures[2] = "active"
    BY DEF StartedFigures, Figures
  <2>2. \A i : i \in 1 .. Len(StartedFigures) <=> i \in {1, 2}
    BY <2>1
  <2>3. Single(StartedFigures)
    BY <2>1, <2>2 DEF Single
  <2>4. \A f : In(StartedFigures, f) <=> f \in {"total", "active"}
    BY <2>1, <2>2 DEF In
  <2> QED BY <2>1, <2>3, <2>4
<1>2. ASSUME NEW e \in Events
      PROVE  /\ RecordedFigures(e) \in Seq(Figures) /\ Single(RecordedFigures(e))
             /\ \A f : In(RecordedFigures(e), f) <=>
                  \/ f \in {"active", "rows"}
                  \/ f = IF e.status < 400 THEN "successful" ELSE "failed"
                  \/ f = IF e.format = "P" THEN "parquet" ELSE "csv"
  <2> DEFINE outcome == IF e.status < 400 THEN "successful" ELSE "failed"
             format == IF e.format = "P" THEN "parquet" ELSE "csv"
  <2>0. outcome \in {"successful", "failed"} /\ format \in {"parquet", "csv"}
    OBVIOUS
  <2>a. RecordedFigures(e) = <<"active", outcome, format, "rows">>
    BY DEF RecordedFigures
  <2> HIDE DEF outcome, format
  <2> DEFINE s == <<"active", outcome, format, "rows">>
  <2>1. s \in Seq(Figures) /\ Len(s) = 4
        /\ s[1] = "active" /\ s[2] = outcome /\ s[3] = format /\ s[4] = "rows"
    BY <2>0 DEF Figures
  <2> HIDE DEF s
  <2>2. \A i : i \in 1 .. Len(s) <=> i \in {1, 2, 3, 4}
    BY <2>1
  <2>3. Single(s)
    BY <2>0, <2>1, <2>2 DEF Single
  <2>4. \A f : In(s, f) <=> f \in {"active", "rows"} \/ f = outcome \/ f = format
    BY <2>1, <2>2 DEF In
  <2> QED BY <2>a, <2>1, <2>3, <2>4 DEF s, outcome, format
<1> QED BY <1>1, <1>2

\* The slot of a second is in the ring.
LEMMA SlotType ==
  ASSUME NEW s \in Nat
  PROVE  Slot(s) \in 0 .. RingSize - 1
BY MetricsAssumption DEF Slot

\* What is added to a client's figures.
LEMMA AddStats ==
  ASSUME NEW stats \in Stats, NEW n \in Nat
  PROVE  /\ Add(stats, n) \in Stats
         /\ Add(stats, n).requests = stats.requests + 1
         /\ Add(stats, n).amount = stats.amount + n
<1> DEFINE once == [stats EXCEPT !.requests = @ + 1]
           twice == [once EXCEPT !.amount = @ + n]
<1>1. /\ once \in Stats /\ once.requests = stats.requests + 1
      /\ once.amount = stats.amount
  BY DEF Stats
<1>2. Add(stats, n) = twice
  BY DEF Add, Stats
<1> HIDE DEF once
<1>3. twice \in Stats /\ twice.requests = once.requests /\ twice.amount = once.amount + n
  BY <1>1 DEF Stats
<1> HIDE DEF twice
<1> QED BY <1>1, <1>2, <1>3

\* What is added to a bucket.
LEMMA AddBucket ==
  ASSUME NEW b \in Bucket, NEW n \in Nat
  PROVE  /\ Add(b, n) \in Bucket
         /\ Add(b, n).second = b.second
         /\ Add(b, n).requests = b.requests + 1
         /\ Add(b, n).amount = b.amount + n
<1> DEFINE once == [b EXCEPT !.requests = @ + 1]
           twice == [once EXCEPT !.amount = @ + n]
<1>1. /\ once \in Bucket /\ once.requests = b.requests + 1
      /\ once.second = b.second /\ once.amount = b.amount
  BY DEF Bucket
<1>2. Add(b, n) = twice
  BY DEF Add, Bucket
<1> HIDE DEF once
<1>3. /\ twice \in Bucket /\ twice.second = once.second
      /\ twice.requests = once.requests /\ twice.amount = once.amount + n
  BY <1>1 DEF Bucket
<1> HIDE DEF twice
<1> QED BY <1>1, <1>2, <1>3

\* Room for one more in the log.
LEMMA RoomIs ==
  ASSUME NEW s \in Seq(Requests)
  PROVE  /\ MakeRoom(s) \in Seq(Requests)
         /\ Len(MakeRoom(s)) = IF Len(s) >= MaxRecent THEN Len(s) - 1 ELSE Len(s)
         /\ Len(s) \in Nat
         /\ \A i \in 1 .. Len(MakeRoom(s)) : MakeRoom(s)[i] = s[i]
<1>1. Len(s) \in Nat /\ \A i \in 1 .. Len(s) : s[i] \in Requests
  BY LenProperties, ElementOfSeq
<1>2. CASE Len(s) >= MaxRecent
  <2>1. \A i \in 1 .. Len(s) - 1 : s[i] \in Requests
    BY <1>1
  <2>2. /\ SubSeq(s, 1, Len(s) - 1) \in Seq(Requests)
        /\ Len(SubSeq(s, 1, Len(s) - 1)) =
             IF 1 <= Len(s) - 1 THEN (Len(s) - 1) - 1 + 1 ELSE 0
        /\ \A i \in 1 .. (Len(s) - 1) - 1 + 1 : SubSeq(s, 1, Len(s) - 1)[i] = s[1 + i - 1]
    BY <1>1, <2>1, SubSeqProperties
  <2>3. MakeRoom(s) = SubSeq(s, 1, Len(s) - 1)
    BY <1>2 DEF MakeRoom, Front
  <2>4. Len(s) >= 1
    BY <1>1, <1>2, MetricsAssumption
  <2>5. Len(MakeRoom(s)) = Len(s) - 1
    <3>0. \A n \in Nat : n >= 1 => (IF 1 <= n - 1 THEN (n - 1) - 1 + 1 ELSE 0) = n - 1
      OBVIOUS
    <3>1. (IF 1 <= Len(s) - 1 THEN (Len(s) - 1) - 1 + 1 ELSE 0) = Len(s) - 1
      BY <1>1, <2>4, <3>0
    <3> QED BY <2>2, <2>3, <3>1
  <2>6. \A i \in 1 .. Len(s) - 1 : MakeRoom(s)[i] = s[i]
    BY <1>1, <2>2, <2>3
  <2> QED BY <1>1, <1>2, <2>2, <2>3, <2>5, <2>6
<1>3. CASE ~(Len(s) >= MaxRecent)
  BY <1>1, <1>3 DEF MakeRoom
<1> QED BY <1>2, <1>3

\* The types hold initially (metrics.rs, new).
LEMMA TypesInit == Init => Types
<1> SUFFICES ASSUME Init PROVE Types
  OBVIOUS
<1>1. <<>> \in Seq(Requests) /\ <<>> \in Seq(Figures)
  BY EmptySeq
<1>2. clock \in Nat /\ RingSize \in Nat
  BY MetricsAssumption DEF Init
<1>3. Told = {} /\ DOMAIN event = {}
  BY DEF Init, Told, InStage
<1>4. history \in [0 .. RingSize - 1 -> Bucket]
  BY DEF Init, Bucket
<1>5. clients \in [Clients -> Stats]
  BY DEF Init, Zero, Stats
<1>6. /\ stage \in [Requests -> Stages] /\ reader \in [Readers -> ReaderSteps]
      /\ counter \in [Figures -> Int]
  BY DEF Init, Stages, ReaderSteps
<1>7. todo \in [Requests -> Seq(Figures)] /\ toLoad \in [Readers -> Seq(Figures)]
  BY <1>1 DEF Init
<1>8. second \in [Requests -> Nat] /\ settled \in [Readers -> SUBSET Requests]
  BY DEF Init
<1>9. recent \in Seq(Requests) /\ log \in Seq(Requests) /\ late \subseteq Requests
  BY <1>1 DEF Init
<1> QED BY <1>2, <1>3, <1>4, <1>5, <1>6, <1>7, <1>8, <1>9 DEF Types

\* A request that moves on within record_request, or before it, is told of as it
\* was.
LEMMA ToldStays ==
  ASSUME Types, NEW r \in Requests, NEW there \in Stages,
         stage' = [stage EXCEPT ![r] = there], UNCHANGED event,
         there \in {"new", "starting", "running"} <=> r \notin Told
  PROVE  /\ stage' \in [Requests -> Stages]
         /\ Told' = Told /\ DOMAIN event' = Told' /\ \A q \in Told' : event'[q] \in Events
<1>1. stage' \in [Requests -> Stages]
  BY DEF Types
<1>2. Told' = Told
  BY DEF Types, Told, InStage, Stages
<1> QED BY <1>1, <1>2 DEF Types

\* Steps of request_started and the atomics of record_request keep the types
\* (metrics.rs, request_started and record_request).
LEMMA CountingTypes ==
  ASSUME Types, NEW r \in Requests,
         Start(r) \/ CountStarted(r) \/ Record(r) \/ CountRecorded(r) \/ ReadClock(r)
  PROVE  Types'
<1>0. /\ r \in Told <=> stage[r] \in {"recording", "timed", "bucketed", "hosted", "done"}
      /\ RingSize \in Nat
  BY MetricsAssumption DEF Told, InStage
<1>1. CASE Start(r)
  <2>1. /\ stage[r] = "new" /\ stage' = [stage EXCEPT ![r] = "starting"]
        /\ todo' = [todo EXCEPT ![r] = StartedFigures]
        /\ UNCHANGED <<clock, event, second, late, counter, history, clients, recent, log,
                       reader, toLoad, settled>>
    BY <1>1 DEF Start, metrics, readerVars
  <2>2. todo' \in [Requests -> Seq(Figures)]
    BY <2>1, FiguresOnce DEF Types
  <2>3. /\ stage' \in [Requests -> Stages]
        /\ DOMAIN event' = Told' /\ \A q \in Told' : event'[q] \in Events
    BY <1>0, <2>1, ToldStays, "starting" \in Stages DEF Stages
  <2> QED BY <2>1, <2>2, <2>3 DEF Types
<1>2. CASE CountStarted(r)
  <2>1. PICK i \in DOMAIN todo[r] :
          /\ counter' = [counter EXCEPT ![todo[r][i]] = @ + 1]
          /\ todo' = [todo EXCEPT ![r] = RemoveAt(@, i)]
    BY <1>2 DEF CountStarted, Effective
  <2>2. /\ stage[r] = "starting"
        /\ stage' = [stage EXCEPT ![r] = IF todo'[r] = <<>> THEN "running" ELSE "starting"]
        /\ UNCHANGED <<clock, event, second, late, history, clients, recent, log,
                       reader, toLoad, settled>>
    BY <1>2 DEF CountStarted, readerVars
  <2>3. todo[r] \in Seq(Figures) /\ RemoveAt(todo[r], i) \in Seq(Figures)
    <3>1. todo[r] \in Seq(Figures)
      BY DEF Types
    <3> QED BY <3>1, RemoveAtIs
  <2>4. todo' \in [Requests -> Seq(Figures)]
    BY <2>1, <2>3 DEF Types
  <2>5. counter' \in [Figures -> Int]
    BY <2>1 DEF Types
  <2> DEFINE there == IF todo'[r] = <<>> THEN "running" ELSE "starting"
  <2>6. there \in Stages /\ there \in {"new", "starting", "running"}
    BY DEF Stages
  <2>7. stage' = [stage EXCEPT ![r] = there]
    BY <2>2
  <2> HIDE DEF there
  <2>8. r \notin Told
    BY <1>0, <2>2
  <2>9. /\ stage' \in [Requests -> Stages]
        /\ DOMAIN event' = Told' /\ \A q \in Told' : event'[q] \in Events
    BY <2>2, <2>6, <2>7, <2>8, ToldStays
  <2> QED BY <2>2, <2>4, <2>5, <2>9 DEF Types
<1>3. CASE Record(r)
  <2>1. PICK e \in Events :
          /\ event' = [q \in DOMAIN event \cup {r} |-> IF q = r THEN e ELSE event[q]]
          /\ todo' = [todo EXCEPT ![r] = RecordedFigures(e)]
    BY <1>3 DEF Record
  <2>2. /\ stage[r] = "running" /\ stage' = [stage EXCEPT ![r] = "recording"]
        /\ UNCHANGED <<clock, second, late, counter, history, clients, recent, log,
                       reader, toLoad, settled>>
    BY <1>3 DEF Record, metrics, readerVars
  <2>3. todo' \in [Requests -> Seq(Figures)]
    BY <2>1, FiguresOnce DEF Types
  <2>4. stage' \in [Requests -> Stages]
    BY <2>2 DEF Types, Stages
  <2>5. Told' = Told \cup {r}
    BY <2>2 DEF Types, Told, InStage
  <2>6. DOMAIN event' = Told' /\ \A q \in Told' : event'[q] \in Events
    BY <2>1, <2>5 DEF Types
  <2> QED BY <2>2, <2>3, <2>4, <2>6 DEF Types
<1>4. CASE CountRecorded(r)
  <2>1. PICK i \in DOMAIN todo[r] :
          /\ counter' = [counter EXCEPT ![todo[r][i]] = @ + Share(r, todo[r][i])]
          /\ todo' = [todo EXCEPT ![r] = RemoveAt(@, i)]
    BY <1>4 DEF CountRecorded, Effective
  <2>2. /\ stage[r] = "recording"
        /\ UNCHANGED <<clock, stage, event, second, late, history, clients, recent, log,
                       reader, toLoad, settled>>
    BY <1>4 DEF CountRecorded, readerVars
  <2>3. todo[r] \in Seq(Figures) /\ RemoveAt(todo[r], i) \in Seq(Figures)
    <3>1. todo[r] \in Seq(Figures)
      BY DEF Types
    <3> QED BY <3>1, RemoveAtIs
  <2>4. todo' \in [Requests -> Seq(Figures)]
    BY <2>1, <2>3 DEF Types
  <2>5. Share(r, todo[r][i]) \in Int
    BY <1>0, <2>2, EventIs DEF Share, Types
  <2>6. counter' \in [Figures -> Int]
    BY <2>1, <2>5 DEF Types
  <2>7. Told' = Told
    BY <2>2 DEF Told, InStage
  <2> QED BY <2>2, <2>4, <2>6, <2>7 DEF Types
<1>5. CASE ReadClock(r)
  <2>1. /\ stage[r] = "recording" /\ stage' = [stage EXCEPT ![r] = "timed"]
        /\ second' = [second EXCEPT ![r] = clock]
        /\ UNCHANGED <<clock, event, todo, late, counter, history, clients, recent, log,
                       reader, toLoad, settled>>
    BY <1>5 DEF ReadClock, metrics, readerVars
  <2>2. second' \in [Requests -> Nat]
    BY <2>1 DEF Types
  <2>3. /\ stage' \in [Requests -> Stages]
        /\ DOMAIN event' = Told' /\ \A q \in Told' : event'[q] \in Events
    BY <1>0, <2>1, ToldStays, "timed" \in Stages DEF Stages
  <2> QED BY <2>1, <2>2, <2>3 DEF Types
<1> QED BY <1>1, <1>2, <1>3, <1>4, <1>5

\* Steps of record_request under a lock keep the types (metrics.rs,
\* record_request).
LEMMA LockedTypes ==
  ASSUME Types, NEW r \in Requests,
         UpdateHistory(r) \/ UpdateClients(r) \/ UpdateRecent(r)
  PROVE  Types'
<1>0. /\ r \in Told <=> stage[r] \in {"recording", "timed", "bucketed", "hosted", "done"}
      /\ RingSize \in Nat
  BY MetricsAssumption DEF Told, InStage
<1>e. r \in Told => event[r].amount \in Nat /\ event[r].client \in Clients
  BY EventIs DEF Types
<1>1. CASE UpdateHistory(r)
  <2> DEFINE k == Slot(second[r])
             b == Add(BucketFor(history[Slot(second[r])], second[r]), event[r].amount)
  <2>1. /\ stage[r] = "timed" /\ stage' = [stage EXCEPT ![r] = "bucketed"]
        /\ history' = [history EXCEPT ![k] = b]
        /\ late' \in {late, late \cup {r}}
        /\ UNCHANGED <<clock, event, todo, second, counter, clients, recent, log,
                       reader, toLoad, settled>>
    BY <1>1 DEF UpdateHistory, readerVars
  <2>2. k \in 0 .. RingSize - 1
    BY SlotType DEF Types
  <2>3. b \in Bucket
    <3>1. history[k] \in Bucket /\ second[r] \in Nat /\ event[r].amount \in Nat
      BY <1>0, <1>e, <2>1, <2>2 DEF Types
    <3>2. BucketFor(history[k], second[r]) \in Bucket
      BY <3>1 DEF BucketFor, Bucket
    <3> QED BY <3>1, <3>2, AddBucket
  <2> HIDE DEF k, b
  <2>4. history' \in [0 .. RingSize - 1 -> Bucket]
    BY <2>1, <2>2, <2>3 DEF Types
  <2>5. late' \subseteq Requests
    BY <2>1 DEF Types
  <2>6. /\ stage' \in [Requests -> Stages]
        /\ DOMAIN event' = Told' /\ \A q \in Told' : event'[q] \in Events
    BY <1>0, <2>1, ToldStays, "bucketed" \in Stages DEF Stages
  <2> QED BY <2>1, <2>4, <2>5, <2>6 DEF Types
<1>2. CASE UpdateClients(r)
  <2> DEFINE c == event[r].client
             stats == Add(clients[event[r].client], event[r].amount)
  <2>1. /\ stage[r] = "bucketed" /\ stage' = [stage EXCEPT ![r] = "hosted"]
        /\ clients' = [clients EXCEPT ![c] = stats]
        /\ UNCHANGED <<clock, event, todo, second, late, counter, history, recent, log,
                       reader, toLoad, settled>>
    BY <1>2 DEF UpdateClients, readerVars
  <2>2. stats \in Stats
    <3>1. clients[c] \in Stats /\ event[r].amount \in Nat
      BY <1>0, <1>e, <2>1 DEF Types
    <3> QED BY <3>1, AddStats
  <2> HIDE DEF c, stats
  <2>3. clients' \in [Clients -> Stats]
    BY <2>1, <2>2 DEF Types
  <2>4. /\ stage' \in [Requests -> Stages]
        /\ DOMAIN event' = Told' /\ \A q \in Told' : event'[q] \in Events
    BY <1>0, <2>1, ToldStays, "hosted" \in Stages DEF Stages
  <2> QED BY <2>1, <2>3, <2>4 DEF Types
<1>3. CASE UpdateRecent(r)
  <2>1. /\ stage[r] = "hosted" /\ stage' = [stage EXCEPT ![r] = "done"]
        /\ recent' = <<r>> \o MakeRoom(recent) /\ log' = Append(log, r)
        /\ UNCHANGED <<clock, event, todo, second, late, counter, history, clients,
                       reader, toLoad, settled>>
    BY <1>3 DEF UpdateRecent, readerVars
  <2>2. recent' \in Seq(Requests)
    <3>1. MakeRoom(recent) \in Seq(Requests)
      BY RoomIs DEF Types
    <3>2. <<r>> \in Seq(Requests)
      OBVIOUS
    <3> QED BY <2>1, <3>1, <3>2, ConcatProperties
  <2>3. log' \in Seq(Requests)
    BY <2>1, AppendProperties DEF Types
  <2>4. /\ stage' \in [Requests -> Stages]
        /\ DOMAIN event' = Told' /\ \A q \in Told' : event'[q] \in Events
    BY <1>0, <2>1, ToldStays, "done" \in Stages DEF Stages
  <2> QED BY <2>1, <2>2, <2>3, <2>4 DEF Types
<1> QED BY <1>1, <1>2, <1>3

\* Steps of a snapshot, and those of the clock, keep the types (metrics.rs,
\* snapshot).
LEMMA ReaderTypes ==
  ASSUME Types, Tick \/ \E q \in Readers : Snapshot(q)
  PROVE  Types'
<1>1. ASSUME Tick PROVE Types'
  <2>1. clock' \in Nat
    BY <1>1 DEF Tick, Types
  <2>2. UNCHANGED <<stage, event, todo, second, late, counter, history, clients, recent, log,
                    reader, toLoad, settled>>
    BY <1>1 DEF Tick, requestVars, metrics, readerVars
  <2>3. Told' = Told
    BY <2>2 DEF Told, InStage
  <2> QED BY <2>1, <2>2, <2>3 DEF Types
<1>2. ASSUME NEW q \in Readers, Snapshot(q) PROVE Types'
  <2>1. UNCHANGED <<clock, stage, event, todo, second, late, counter, history, clients,
                    recent, log>>
    BY <1>2 DEF Snapshot, BeginSnapshot, LoadCounter, SnapshotClock, ReadHistory, ReadClients,
                ReadRecent, requestVars, metrics
  <2>2. Told' = Told
    BY <2>1 DEF Told, InStage
  <2>3. reader' \in [Readers -> ReaderSteps]
    BY <1>2 DEF Snapshot, BeginSnapshot, LoadCounter, SnapshotClock, ReadHistory, ReadClients,
                ReadRecent, ReaderAt, ReaderSteps, Types
  <2>4. toLoad' \in [Readers -> Seq(Figures)]
    <3>1. CASE BeginSnapshot(q)
      <4> DEFINE all == <<"total", "successful", "failed", "active", "csv", "parquet", "rows">>
      <4>1. all \in Seq(Figures)
        BY DEF Figures
      <4> HIDE DEF all
      <4>2. toLoad' = [toLoad EXCEPT ![q] = all]
        BY <3>1 DEF BeginSnapshot, all
      <4> QED BY <4>1, <4>2 DEF Types
    <3>2. CASE LoadCounter(q)
      <4>1. PICK i \in DOMAIN toLoad[q] : toLoad' = [toLoad EXCEPT ![q] = RemoveAt(@, i)]
        BY <3>2 DEF LoadCounter, Effective
      <4>2. toLoad[q] \in Seq(Figures)
        BY DEF Types
      <4>3. RemoveAt(toLoad[q], i) \in Seq(Figures)
        BY <4>2, RemoveAtIs
      <4> QED BY <4>1, <4>3 DEF Types
    <3>3. CASE UNCHANGED toLoad
      BY <3>3 DEF Types
    <3> QED BY <1>2, <3>1, <3>2, <3>3
            DEF Snapshot, SnapshotClock, ReadHistory, ReadClients, ReadRecent
  <2>5. settled' \in [Readers -> SUBSET Requests]
    <3>1. CASE BeginSnapshot(q)
      BY <3>1 DEF BeginSnapshot, Types
    <3>2. CASE UNCHANGED settled
      BY <3>2 DEF Types
    <3> QED BY <1>2, <3>1, <3>2
            DEF Snapshot, LoadCounter, SnapshotClock, ReadHistory, ReadClients, ReadRecent
  <2> QED BY <2>1, <2>2, <2>3, <2>4, <2>5 DEF Types
<1> QED BY <1>1, <1>2

\* Every step keeps the types.
LEMMA TypesNext == Types /\ [Next]_vars => Types'
<1> SUFFICES ASSUME Types, [Next]_vars PROVE Types'
  OBVIOUS
<1>1. ASSUME NEW r \in Requests, Handle(r) PROVE Types'
  BY <1>1, CountingTypes, LockedTypes DEF Handle
<1>2. CASE Tick \/ \E q \in Readers : Snapshot(q)
  BY <1>2, ReaderTypes
<1>3. CASE UNCHANGED vars
  <2>1. UNCHANGED <<clock, stage, event, todo, second, late, counter, history, clients, recent,
                    log, reader, toLoad, settled>>
    BY <1>3 DEF vars, requestVars, metrics, readerVars
  <2>2. Told' = Told
    BY <2>1 DEF Told, InStage
  <2> QED BY <2>1, <2>2 DEF Types
<1> QED BY <1>1, <1>2, <1>3 DEF Next

--------------------------------------------------------------------------------
(* The log of recent queries.                                              *)

\* The queries shown are the last ones of the log, from its end.
Newest ==
  /\ Len(recent) = IF Len(log) < MaxRecent THEN Len(log) ELSE MaxRecent
  /\ \A i \in 1 .. Len(recent) : recent[i] = log[Len(log) - i + 1]

\* The query that comes in is the newest and the oldest makes room for it
\* (metrics.rs, record_request).
LEMMA UpdateKeepsNewest ==
  ASSUME Types, Newest, NEW r \in Requests, UpdateRecent(r)
  PROVE  Newest'
<1> DEFINE room == MakeRoom(recent)
<1>1. recent' = <<r>> \o room /\ log' = Append(log, r)
  BY DEF UpdateRecent
<1>2. /\ recent \in Seq(Requests) /\ log \in Seq(Requests) /\ <<r>> \in Seq(Requests)
      /\ Len(<<r>>) = 1 /\ <<r>>[1] = r
  BY DEF Types
<1>3. /\ room \in Seq(Requests) /\ Len(recent) \in Nat
      /\ Len(room) = IF Len(recent) >= MaxRecent THEN Len(recent) - 1 ELSE Len(recent)
      /\ \A i \in 1 .. Len(room) : room[i] = recent[i]
  BY <1>2, RoomIs
<1>4. /\ Len(log) \in Nat /\ Len(log') = Len(log) + 1
      /\ \A i \in 1 .. Len(log) : log'[i] = log[i]
      /\ log'[Len(log) + 1] = r
  BY <1>1, <1>2, AppendProperties, LenProperties
<1> HIDE DEF room
<1>5. Len(room) \in Nat
  BY <1>3, LenProperties
<1>6. /\ Len(recent') = 1 + Len(room)
      /\ \A i \in 1 .. 1 + Len(room) : recent'[i] = IF i <= 1 THEN <<r>>[i] ELSE room[i - 1]
  <2>1. /\ Len(<<r>> \o room) = Len(<<r>>) + Len(room)
        /\ \A i \in 1 .. Len(<<r>>) + Len(room) :
             (<<r>> \o room)[i] = IF i <= Len(<<r>>) THEN <<r>>[i] ELSE room[i - Len(<<r>>)]
    BY <1>2, <1>3, ConcatProperties
  <2> QED BY <1>1, <1>2, <2>1
<1>7. MaxRecent \in Nat \ {0}
  BY MetricsAssumption
<1>8. Len(recent') = IF Len(log') < MaxRecent THEN Len(log') ELSE MaxRecent
  BY <1>3, <1>4, <1>6, <1>7 DEF Newest
<1>9. ASSUME NEW i \in 1 .. Len(recent')
      PROVE  recent'[i] = log'[Len(log') - i + 1]
  <2>0. i \in 1 .. 1 + Len(room) /\ i \in Int
    BY <1>5, <1>6
  <2>1. CASE i = 1
    <3>1. recent'[i] = r
      BY <1>2, <1>6, <2>0, <2>1
    <3>2. Len(log') - i + 1 = Len(log) + 1
      BY <1>4, <2>1
    <3> QED BY <1>4, <3>1, <3>2
  <2>2. CASE i # 1
    <3>1. recent'[i] = room[i - 1] /\ i - 1 \in 1 .. Len(room)
      BY <1>5, <1>6, <2>0, <2>2
    <3>2. i - 1 \in 1 .. Len(recent) /\ recent'[i] = recent[i - 1]
      BY <1>3, <3>1
    <3>3. recent'[i] = log[Len(log) - (i - 1) + 1]
      BY <3>2 DEF Newest
    <3>4. /\ Len(log) - (i - 1) + 1 \in 1 .. Len(log)
          /\ Len(log) - (i - 1) + 1 = Len(log') - i + 1
      BY <1>4, <1>7, <2>0, <3>2 DEF Newest
    <3> QED BY <1>4, <3>3, <3>4
  <2> QED BY <2>1, <2>2
<1> QED BY <1>8, <1>9 DEF Newest

\* Every step keeps the newest.
LEMMA NewestNext == Types /\ Newest /\ [Next]_vars => Newest'
<1> SUFFICES ASSUME Types, Newest, [Next]_vars PROVE Newest'
  OBVIOUS
<1>1. ASSUME UNCHANGED <<recent, log>> PROVE Newest'
  BY <1>1 DEF Newest
<1>2. ASSUME NEW r \in Requests, Handle(r) PROVE Newest'
  BY <1>1, <1>2, UpdateKeepsNewest
     DEF Handle, Start, CountStarted, Record, CountRecorded, ReadClock, UpdateHistory,
         UpdateClients, metrics
<1>3. ASSUME NEW q \in Readers, Snapshot(q) PROVE Newest'
  BY <1>1, <1>3 DEF Snapshot, BeginSnapshot, LoadCounter, SnapshotClock, ReadHistory,
                    ReadClients, ReadRecent, metrics
<1>4. CASE Tick
  BY <1>1, <1>4 DEF Tick, metrics
<1>5. CASE UNCHANGED vars
  BY <1>1, <1>5 DEF vars, metrics
<1> QED BY <1>2, <1>3, <1>4, <1>5 DEF Next

\* The log shown holds the last MaxRecent requests to reach it, newest first,
\* whatever order they began in (metrics.rs, record_request).
THEOREM NewestFirst == Spec => []RecentIsNewest
<1>1. Init => Newest
  <2>1. Len(<<>>) = 0 /\ MaxRecent \in Nat \ {0}
    BY EmptySeq, MetricsAssumption
  <2> QED BY <2>1 DEF Init, Newest
<1>2. Types /\ Newest => RecentIsNewest
  <2> SUFFICES ASSUME Types, Newest PROVE RecentIsNewest
    OBVIOUS
  <2> DEFINE back == Reverse(log)
             n == Len(recent)
  <2>1. /\ recent \in Seq(Requests) /\ log \in Seq(Requests)
        /\ Len(log) \in Nat /\ n \in Nat /\ n <= Len(log)
    <3>1. recent \in Seq(Requests) /\ log \in Seq(Requests)
      BY DEF Types
    <3>2. Len(log) \in Nat /\ n \in Nat
      BY <3>1, LenProperties
    <3> QED BY <3>1, <3>2, MetricsAssumption DEF Newest
  <2>2. \A i \in 1 .. n : back[i] = log[Len(log) - i + 1] /\ back[i] \in Requests
    <3>1. \A i \in 1 .. n : i \in 1 .. Len(log) /\ Len(log) - i + 1 \in 1 .. Len(log)
      BY <2>1
    <3>2. \A i \in 1 .. n : log[Len(log) - i + 1] \in Requests
      BY <2>1, <3>1, ElementOfSeq
    <3> QED BY <3>1, <3>2 DEF Reverse
  <2> HIDE DEF back
  <2>3. /\ SubSeq(back, 1, n) \in Seq(Requests)
        /\ Len(SubSeq(back, 1, n)) = IF 1 <= n THEN n - 1 + 1 ELSE 0
        /\ \A i \in 1 .. n - 1 + 1 : SubSeq(back, 1, n)[i] = back[1 + i - 1]
    BY <2>1, <2>2, SubSeqProperties
  <2>4. Len(SubSeq(back, 1, n)) = n
    BY <2>1, <2>3
  <2>5. \A i \in 1 .. n : i \in 1 .. n - 1 + 1 /\ 1 + i - 1 = i
    BY <2>1
  <2>6. \A i \in 1 .. n : SubSeq(back, 1, n)[i] = recent[i]
    BY <2>2, <2>3, <2>5 DEF Newest
  <2>7. recent = SubSeq(back, 1, n)
    BY <2>1, <2>3, <2>4, <2>6, SeqEqual
  <2> QED BY <2>7 DEF RecentIsNewest, Newest, back
<1> QED BY <1>1, <1>2, TypesInit, TypesNext, NewestNext, PTL DEF Spec

--------------------------------------------------------------------------------
(* The ring of seconds.                                                    *)

InRing == InStage({"bucketed", "hosted", "done"})
Amounts(rs) == [r \in rs |-> event[r].amount]

\* Nobody is ahead of the clock, and only those in the ring have come late to it.
Past ==
  /\ clock >= RingSize
  /\ late \subseteq InRing
  /\ \A r \in InRing \cup InStage({"timed"}) : second[r] <= clock

\* Sums over the requests of a second are sums over finitely many.
Finite == \A s \in Nat : IsFiniteSet(Bucketed(s)) /\ IsFiniteSet(Units(Amounts(Bucketed(s))))

\* A bucket never shows more than its second had.
Bounded ==
  \A s \in Nat : history[Slot(s)].second = s =>
    /\ history[Slot(s)].requests <= Cardinality(Bucketed(s))
    /\ history[Slot(s)].amount <= Amount(Bucketed(s))

\* The bucket of a second that has not left the ring, and no late thread has been
\* to, is exact.
Exact ==
  \A s \in Nat :
    clock - RingSize < s /\ Undisturbed(s) /\ Bucketed(s) # {} =>
      history[Slot(s)] = [second |-> s, requests |-> Cardinality(Bucketed(s)),
                          amount |-> Amount(Bucketed(s))]

Ring == Past /\ Finite /\ Bounded /\ Exact

\* Two seconds less than a round apart have slots of their own.
LEMMA SlotsApart ==
  ASSUME NEW n \in Nat \ {0}, NEW s \in Nat, NEW t \in Nat,
         s % n = t % n, s - t < n, t - s < n
  PROVE  s = t
<1> DEFINE p == s \div n
           q == t \div n
           m == s % n
<1>1. p \in Int /\ q \in Int /\ m \in Int
  OBVIOUS
<1>2. s = n * p + m /\ t = n * q + m
  OBVIOUS
<1> HIDE DEF p, q, m
<1>3. s - t = n * (p - q)
  BY <1>1, <1>2
<1>4. ~(p - q >= 1)
  <2> SUFFICES ASSUME p - q >= 1 PROVE FALSE
    OBVIOUS
  <2>1. n * (p - q) >= n
    BY <1>1
  <2> QED BY <1>3, <2>1
<1>5. ~(p - q <= -1)
  <2> SUFFICES ASSUME p - q <= -1 PROVE FALSE
    OBVIOUS
  <2>1. n * (p - q) <= -n
    BY <1>1
  <2> QED BY <1>3, <2>1
<1>6. p = q
  BY <1>1, <1>4, <1>5
<1> QED BY <1>1, <1>2, <1>6

\* The ring is empty at first (metrics.rs, new).
LEMMA RingInit == Init => Ring
<1> SUFFICES ASSUME Init PROVE Ring
  OBVIOUS
<1>1. \A s : Bucketed(s) = {}
  BY DEF Init, Bucketed, InStage
<1>2. InRing = {} /\ InStage({"timed"}) = {} /\ late = {} /\ clock = RingSize
  BY DEF Init, InRing, InStage
<1>3. Past
  BY <1>2, MetricsAssumption DEF Past
<1>4. /\ IsFiniteSet({}) /\ Cardinality({}) = 0
      /\ IsFiniteSet(Units(Amounts({}))) /\ Amount({}) = 0
  BY FS_EmptySet, SumNothing DEF Amounts, Amount
<1>5. Finite
  BY <1>1, <1>4 DEF Finite
<1>6. Bounded
  <2> SUFFICES ASSUME NEW s \in Nat
               PROVE  history[Slot(s)].requests = 0 /\ history[Slot(s)].amount = 0
    BY <1>1, <1>4 DEF Bounded
  <2>1. Slot(s) \in 0 .. RingSize - 1
    BY SlotType
  <2> QED BY <2>1 DEF Init
<1>7. Exact
  BY <1>1 DEF Exact
<1> QED BY <1>3, <1>5, <1>6, <1>7 DEF Ring

\* A step that brings no request into the ring.
LEMMA RingStays ==
  ASSUME Types, Ring, UNCHANGED <<history, late>>, clock' \in Nat, clock' >= clock,
         InRing' = InRing,
         \A r \in InRing : second'[r] = second[r] /\ event'[r] = event[r],
         \A r \in InStage({"timed"})' : second'[r] <= clock'
  PROVE  Ring'
<1>1. Past'
  <2>1. \A r \in InRing : second'[r] \in Nat /\ second'[r] <= clock
    BY DEF Ring, Past, Types, InRing, InStage
  <2>2. clock \in Nat /\ RingSize \in Nat /\ clock >= RingSize
    BY MetricsAssumption DEF Types, Ring, Past
  <2>3. \A r \in InRing : second'[r] <= clock'
    BY <2>1, <2>2
  <2>4. clock' >= RingSize
    BY <2>2
  <2> QED BY <2>3, <2>4 DEF Ring, Past
<1>2. \A s : Bucketed(s)' = Bucketed(s)
  BY DEF Bucketed, InRing
<1>3. \A s : Amounts(Bucketed(s))' = Amounts(Bucketed(s))
  BY <1>2 DEF Amounts, Bucketed, InRing
<1>4. \A s : Amount(Bucketed(s))' = Amount(Bucketed(s))
  BY <1>3 DEF Amount, Amounts
<1>5. Finite'
  BY <1>2, <1>3 DEF Finite, Ring
<1>6. Bounded'
  BY <1>2, <1>4 DEF Bounded, Ring
<1>7. Exact'
  <2> SUFFICES ASSUME NEW s \in Nat, clock' - RingSize < s, Undisturbed(s)',
                      Bucketed(s)' # {}
               PROVE  history'[Slot(s)] =
                        [second |-> s, requests |-> Cardinality(Bucketed(s)'),
                         amount |-> Amount(Bucketed(s))']
    BY DEF Exact
  <2>1. clock - RingSize < s
    BY MetricsAssumption DEF Types
  <2>2. Undisturbed(s)
    BY DEF Undisturbed, Ring, Past
  <2> QED BY <1>2, <1>4, <2>1, <2>2 DEF Exact, Ring
<1> QED BY <1>1, <1>5, <1>6, <1>7 DEF Ring

\* The request comes to the bucket of its second, which it takes over if it was
\* that of another (metrics.rs, record_request, under the lock of the history).
LEMMA UpdateKeepsRing ==
  ASSUME Types, Ring, NEW r \in Requests, UpdateHistory(r)
  PROVE  Ring'
<1>0. PICK sec \in Nat : sec = second[r]
  BY DEF Types
<1> DEFINE k == Slot(sec)
           old == history[Slot(sec)]
           b == Add(BucketFor(history[Slot(sec)], sec), event[r].amount)
           a == event[r].amount
<1>1. /\ stage[r] = "timed" /\ stage' = [stage EXCEPT ![r] = "bucketed"]
      /\ history' = [history EXCEPT ![k] = b]
      /\ late' = IF clock - sec >= RingSize THEN late \cup {r} ELSE late
      /\ UNCHANGED <<clock, event, second>>
  BY <1>0 DEF UpdateHistory
<1>2. /\ sec \in Nat /\ clock \in Nat /\ RingSize \in Nat \ {0} /\ sec <= clock
      /\ k \in 0 .. RingSize - 1 /\ old \in Bucket
  <2>1. sec \in Nat /\ clock \in Nat /\ RingSize \in Nat \ {0}
    BY MetricsAssumption DEF Types
  <2>2. k \in 0 .. RingSize - 1
    BY <2>1, SlotType
  <2>3. sec <= clock
    BY <1>0, <1>1 DEF Ring, Past, InStage
  <2> QED BY <2>1, <2>2, <2>3 DEF Types
<1>3. a \in Nat
  <2>1. r \in Told
    BY <1>1 DEF Told, InStage
  <2> QED BY <2>1, EventIs DEF Types
<1>4. /\ b \in Bucket /\ b.second = sec
      /\ old.second = sec => b.requests = old.requests + 1 /\ b.amount = old.amount + a
      /\ old.second # sec => b.requests = 1 /\ b.amount = a
  <2> DEFINE fresh == BucketFor(old, sec)
  <2>1. /\ fresh \in Bucket /\ fresh.second = sec
        /\ old.second = sec => fresh = old
        /\ old.second # sec => fresh.requests = 0 /\ fresh.amount = 0
    BY <1>2 DEF BucketFor, Bucket
  <2> HIDE DEF fresh
  <2>2. b = Add(fresh, a)
    BY DEF fresh
  <2> HIDE DEF b, a
  <2>3. /\ b \in Bucket /\ b.second = fresh.second /\ b.requests = fresh.requests + 1
        /\ b.amount = fresh.amount + a
    BY <1>3, <2>1, <2>2, AddBucket
  <2> QED BY <1>3, <2>1, <2>3
<1>5. history'[k] = b /\ \A i \in 0 .. RingSize - 1 : i # k => history'[i] = history[i]
  BY <1>1, <1>2 DEF Types
<1> HIDE DEF b
<1>6. InRing' = InRing \cup {r} /\ r \notin InRing
  BY <1>1 DEF InRing, InStage, Types
<1>7. /\ r \notin Bucketed(sec) /\ Bucketed(sec)' = Bucketed(sec) \cup {r}
      /\ \A s : s # sec => Bucketed(s)' = Bucketed(s)
  BY <1>0, <1>1, <1>6 DEF Bucketed, InRing
<1>8. \A s : s # sec => Amounts(Bucketed(s))' = Amounts(Bucketed(s))
  BY <1>1, <1>7 DEF Amounts
<1>9. \A s : s # sec => Amount(Bucketed(s))' = Amount(Bucketed(s))
  BY <1>8 DEF Amount, Amounts
<1> DEFINE n == Cardinality(Bucketed(sec))
           m == Amount(Bucketed(sec))
<1>10. /\ IsFiniteSet(Bucketed(sec)') /\ Cardinality(Bucketed(sec)') = n + 1 /\ n \in Nat
       /\ n = 0 <=> Bucketed(sec) = {}
  <2>1. IsFiniteSet(Bucketed(sec))
    BY <1>2 DEF Ring, Finite
  <2> QED BY <1>7, <2>1, FS_AddElement, FS_CardinalityType, FS_EmptySet
<1>11. /\ IsFiniteSet(Units(Amounts(Bucketed(sec)))') /\ Amount(Bucketed(sec))' = m + a
       /\ m \in Nat
  <2> DEFINE f == Amounts(Bucketed(sec))
             g == [q \in Bucketed(sec) \cup {r} |-> event[q].amount]
  <2>1. Amounts(Bucketed(sec))' = g
    BY <1>1, <1>7 DEF Amounts
  <2>2. /\ r \notin DOMAIN f /\ DOMAIN g = DOMAIN f \cup {r} /\ g[r] = a
        /\ \A q \in DOMAIN f : g[q] = f[q]
    BY <1>7 DEF Amounts
  <2>3. IsFiniteSet(Units(f))
    BY <1>2 DEF Ring, Finite
  <2> HIDE DEF f, g
  <2>4. IsFiniteSet(Units(g)) /\ Sum(g) = Sum(f) + a
    BY <1>3, <2>2, <2>3, SumOneMore
  <2>5. Sum(f) \in Nat
    BY <2>3, FS_CardinalityType DEF Sum
  <2>6. m = Sum(f)
    BY DEF f, Amount, Amounts
  <2>7. Amount(Bucketed(sec))' = Sum(g)
    BY <2>1 DEF Amount, Amounts
  <2> QED BY <2>1, <2>4, <2>5, <2>6, <2>7
<1>12. n = 0 => m = 0
  <2> SUFFICES ASSUME n = 0 PROVE m = 0
    OBVIOUS
  <2>1. DOMAIN Amounts(Bucketed(sec)) = {}
    BY <1>10 DEF Amounts
  <2> QED BY <2>1, SumNothing DEF Amount, Amounts
<1>13. \A s \in Nat : Slot(s) \in 0 .. RingSize - 1
  BY SlotType
<1> HIDE DEF n, m, a, k, old
<1>14. Past'
  BY <1>1, <1>2, <1>6 DEF Ring, Past, InRing, InStage, Types
<1>15. Finite'
  <2> SUFFICES ASSUME NEW s \in Nat
               PROVE  IsFiniteSet(Bucketed(s)') /\ IsFiniteSet(Units(Amounts(Bucketed(s)))')
    BY DEF Finite
  <2>1. CASE s = sec
    BY <1>10, <1>11, <2>1
  <2>2. CASE s # sec
    BY <1>7, <1>8, <2>2 DEF Ring, Finite
  <2> QED BY <2>1, <2>2
<1>16. Bounded'
  <2> SUFFICES ASSUME NEW s \in Nat, history'[Slot(s)].second = s
               PROVE  /\ history'[Slot(s)].requests <= Cardinality(Bucketed(s)')
                      /\ history'[Slot(s)].amount <= Amount(Bucketed(s))'
    BY DEF Bounded
  <2>1. CASE s = sec
    <3>1. Slot(s) = k /\ history'[Slot(s)] = b
      BY <1>5, <2>1 DEF k
    <3>2. CASE old.second = sec
      <4>1. old.requests <= n /\ old.amount <= m
        BY <1>2, <3>2 DEF Ring, Bounded, n, m, old
      <4>2. old.requests \in Nat /\ old.amount \in Nat
        BY <1>2 DEF Bucket
      <4>3. b.requests = old.requests + 1 /\ b.amount = old.amount + a
        BY <1>4, <3>2
      <4>4. b.requests <= n + 1 /\ b.amount <= m + a
        BY <1>3, <1>10, <1>11, <4>1, <4>2, <4>3
      <4> QED BY <1>10, <1>11, <2>1, <3>1, <4>4
    <3>3. CASE old.second # sec
      <4>1. b.requests = 1 /\ b.amount = a
        BY <1>4, <3>3
      <4>2. b.requests <= n + 1 /\ b.amount <= m + a
        BY <1>3, <1>10, <1>11, <4>1
      <4> QED BY <1>10, <1>11, <2>1, <3>1, <4>2
    <3> QED BY <3>2, <3>3
  <2>2. CASE s # sec
    <3>1. Slot(s) # k
      BY <1>4, <1>5, <2>2
    <3>2. history'[Slot(s)] = history[Slot(s)]
      BY <1>5, <1>13, <3>1
    <3> QED BY <1>7, <1>9, <2>2, <3>2 DEF Ring, Bounded
  <2> QED BY <2>1, <2>2
<1>17. Exact'
  <2> SUFFICES ASSUME NEW s \in Nat, clock' - RingSize < s, Undisturbed(s)',
                      Bucketed(s)' # {}
               PROVE  history'[Slot(s)] =
                        [second |-> s, requests |-> Cardinality(Bucketed(s)'),
                         amount |-> Amount(Bucketed(s))']
    BY DEF Exact
  <2>0. clock - RingSize < s /\ Undisturbed(s)
    BY <1>1 DEF Undisturbed
  <2>1. CASE s = sec
    <3>1. Slot(s) = k /\ history'[Slot(s)] = b
      BY <1>5, <2>1 DEF k
    <3>2. b.requests = n + 1 /\ b.amount = m + a
      <4>1. CASE Bucketed(sec) = {}
        <5>1. n = 0 /\ m = 0
          BY <1>10, <1>12, <4>1
        <5>2. old.second = sec => old.requests <= 0 /\ old.amount <= 0
          BY <1>2, <5>1 DEF Ring, Bounded, n, m, old
        <5>3. old.requests \in Nat /\ old.amount \in Nat
          BY <1>2 DEF Bucket
        <5>4. b.requests = 1 /\ b.amount = a
          BY <1>3, <1>4, <5>2, <5>3
        <5> QED BY <1>3, <5>1, <5>4
      <4>2. CASE Bucketed(sec) # {}
        <5>1. old = [second |-> sec, requests |-> n, amount |-> m]
          BY <1>2, <2>0, <2>1, <4>2 DEF Ring, Exact, n, m, old
        <5>2. old.second = sec /\ old.requests = n /\ old.amount = m
          BY <5>1
        <5> QED BY <1>4, <5>2
      <4> QED BY <4>1, <4>2
    <3>3. b = [second |-> sec, requests |-> n + 1, amount |-> m + a]
      BY <1>4, <3>2 DEF Bucket
    <3> QED BY <1>10, <1>11, <2>1, <3>1, <3>3
  <2>2. CASE s # sec
    <3>1. Bucketed(s) # {}
      BY <1>7, <2>2
    <3>2. s <= clock
      <4>1. PICK q \in Bucketed(s) : TRUE
        BY <3>1
      <4> QED BY <4>1 DEF Bucketed, Ring, Past, InRing
    <3>3. Slot(s) # k
      <4> SUFFICES ASSUME Slot(s) = k PROVE FALSE
        OBVIOUS
      <4>1. CASE clock - sec >= RingSize
        <5>1. r \in late'
          BY <1>1, <4>1
        <5>2. Slot(second'[r]) # Slot(s)
          BY <5>1 DEF Undisturbed
        <5> QED BY <1>0, <1>1, <5>2 DEF k
      <4>2. CASE ~(clock - sec >= RingSize)
        <5>1. s - sec < RingSize /\ sec - s < RingSize
          BY <1>2, <2>0, <3>2, <4>2
        <5>2. s % RingSize = sec % RingSize
          BY DEF Slot, k
        <5>3. s = sec
          BY <1>2, <5>1, <5>2, SlotsApart
        <5> QED BY <2>2, <5>3
      <4> QED BY <4>1, <4>2
    <3>4. history'[Slot(s)] = history[Slot(s)]
      BY <1>5, <1>13, <3>3
    <3> QED BY <1>7, <1>9, <2>0, <2>2, <3>1, <3>4 DEF Ring, Exact
  <2> QED BY <2>1, <2>2
<1> QED BY <1>14, <1>15, <1>16, <1>17 DEF Ring

\* Every step keeps the ring.
LEMMA RingNext == Types /\ Ring /\ [Next]_vars => Ring'
<1> SUFFICES ASSUME Types, Ring, [Next]_vars PROVE Ring'
  OBVIOUS
<1>0. clock \in Nat /\ clock >= clock
  BY DEF Types
<1>t. \A r \in InStage({"timed"}) : second[r] <= clock
  BY DEF Ring, Past
<1>1. ASSUME NEW r \in Requests, r \notin InRing, NEW there \in Stages,
             stage' = [stage EXCEPT ![r] = there],
             there \notin {"timed", "bucketed", "hosted", "done"},
             UNCHANGED <<clock, history, late, second>>,
             \A q \in InRing : event'[q] = event[q]
      PROVE  Ring'
  <2>1. InRing' = InRing /\ InStage({"timed"})' \subseteq InStage({"timed"})
    BY <1>1 DEF InRing, InStage, Types
  <2> QED BY <1>0, <1>1, <1>t, <2>1, RingStays
<1>2. ASSUME NEW r \in Requests, Handle(r) PROVE Ring'
  <2>1. CASE Start(r)
    <3>1. /\ stage[r] = "new" /\ stage' = [stage EXCEPT ![r] = "starting"]
          /\ UNCHANGED <<clock, history, late, second, event>>
      BY <2>1 DEF Start, metrics
    <3> QED BY <1>1, <3>1, "starting" \in Stages DEF InRing, InStage, Stages
  <2>2. CASE CountStarted(r)
    <3> DEFINE there == IF todo'[r] = <<>> THEN "running" ELSE "starting"
    <3>1. /\ stage[r] = "starting" /\ stage' = [stage EXCEPT ![r] = there]
          /\ UNCHANGED <<clock, history, late, second, event>>
      BY <2>2 DEF CountStarted
    <3>2. there \in Stages /\ there \in {"running", "starting"}
      BY DEF Stages
    <3> HIDE DEF there
    <3> QED BY <1>1, <3>1, <3>2 DEF InRing, InStage
  <2>3. CASE Record(r)
    <3>1. /\ stage[r] = "running" /\ stage' = [stage EXCEPT ![r] = "recording"]
          /\ UNCHANGED <<clock, history, late, second>>
      BY <2>3 DEF Record, metrics
    <3>2. \A q \in InRing : event'[q] = event[q]
      BY <2>3, <3>1 DEF Record, Types, InRing, Told, InStage
    <3> QED BY <1>1, <3>1, <3>2, "recording" \in Stages DEF InRing, InStage, Stages
  <2>4. CASE CountRecorded(r)
    <3>1. UNCHANGED <<clock, stage, history, late, second, event>>
      BY <2>4 DEF CountRecorded
    <3>2. InRing' = InRing /\ InStage({"timed"})' = InStage({"timed"})
      BY <3>1 DEF InRing, InStage
    <3> QED BY <1>0, <1>t, <3>1, <3>2, RingStays
  <2>5. CASE ReadClock(r)
    <3>1. /\ stage[r] = "recording" /\ stage' = [stage EXCEPT ![r] = "timed"]
          /\ second' = [second EXCEPT ![r] = clock]
          /\ UNCHANGED <<clock, event, history, late>>
      BY <2>5 DEF ReadClock, metrics
    <3>2. /\ InRing' = InRing /\ r \notin InRing
          /\ InStage({"timed"})' = InStage({"timed"}) \cup {r}
      BY <3>1 DEF InRing, InStage, Types
    <3>3. \A q \in InRing : second'[q] = second[q]
      BY <3>1, <3>2 DEF InRing, InStage, Types
    <3>4. \A q \in InStage({"timed"})' : second'[q] <= clock'
      BY <1>0, <1>t, <3>1, <3>2 DEF InStage, Types
    <3> QED BY <1>0, <3>1, <3>2, <3>3, <3>4, RingStays
  <2>6. CASE UpdateHistory(r)
    BY <2>6, UpdateKeepsRing
  <2>7. CASE UpdateClients(r) \/ UpdateRecent(r)
    <3>1. /\ \/ stage[r] = "bucketed" /\ stage' = [stage EXCEPT ![r] = "hosted"]
             \/ stage[r] = "hosted" /\ stage' = [stage EXCEPT ![r] = "done"]
          /\ UNCHANGED <<clock, event, second, history, late>>
      BY <2>7 DEF UpdateClients, UpdateRecent
    <3>2. InRing' = InRing /\ InStage({"timed"})' = InStage({"timed"})
      BY <3>1 DEF InRing, InStage, Types
    <3> QED BY <1>0, <1>t, <3>1, <3>2, RingStays
  <2> QED BY <1>2, <2>1, <2>2, <2>3, <2>4, <2>5, <2>6, <2>7 DEF Handle
<1>3. ASSUME UNCHANGED <<stage, event, second, history, late>>, clock' \in Nat, clock' >= clock
      PROVE  Ring'
  <2>1. InRing' = InRing /\ InStage({"timed"})' = InStage({"timed"})
    BY <1>3 DEF InRing, InStage
  <2>2. \A q \in InStage({"timed"}) : second'[q] <= clock'
    BY <1>0, <1>3, <1>t DEF InStage, Types
  <2> QED BY <1>3, <2>1, <2>2, RingStays
<1>4. ASSUME NEW q \in Readers, Snapshot(q) PROVE Ring'
  <2>1. UNCHANGED <<stage, event, second, history, late, clock>>
    BY <1>4 DEF Snapshot, BeginSnapshot, LoadCounter, SnapshotClock, ReadHistory, ReadClients,
                ReadRecent, metrics, requestVars
  <2> QED BY <1>0, <1>3, <2>1
<1>5. CASE Tick
  BY <1>0, <1>3, <1>5 DEF Tick, metrics, requestVars
<1>6. CASE UNCHANGED vars
  BY <1>0, <1>3, <1>6 DEF vars, metrics, requestVars
<1> QED BY <1>2, <1>4, <1>5, <1>6 DEF Next

\* The bucket of each of the last RingSize seconds has the requests recorded in
\* that second, all of them and no other, whatever threads are delayed between the
\* clock and the lock, unless one of them came to that bucket a whole round late
\* (metrics.rs, record_request).
THEOREM ExactHistory == Spec => []HistoryIsExact
<1>1. Types /\ Ring => HistoryIsExact
  <2> SUFFICES ASSUME Types, Ring, NEW s \in clock - RingSize + 1 .. clock
               PROVE  LET b == history[Slot(s)]
                          n == Cardinality(Bucketed(s))
                          a == Amount(Bucketed(s))
                      IN  /\ b.second = s => b.requests <= n /\ b.amount <= a
                          /\ Undisturbed(s) /\ n > 0 =>
                               b = [second |-> s, requests |-> n, amount |-> a]
    BY DEF HistoryIsExact
  <2>1. s \in Nat /\ clock - RingSize < s
    BY MetricsAssumption DEF Types, Ring, Past
  <2>2. IsFiniteSet(Bucketed(s))
    BY <2>1 DEF Ring, Finite
  <2>3. Cardinality(Bucketed(s)) > 0 => Bucketed(s) # {}
    BY <2>2, FS_EmptySet
  <2> QED BY <2>1, <2>3 DEF Ring, Bounded, Exact
<1>2. Init => Types /\ Ring
  BY TypesInit, RingInit
<1>3. Types /\ Ring /\ [Next]_vars => (Types /\ Ring)'
  BY TypesNext, RingNext
<1> QED BY <1>1, <1>2, <1>3, PTL DEF Spec

--------------------------------------------------------------------------------
(* The counters. Each is what has been added to it so far, by requests that *)
(* are done with it though they may have others still to update.           *)

Sent == {r \in Requests : stage[r] # "new"}

\* The requests that request_started, and record_request, have counted in f.
Begun(f) == {r \in Sent : ~(stage[r] = "starting" /\ In(todo[r], f))}
Reported(f) == {r \in Told : /\ In(RecordedFigures(event[r]), f)
                             /\ ~(stage[r] = "recording" /\ In(todo[r], f))}

Count(f) ==
  IF f = "total" THEN Cardinality(Begun("total"))
  ELSE IF f = "active" THEN Cardinality(Begun("active")) - Cardinality(Reported("active"))
  ELSE IF f \in {"successful", "failed"} THEN Cardinality(Reported(f))
  ELSE Amount(Reported(f))

\* No atomic is updated twice for a request, nor one that is not its own.
Orderly ==
  \A r \in Requests :
    /\ stage[r] = "starting" => /\ Single(todo[r])
                                /\ \A f : In(todo[r], f) => f \in {"total", "active"}
    /\ stage[r] = "recording" => /\ Single(todo[r])
                                 /\ \A f : In(todo[r], f) => In(RecordedFigures(event[r]), f)

Tally ==
  /\ IsFiniteSet(Sent) /\ IsFiniteSet(Units(Amounts(Told)))
  /\ Orderly
  /\ \A f \in Figures : counter[f] = Count(f)

\* Any part of the requests told of is finite, and so are its amounts.
LEMMA PartFinite ==
  ASSUME Types, Tally, NEW S, S \subseteq Told
  PROVE  /\ IsFiniteSet(S) /\ Cardinality(S) \in Nat
         /\ IsFiniteSet(Units(Amounts(S))) /\ Amount(S) \in Nat
<1>1. S \subseteq Sent
  BY DEF Told, InStage, Sent
<1>2. IsFiniteSet(S) /\ Cardinality(S) \in Nat
  BY <1>1, FS_Subset, FS_CardinalityType DEF Tally
<1>3. Units(Amounts(S)) \subseteq Units(Amounts(Told))
  BY DEF Units, Amounts
<1>4. IsFiniteSet(Units(Amounts(S)))
  BY <1>3, FS_Subset DEF Tally
<1>5. Amount(S) = Cardinality(Units(Amounts(S)))
  BY DEF Amount, Amounts, Sum
<1> QED BY <1>2, <1>4, <1>5, FS_CardinalityType

\* A request more in a part of those told of.
LEMMA PartGrows ==
  ASSUME Types, Tally, NEW S, NEW r \in Told, r \notin S, S \subseteq Told
  PROVE  /\ Cardinality(S \cup {r}) = Cardinality(S) + 1
         /\ Amount(S \cup {r}) = Amount(S) + event[r].amount
<1>1. Cardinality(S \cup {r}) = Cardinality(S) + 1
  BY PartFinite, FS_AddElement
<1> DEFINE f == Amounts(S)
           g == Amounts(S \cup {r})
<1>2. /\ r \notin DOMAIN f /\ DOMAIN g = DOMAIN f \cup {r} /\ g[r] = event[r].amount
      /\ \A q \in DOMAIN f : g[q] = f[q]
  BY DEF Amounts
<1>3. IsFiniteSet(Units(f)) /\ event[r].amount \in Nat
  BY PartFinite, EventIs DEF Types
<1>4. Amount(S) = Sum(f) /\ Amount(S \cup {r}) = Sum(g)
  BY DEF Amount, Amounts
<1> HIDE DEF f, g
<1>5. Sum(g) = Sum(f) + g[r]
  BY <1>2, <1>3, SumOneMore
<1> QED BY <1>1, <1>2, <1>4, <1>5

\* Nothing is counted at first (metrics.rs, new).
LEMMA TallyInit == Init => Tally
<1> SUFFICES ASSUME Init PROVE Tally
  OBVIOUS
<1>1. Sent = {} /\ Told = {}
  BY DEF Init, Sent, Told, InStage
<1>2. \A f : Begun(f) = {} /\ Reported(f) = {}
  BY <1>1 DEF Begun, Reported
<1>3. /\ IsFiniteSet({}) /\ Cardinality({}) = 0
      /\ IsFiniteSet(Units(Amounts({}))) /\ Amount({}) = 0
  BY FS_EmptySet, SumNothing DEF Amounts, Amount
<1>4. \A f \in Figures : counter[f] = 0
  BY DEF Init
<1>6. \A f \in Figures : Count(f) = 0
  <2>1. 0 - 0 = 0
    OBVIOUS
  <2>2. Begun("total") = {} /\ Begun("active") = {}
    BY <1>2
  <2> QED BY <1>2, <1>3, <2>1, <2>2 DEF Count
<1>5. Orderly
  BY DEF Init, Orderly
<1> QED BY <1>1, <1>3, <1>4, <1>5, <1>6 DEF Tally

\* What is counted stays if the same requests have counted it.
LEMMA SameCount ==
  ASSUME Types, NEW f \in Figures,
         \A r \in Told : event'[r] = event[r],
         f \in {"total", "active"} => Begun(f)' = Begun(f),
         f # "total" => Reported(f)' = Reported(f)
  PROVE  Count(f)' = Count(f)
<1>1. CASE f = "total"
  BY <1>1 DEF Count
<1>2. CASE f = "active"
  BY <1>2 DEF Count
<1>3. CASE f \in {"successful", "failed"}
  BY <1>3 DEF Count
<1>4. CASE f \in {"csv", "parquet", "rows"}
  <2>1. Reported(f) \subseteq Told
    BY DEF Reported
  <2>2. Amounts(Reported(f))' = Amounts(Reported(f))
    BY <1>4, <2>1 DEF Amounts
  <2>3. Amount(Reported(f))' = Amount(Reported(f))
    BY <2>2 DEF Amount, Amounts
  <2> QED BY <1>4, <2>3 DEF Count
<1> QED BY <1>1, <1>2, <1>3, <1>4 DEF Figures

\* A step that updates no atomic.
LEMMA TallyStays ==
  ASSUME Types, Tally, UNCHANGED counter, Orderly',
         IsFiniteSet(Sent'), IsFiniteSet(Units(Amounts(Told)))',
         \A r \in Told : event'[r] = event[r],
         \A f \in {"total", "active"} : Begun(f)' = Begun(f),
         \A f \in Figures : Reported(f)' = Reported(f)
  PROVE  Tally'
<1>1. \A f \in Figures : Count(f)' = Count(f)
  BY SameCount
<1> QED BY <1>1 DEF Tally

\* One fetch_add of request_started counts the request in its figure alone
\* (metrics.rs, request_started).
LEMMA StartedKeepsTally ==
  ASSUME Types, Tally, NEW r \in Requests, CountStarted(r)
  PROVE  Tally'
<1>1. PICK i \in DOMAIN todo[r] :
        /\ counter' = [counter EXCEPT ![todo[r][i]] = @ + 1]
        /\ todo' = [todo EXCEPT ![r] = RemoveAt(@, i)]
  BY DEF CountStarted, Effective
<1>2. /\ stage[r] = "starting" /\ UNCHANGED event
      /\ stage' = [stage EXCEPT ![r] = IF todo'[r] = <<>> THEN "running" ELSE "starting"]
  BY DEF CountStarted
<1>3. PICK f : f = todo[r][i]
  OBVIOUS
<1>4. /\ todo[r] \in Seq(Figures) /\ Single(todo[r])
      /\ \A g : In(todo[r], g) => g \in {"total", "active"}
  BY <1>2 DEF Types, Tally, Orderly
<1>5. /\ RemoveAt(todo[r], i) \in Seq(Figures) /\ Single(RemoveAt(todo[r], i))
      /\ f \in {"total", "active"} /\ f \in Figures /\ In(todo[r], f)
      /\ \A g : In(RemoveAt(todo[r], i), g) <=> In(todo[r], g) /\ g # f
  BY <1>3, <1>4, RemoveAtIn
<1>6. /\ todo'[r] = RemoveAt(todo[r], i) /\ \A q \in Requests \ {r} : todo'[q] = todo[q]
      /\ stage'[r] \in {"running", "starting"}
      /\ stage'[r] = "running" => todo'[r] = <<>>
      /\ \A q \in Requests \ {r} : stage'[q] = stage[q]
      /\ stage' \in [Requests -> Stages]
  BY <1>1, <1>2 DEF Types, Stages
<1>7. \A g : ~In(<<>>, g)
  BY EmptySeq DEF In
<1>8. Sent' = Sent /\ r \in Sent /\ Told' = Told /\ r \notin Told
  BY <1>2, <1>6 DEF Sent, Told, InStage
<1>9. Begun(f)' = Begun(f) \cup {r} /\ r \notin Begun(f)
  <2>1. r \in Sent /\ ~(stage'[r] = "starting" /\ In(todo'[r], f))
    BY <1>5, <1>6, <1>8
  <2>2. r \notin Begun(f)
    BY <1>2, <1>5 DEF Begun
  <2>3. \A q \in Sent : q # r => (q \in Begun(f)' <=> q \in Begun(f))
    BY <1>6, <1>8 DEF Begun, Sent
  <2>4. r \in Begun(f)'
    BY <1>8, <2>1 DEF Begun
  <2>5. Begun(f)' \subseteq Sent /\ Begun(f) \subseteq Sent
    BY <1>8 DEF Begun
  <2> QED BY <1>8, <2>2, <2>3, <2>4, <2>5
<1>10. ASSUME NEW g, g # f PROVE Begun(g)' = Begun(g)
  <2>1. \A q \in Sent : q # r => (q \in Begun(g)' <=> q \in Begun(g))
    BY <1>6, <1>8 DEF Begun, Sent
  <2>2. r \in Begun(g)' <=> r \in Begun(g)
    <3>1. stage'[r] = "starting" /\ In(todo'[r], g) <=> In(todo[r], g)
      BY <1>5, <1>6, <1>7, <1>10
    <3> QED BY <1>2, <1>8, <3>1 DEF Begun
  <2>3. Begun(g)' \subseteq Sent /\ Begun(g) \subseteq Sent
    BY <1>8 DEF Begun
  <2> QED BY <2>1, <2>2, <2>3
<1>11. \A g : Reported(g)' = Reported(g)
  <2>1. \A q \in Told : stage'[q] = stage[q] /\ todo'[q] = todo[q] /\ event'[q] = event[q]
    BY <1>2, <1>6, <1>8 DEF Told, InStage
  <2> QED BY <1>8, <2>1 DEF Reported
<1>12. Orderly'
  <2>1. \A g : In(todo'[r], g) => g \in {"total", "active"}
    BY <1>4, <1>5, <1>6
  <2> QED BY <1>2, <1>5, <1>6, <2>1 DEF Tally, Orderly
<1>13. IsFiniteSet(Sent') /\ IsFiniteSet(Units(Amounts(Told)))'
  <2>1. Amounts(Told)' = Amounts(Told)
    BY <1>2, <1>8 DEF Amounts
  <2> QED BY <1>8, <2>1 DEF Tally
<1>14. /\ Cardinality(Begun(f)') = Cardinality(Begun(f)) + 1
       /\ Cardinality(Begun(f)) \in Nat
  <2>1. IsFiniteSet(Begun(f))
    BY FS_Subset DEF Begun, Tally
  <2> QED BY <1>9, <2>1, FS_AddElement, FS_CardinalityType
<1>15. ASSUME NEW g \in Figures PROVE counter'[g] = Count(g)'
  <2>1. counter[g] = Count(g) /\ counter'[g] = IF g = f THEN counter[g] + 1 ELSE counter[g]
    BY <1>1, <1>3, <1>5 DEF Tally, Types
  <2>2. CASE g # f
    <3>1. Count(g)' = Count(g)
      BY <1>2, <1>10, <1>11, <2>2, SameCount
    <3> QED BY <2>1, <2>2, <3>1
  <2>3. CASE g = f /\ f = "total"
    BY <1>14, <2>1, <2>3 DEF Count
  <2>4. CASE g = f /\ f = "active"
    <3>1. Reported("active")' = Reported("active") /\ Cardinality(Reported("active")) \in Nat
      BY <1>11, PartFinite DEF Reported
    <3>2. counter'[g] = Cardinality(Begun("active")) - Cardinality(Reported("active")) + 1
      BY <2>1, <2>4 DEF Count
    <3>3. Count(g)' = Cardinality(Begun("active")') - Cardinality(Reported("active")')
      BY <2>4 DEF Count
    <3> QED BY <1>14, <2>4, <3>1, <3>2, <3>3
  <2> QED BY <1>5, <2>2, <2>3, <2>4
<1> QED BY <1>12, <1>13, <1>15 DEF Tally

\* One update of record_request counts the request in its figure alone
\* (metrics.rs, record_request).
LEMMA RecordedKeepsTally ==
  ASSUME Types, Tally, NEW r \in Requests, CountRecorded(r)
  PROVE  Tally'
<1>1. PICK i \in DOMAIN todo[r] :
        /\ counter' = [counter EXCEPT ![todo[r][i]] = @ + Share(r, todo[r][i])]
        /\ todo' = [todo EXCEPT ![r] = RemoveAt(@, i)]
  BY DEF CountRecorded, Effective
<1>2. stage[r] = "recording" /\ UNCHANGED <<event, stage>>
  BY DEF CountRecorded
<1>3. PICK f : f = todo[r][i]
  OBVIOUS
<1>4. /\ todo[r] \in Seq(Figures) /\ Single(todo[r])
      /\ \A g : In(todo[r], g) => In(RecordedFigures(event[r]), g)
  BY <1>2 DEF Types, Tally, Orderly
<1>5. /\ RemoveAt(todo[r], i) \in Seq(Figures) /\ Single(RemoveAt(todo[r], i))
      /\ f \in Figures /\ In(todo[r], f)
      /\ \A g : In(RemoveAt(todo[r], i), g) <=> In(todo[r], g) /\ g # f
  BY <1>3, <1>4, RemoveAtIn
<1>6. todo'[r] = RemoveAt(todo[r], i) /\ \A q \in Requests \ {r} : todo'[q] = todo[q]
  BY <1>1 DEF Types
<1>7. /\ r \in Told /\ event[r] \in Events /\ In(RecordedFigures(event[r]), f)
      /\ Told' = Told /\ Sent' = Sent
  BY <1>2, <1>4, <1>5 DEF Told, Sent, InStage, Types
<1>8. f # "total"
  BY <1>7, FiguresOnce
<1>9. Reported(f)' = Reported(f) \cup {r} /\ r \notin Reported(f)
  <2>1. r \notin Reported(f) /\ r \in Reported(f)'
    BY <1>2, <1>5, <1>6, <1>7 DEF Reported
  <2>2. \A q \in Told : q # r => (q \in Reported(f)' <=> q \in Reported(f))
    BY <1>2, <1>6, <1>7 DEF Reported, Told, InStage
  <2>3. Reported(f)' \subseteq Told /\ Reported(f) \subseteq Told
    BY <1>7 DEF Reported
  <2> QED BY <1>7, <2>1, <2>2, <2>3
<1>10. ASSUME NEW g, g # f PROVE Reported(g)' = Reported(g)
  <2>1. \A q \in Told : q # r => (q \in Reported(g)' <=> q \in Reported(g))
    BY <1>2, <1>6, <1>7 DEF Reported, Told, InStage
  <2>2. r \in Reported(g)' <=> r \in Reported(g)
    BY <1>2, <1>5, <1>6, <1>7, <1>10 DEF Reported
  <2>3. Reported(g)' \subseteq Told /\ Reported(g) \subseteq Told
    BY <1>7 DEF Reported
  <2> QED BY <2>1, <2>2, <2>3
<1>11. \A g : Begun(g)' = Begun(g)
  <2>1. \A q \in Sent : stage'[q] = stage[q] /\ (stage[q] = "starting" => todo'[q] = todo[q])
    BY <1>2, <1>6 DEF Sent
  <2> QED BY <1>7, <2>1 DEF Begun
<1>12. Orderly'
  <2>1. \A g : In(todo'[r], g) => In(RecordedFigures(event[r]), g)
    BY <1>4, <1>5, <1>6
  <2> QED BY <1>2, <1>5, <1>6, <2>1 DEF Tally, Orderly
<1>13. IsFiniteSet(Sent') /\ IsFiniteSet(Units(Amounts(Told)))'
  <2>1. Amounts(Told)' = Amounts(Told)
    BY <1>2, <1>7 DEF Amounts
  <2> QED BY <1>7, <2>1 DEF Tally
<1>14. /\ Cardinality(Reported(f)') = Cardinality(Reported(f)) + 1
       /\ Cardinality(Reported(f)) \in Nat
       /\ Amount(Reported(f))' = Amount(Reported(f)) + event[r].amount
  <2>1. Reported(f) \subseteq Told
    BY DEF Reported
  <2>2. /\ Cardinality(Reported(f) \cup {r}) = Cardinality(Reported(f)) + 1
        /\ Amount(Reported(f) \cup {r}) = Amount(Reported(f)) + event[r].amount
    BY <1>7, <1>9, <2>1, PartGrows
  <2>3. Amounts(Reported(f))' = Amounts(Reported(f) \cup {r})
    BY <1>2, <1>9 DEF Amounts
  <2>4. Amount(Reported(f))' = Amount(Reported(f) \cup {r})
    BY <2>3 DEF Amount, Amounts
  <2> QED BY <1>9, <2>1, <2>2, <2>4, PartFinite
<1>15. ASSUME NEW g \in Figures PROVE counter'[g] = Count(g)'
  <2>1. /\ counter[g] = Count(g)
        /\ counter'[g] = IF g = f THEN counter[g] + Share(r, f) ELSE counter[g]
    BY <1>1, <1>3, <1>5 DEF Tally, Types
  <2>2. CASE g # f
    <3>1. Count(g)' = Count(g)
      BY <1>2, <1>10, <1>11, <2>2, SameCount
    <3> QED BY <2>1, <2>2, <3>1
  <2>3. CASE g = f /\ f = "active"
    <3>1. Begun("active")' = Begun("active") /\ Cardinality(Begun("active")) \in Nat
      <4>1. IsFiniteSet(Begun("active"))
        BY FS_Subset DEF Begun, Tally
      <4> QED BY <1>11, <4>1, FS_CardinalityType
    <3>2. counter'[g] = Cardinality(Begun("active")) - Cardinality(Reported("active")) + (-1)
      BY <2>1, <2>3 DEF Count, Share
    <3>3. Count(g)' = Cardinality(Begun("active")') - Cardinality(Reported("active")')
      BY <2>3 DEF Count
    <3> QED BY <1>14, <2>3, <3>1, <3>2, <3>3
  <2>4. CASE g = f /\ f \in {"successful", "failed"}
    <3>1. counter'[g] = Cardinality(Reported(f)) + 1
      BY <2>1, <2>4 DEF Count, Share
    <3>2. Count(g)' = Cardinality(Reported(f)')
      BY <2>4 DEF Count
    <3> QED BY <1>14, <3>1, <3>2
  <2>5. CASE g = f /\ f \in {"csv", "parquet", "rows"}
    <3>1. counter'[g] = Amount(Reported(f)) + event[r].amount
      BY <2>1, <2>5 DEF Count, Share
    <3>2. Count(g)' = Amount(Reported(f))'
      BY <2>5 DEF Count
    <3> QED BY <1>14, <3>1, <3>2
  <2> QED BY <1>5, <1>8, <2>2, <2>3, <2>4, <2>5 DEF Figures
<1> QED BY <1>12, <1>13, <1>15 DEF Tally

\* A request that starts, and one that record_request is called for, has all its
\* figures still to update (metrics.rs, request_started and record_request).
LEMMA BeginningsKeepTally ==
  ASSUME Types, Tally, NEW r \in Requests, Start(r) \/ Record(r)
  PROVE  Tally'
<1>1. CASE Start(r)
  <2>1. /\ stage[r] = "new" /\ UNCHANGED <<event, counter>>
        /\ stage'[r] = "starting" /\ \A q \in Requests \ {r} : stage'[q] = stage[q]
        /\ todo'[r] = StartedFigures /\ \A q \in Requests \ {r} : todo'[q] = todo[q]
    BY <1>1 DEF Start, metrics, Types
  <2>2. Sent' = Sent \cup {r} /\ Told' = Told /\ r \notin Told /\ r \notin Sent
    BY <2>1 DEF Sent, Told, InStage
  <2>3. IsFiniteSet(Sent') /\ IsFiniteSet(Units(Amounts(Told)))'
    <3>1. Amounts(Told)' = Amounts(Told)
      BY <2>1, <2>2 DEF Amounts
    <3> QED BY <2>2, <3>1, FS_AddElement DEF Tally
  <2>4. Orderly'
    BY <2>1, FiguresOnce DEF Tally, Orderly
  <2>5. ASSUME NEW f \in {"total", "active"} PROVE Begun(f)' = Begun(f)
    <3>1. r \notin Begun(f)'
      BY <2>1, FiguresOnce DEF Begun
    <3>2. \A q \in Sent : q \in Begun(f)' <=> q \in Begun(f)
      BY <2>1, <2>2 DEF Begun, Sent
    <3>3. Begun(f)' \subseteq Sent \cup {r} /\ Begun(f) \subseteq Sent
      BY <2>2 DEF Begun
    <3> QED BY <3>1, <3>2, <3>3
  <2>6. \A f \in Figures : Reported(f)' = Reported(f)
    <3>1. \A q \in Told : stage'[q] = stage[q] /\ todo'[q] = todo[q] /\ event'[q] = event[q]
      BY <2>1, <2>2 DEF Told, InStage
    <3> QED BY <2>2, <3>1 DEF Reported
  <2> QED BY <2>1, <2>3, <2>4, <2>5, <2>6, TallyStays
<1>2. CASE Record(r)
  <2>1. PICK e \in Events :
          /\ event' = [q \in DOMAIN event \cup {r} |-> IF q = r THEN e ELSE event[q]]
          /\ todo' = [todo EXCEPT ![r] = RecordedFigures(e)]
    BY <1>2 DEF Record
  <2>2. /\ stage[r] = "running" /\ UNCHANGED counter
        /\ stage'[r] = "recording" /\ \A q \in Requests \ {r} : stage'[q] = stage[q]
        /\ todo'[r] = RecordedFigures(e) /\ \A q \in Requests \ {r} : todo'[q] = todo[q]
    BY <1>2, <2>1 DEF Record, metrics, Types
  <2>3. Sent' = Sent /\ Told' = Told \cup {r} /\ r \notin Told
    BY <2>2 DEF Sent, Told, InStage
  <2>4. event'[r] = e /\ \A q \in Told : event'[q] = event[q]
    BY <2>1, <2>3 DEF Types
  <2>5. IsFiniteSet(Units(Amounts(Told)))'
    <3> DEFINE f == Amounts(Told)
               g == [q \in Told \cup {r} |-> event'[q].amount]
    <3>1. Amounts(Told)' = g
      BY <2>3 DEF Amounts
    <3>2. /\ r \notin DOMAIN f /\ DOMAIN g = DOMAIN f \cup {r} /\ g[r] = e.amount
          /\ \A q \in DOMAIN f : g[q] = f[q]
      BY <2>3, <2>4 DEF Amounts
    <3>3. IsFiniteSet(Units(f)) /\ e.amount \in Nat
      BY EventIs DEF Tally
    <3> HIDE DEF f, g
    <3>4. IsFiniteSet(Units(g))
      BY <3>2, <3>3, SumOneMore
    <3> QED BY <3>1, <3>4
  <2>6. Orderly'
    <3>1. \A q \in Requests : stage[q] = "recording" => q \in Told
      BY DEF Told, InStage
    <3>2. ASSUME NEW q \in Requests, stage'[q] = "starting"
          PROVE  /\ Single(todo'[q])
                 /\ \A f : In(todo'[q], f) => f \in {"total", "active"}
      BY <2>2, <3>2 DEF Tally, Orderly
    <3>3. ASSUME NEW q \in Requests, stage'[q] = "recording"
          PROVE  /\ Single(todo'[q])
                 /\ \A f : In(todo'[q], f) => In(RecordedFigures(event'[q]), f)
      <4>1. CASE q = r
        BY <2>2, <2>4, <4>1, FiguresOnce
      <4>2. CASE q # r
        BY <2>2, <2>4, <3>1, <3>3, <4>2 DEF Tally, Orderly
      <4> QED BY <4>1, <4>2
    <3> QED BY <3>2, <3>3 DEF Orderly
  <2>7. \A f \in {"total", "active"} : Begun(f)' = Begun(f)
    BY <2>2, <2>3 DEF Begun, Sent
  <2>8. ASSUME NEW f \in Figures PROVE Reported(f)' = Reported(f)
    <3>1. r \notin Reported(f)'
      BY <2>2, <2>4 DEF Reported
    <3>2. \A q \in Told : q \in Reported(f)' <=> q \in Reported(f)
      BY <2>2, <2>3, <2>4 DEF Reported, Told, InStage
    <3>3. Reported(f)' \subseteq Told \cup {r} /\ Reported(f) \subseteq Told
      BY <2>3 DEF Reported
    <3> QED BY <3>1, <3>2, <3>3
  <2>9. IsFiniteSet(Sent')
    BY <2>3 DEF Tally
  <2> QED BY <2>2, <2>4, <2>5, <2>6, <2>7, <2>8, <2>9, TallyStays
<1> QED BY <1>1, <1>2

\* Every step keeps the tally.
LEMMA TallyNext == Types /\ Tally /\ [Next]_vars => Tally'
<1> SUFFICES ASSUME Types, Tally, [Next]_vars PROVE Tally'
  OBVIOUS
<1>1. ASSUME UNCHANGED <<event, todo, counter>>,
             \A r \in Requests :
               \/ stage'[r] = stage[r]
               \/ /\ stage[r] = "recording" /\ todo[r] = <<>> /\ stage'[r] = "timed"
               \/ /\ stage[r] \in {"timed", "bucketed", "hosted"}
                  /\ stage'[r] \in {"bucketed", "hosted", "done"}
      PROVE  Tally'
  <2>1. \A f : ~In(<<>>, f)
    BY EmptySeq DEF In
  <2>2. Sent' = Sent /\ Told' = Told
    BY <1>1 DEF Sent, Told, InStage
  <2>3. IsFiniteSet(Sent') /\ IsFiniteSet(Units(Amounts(Told)))'
    <3>1. Amounts(Told)' = Amounts(Told)
      BY <1>1, <2>2 DEF Amounts
    <3> QED BY <2>2, <3>1 DEF Tally
  <2>4. Orderly'
    BY <1>1 DEF Tally, Orderly
  <2>5. \A f \in {"total", "active"} : Begun(f)' = Begun(f)
    BY <1>1, <2>2 DEF Begun, Sent
  <2>6. \A f \in Figures : Reported(f)' = Reported(f)
    BY <1>1, <2>1, <2>2 DEF Reported, Told, InStage
  <2> QED BY <1>1, <2>3, <2>4, <2>5, <2>6, TallyStays
<1>2. ASSUME NEW r \in Requests, Handle(r) PROVE Tally'
  <2>1. CASE Start(r) \/ Record(r)
    BY <2>1, BeginningsKeepTally
  <2>2. CASE CountStarted(r)
    BY <2>2, StartedKeepsTally
  <2>3. CASE CountRecorded(r)
    BY <2>3, RecordedKeepsTally
  <2>4. CASE ReadClock(r)
    BY <1>1, <2>4 DEF ReadClock, metrics, Types
  <2>5. CASE UpdateHistory(r) \/ UpdateClients(r) \/ UpdateRecent(r)
    BY <1>1, <2>5 DEF UpdateHistory, UpdateClients, UpdateRecent, Types
  <2> QED BY <1>2, <2>1, <2>2, <2>3, <2>4, <2>5 DEF Handle
<1>3. ASSUME NEW q \in Readers, Snapshot(q) PROVE Tally'
  <2>1. UNCHANGED <<stage, event, todo, counter>>
    BY <1>3 DEF Snapshot, BeginSnapshot, LoadCounter, SnapshotClock, ReadHistory, ReadClients,
                ReadRecent, metrics, requestVars
  <2> QED BY <1>1, <2>1
<1>4. CASE Tick
  BY <1>1, <1>4 DEF Tick, metrics, requestVars
<1>5. CASE UNCHANGED vars
  BY <1>1, <1>5 DEF vars, metrics, requestVars
<1> QED BY <1>2, <1>3, <1>4, <1>5 DEF Next

\* No counter is ever negative: a request is taken out of the gauge only after it
\* was counted into it (metrics.rs, request_started and record_request).
LEMMA CountersNotNegative ==
  ASSUME Types, Tally
  PROVE  counter \in [Figures -> Nat]
<1>1. ASSUME NEW f \in Figures PROVE Count(f) \in Nat
  <2>1. Reported(f) \subseteq Told /\ Reported("active") \subseteq Begun("active")
    BY DEF Reported, Begun, Told, Sent, InStage
  <2>2. IsFiniteSet(Begun("total")) /\ IsFiniteSet(Begun("active"))
    BY FS_Subset DEF Begun, Tally
  <2>3. Cardinality(Reported("active")) <= Cardinality(Begun("active"))
    BY <2>1, <2>2, FS_Subset
  <2>4. /\ Cardinality(Begun("total")) \in Nat /\ Cardinality(Begun("active")) \in Nat
        /\ Cardinality(Reported("active")) \in Nat
    BY <2>1, <2>2, FS_Subset, FS_CardinalityType
  <2>5. Cardinality(Reported(f)) \in Nat /\ Amount(Reported(f)) \in Nat
    BY <2>1, PartFinite
  <2> QED BY <2>3, <2>4, <2>5 DEF Count
<1> QED BY <1>1 DEF Types, Tally

--------------------------------------------------------------------------------
(* The clients, and all parts together.                                    *)

Hosted == InStage({"hosted", "done"})
Of(c) == {r \in Hosted : event[r].client = c}
Shown == [c \in Clients |-> clients[c].amount]

\* The figures of each client are those of its requests, and add up to those of
\* all requests.
ClientTally ==
  /\ \A c \in Clients : /\ clients[c].requests = Cardinality(Of(c))
                        /\ clients[c].amount = Amount(Of(c))
  /\ IsFiniteSet(Units(Shown)) /\ Sum(Shown) = Amount(Hosted)

\* No client has an entry at first (metrics.rs, new).
LEMMA ClientsInit == Init => ClientTally
<1> SUFFICES ASSUME Init PROVE ClientTally
  OBVIOUS
<1>1. Hosted = {} /\ \A c : Of(c) = {}
  BY DEF Init, Hosted, Of, InStage
<1>2. /\ IsFiniteSet({}) /\ Cardinality({}) = 0 /\ Amount({}) = 0
  BY FS_EmptySet, SumNothing DEF Amount
<1>3. \A c \in Clients : clients[c].requests = 0 /\ clients[c].amount = 0
  BY DEF Init, Zero
<1>4. Units(Shown) = {}
  BY <1>3 DEF Units, Shown
<1> QED BY <1>1, <1>2, <1>3, <1>4 DEF ClientTally, Sum

\* A step that does not come to the clients.
LEMMA ClientsStay ==
  ASSUME ClientTally, UNCHANGED clients, Hosted' = Hosted,
         \A r \in Hosted : event'[r] = event[r]
  PROVE  ClientTally'
<1>1. \A c : Of(c)' = Of(c)
  BY DEF Of
<1>2. /\ \A c : Amounts(Of(c))' = Amounts(Of(c))
      /\ Amounts(Hosted)' = Amounts(Hosted)
  BY <1>1 DEF Amounts, Of
<1>3. (\A c : Amount(Of(c))' = Amount(Of(c))) /\ Amount(Hosted)' = Amount(Hosted)
  BY <1>2 DEF Amount, Amounts
<1>4. Shown' = Shown
  BY DEF Shown
<1> QED BY <1>1, <1>3, <1>4 DEF ClientTally

\* A request is added to the figures of its client (metrics.rs, record_request,
\* under the lock of the clients).
LEMMA UpdateKeepsClients ==
  ASSUME Types, Tally, ClientTally, NEW r \in Requests, UpdateClients(r)
  PROVE  ClientTally'
<1>0. PICK c : c = event[r].client
  OBVIOUS
<1>a. PICK a : a = event[r].amount
  OBVIOUS
<1>1. /\ stage[r] = "bucketed" /\ stage' = [stage EXCEPT ![r] = "hosted"]
      /\ clients' = [clients EXCEPT ![c] = Add(clients[c], a)]
      /\ UNCHANGED event
  BY <1>0, <1>a DEF UpdateClients
<1>2. r \in Told /\ c \in Clients /\ a \in Nat
  <2>1. r \in Told
    BY <1>1 DEF Told, InStage
  <2> QED BY <1>0, <1>a, <2>1, EventIs DEF Types
<1>3. Hosted' = Hosted \cup {r} /\ r \notin Hosted /\ Hosted \subseteq Told
  BY <1>1 DEF Hosted, Told, InStage, Types
<1>4. /\ Of(c)' = Of(c) \cup {r} /\ r \notin Of(c) /\ Of(c) \subseteq Told
      /\ \A d : d # c => Of(d)' = Of(d)
  BY <1>0, <1>1, <1>3 DEF Of
<1>5. /\ Cardinality(Of(c) \cup {r}) = Cardinality(Of(c)) + 1
      /\ Amount(Of(c) \cup {r}) = Amount(Of(c)) + a
      /\ Amount(Hosted \cup {r}) = Amount(Hosted) + a
  BY <1>a, <1>2, <1>3, <1>4, PartGrows
<1>6. /\ Amount(Of(c))' = Amount(Of(c)) + a
      /\ Amount(Hosted)' = Amount(Hosted) + a
      /\ \A d : d # c => Amount(Of(d))' = Amount(Of(d))
  <2>1. /\ Amounts(Of(c))' = Amounts(Of(c) \cup {r})
        /\ Amounts(Hosted)' = Amounts(Hosted \cup {r})
        /\ \A d : d # c => Amounts(Of(d))' = Amounts(Of(d))
    BY <1>1, <1>3, <1>4 DEF Amounts
  <2>2. /\ Amount(Of(c))' = Amount(Of(c) \cup {r})
        /\ Amount(Hosted)' = Amount(Hosted \cup {r})
        /\ \A d : d # c => Amount(Of(d))' = Amount(Of(d))
    BY <2>1 DEF Amount, Amounts
  <2> QED BY <1>5, <2>2
<1>7. /\ clients[c] \in Stats
      /\ clients'[c] = Add(clients[c], a)
      /\ \A d \in Clients \ {c} : clients'[d] = clients[d]
  BY <1>1, <1>2 DEF Types
<1>8. /\ clients'[c].requests = clients[c].requests + 1
      /\ clients'[c].amount = clients[c].amount + a
  BY <1>2, <1>7, AddStats
<1>9. ASSUME NEW d \in Clients
      PROVE  /\ clients'[d].requests = Cardinality(Of(d)')
             /\ clients'[d].amount = Amount(Of(d))'
  <2>1. CASE d = c
    BY <1>4, <1>5, <1>6, <1>8, <2>1 DEF ClientTally
  <2>2. CASE d # c
    BY <1>4, <1>6, <1>7, <2>2 DEF ClientTally
  <2> QED BY <2>1, <2>2
<1>10. IsFiniteSet(Units(Shown')) /\ Sum(Shown') = Sum(Shown) + a
  <2>1. PICK f : f = Shown
    OBVIOUS
  <2>2. PICK g : g = Shown'
    OBVIOUS
  <2>3. c \in DOMAIN f /\ f[c] \in Nat
    BY <1>2, <1>7, <2>1 DEF Shown, Stats
  <2>4. g = [f EXCEPT ![c] = f[c] + a]
    BY <1>2, <1>7, <1>8, <2>1, <2>2 DEF Shown
  <2>5. IsFiniteSet(Units(f))
    BY <2>1 DEF ClientTally
  <2>6. IsFiniteSet(Units(g)) /\ Sum(g) = Sum(f) + a
    BY <1>2, <2>3, <2>4, <2>5, SumAdded
  <2> QED BY <2>1, <2>2, <2>6
<1> QED BY <1>6, <1>9, <1>10 DEF ClientTally

\* Every step keeps the figures of the clients.
LEMMA ClientsNext == Types /\ Tally /\ ClientTally /\ [Next]_vars => ClientTally'
<1> SUFFICES ASSUME Types, Tally, ClientTally, [Next]_vars PROVE ClientTally'
  OBVIOUS
<1>1. ASSUME NEW r \in Requests, Handle(r) PROVE ClientTally'
  <2>1. CASE UpdateClients(r)
    BY <2>1, UpdateKeepsClients
  <2>2. CASE Record(r)
    <3>1. UNCHANGED clients /\ Hosted' = Hosted
      BY <2>2 DEF Record, metrics, Hosted, InStage, Types
    <3>2. \A q \in Hosted : event'[q] = event[q]
      BY <2>2 DEF Record, Hosted, Told, InStage, Types
    <3> QED BY <3>1, <3>2, ClientsStay
  <2>3. CASE \/ Start(r) \/ CountStarted(r) \/ CountRecorded(r) \/ ReadClock(r)
             \/ UpdateHistory(r) \/ UpdateRecent(r)
    <3>1. UNCHANGED <<clients, event>>
      BY <2>3 DEF Start, CountStarted, CountRecorded, ReadClock, UpdateHistory, UpdateRecent,
                  metrics
    <3>2. \A q \in Requests : \/ stage'[q] = stage[q]
                              \/ stage[q] = "hosted" /\ stage'[q] = "done"
                              \/ /\ stage[q] \notin {"hosted", "done"}
                                 /\ stage'[q] \notin {"hosted", "done"}
      BY <2>3 DEF Start, CountStarted, CountRecorded, ReadClock, UpdateHistory, UpdateRecent,
                  Types
    <3>3. Hosted' = Hosted
      BY <3>2 DEF Hosted, InStage
    <3> QED BY <3>1, <3>3, ClientsStay
  <2> QED BY <1>1, <2>1, <2>2, <2>3 DEF Handle
<1>2. ASSUME UNCHANGED <<stage, event, clients>> PROVE ClientTally'
  <2>1. Hosted' = Hosted
    BY <1>2 DEF Hosted, InStage
  <2> QED BY <1>2, <2>1, ClientsStay
<1>3. ASSUME NEW q \in Readers, Snapshot(q) PROVE ClientTally'
  <2>1. UNCHANGED <<stage, event, clients>>
    BY <1>3 DEF Snapshot, BeginSnapshot, LoadCounter, SnapshotClock, ReadHistory, ReadClients,
                ReadRecent, metrics, requestVars
  <2> QED BY <1>2, <2>1
<1>4. CASE Tick
  BY <1>2, <1>4 DEF Tick, metrics, requestVars
<1>5. CASE UNCHANGED vars
  BY <1>2, <1>5 DEF vars, metrics, requestVars
<1> QED BY <1>1, <1>3, <1>4, <1>5 DEF Next

\* Each event counts as successful or failed, and as CSV or Parquet, never both.
LEMMA RecordedOnceEach ==
  ASSUME NEW e \in Events
  PROVE  /\ In(RecordedFigures(e), "active") /\ In(RecordedFigures(e), "rows")
         /\ In(RecordedFigures(e), "successful") <=> ~In(RecordedFigures(e), "failed")
         /\ In(RecordedFigures(e), "csv") <=> ~In(RecordedFigures(e), "parquet")
<1>1. \A f : In(RecordedFigures(e), f) <=>
        \/ f \in {"active", "rows"}
        \/ f = IF e.status < 400 THEN "successful" ELSE "failed"
        \/ f = IF e.format = "P" THEN "parquet" ELSE "csv"
  BY FiguresOnce
<1>2. /\ In(RecordedFigures(e), "active") /\ In(RecordedFigures(e), "rows")
      /\ In(RecordedFigures(e), "successful") <=> e.status < 400
      /\ In(RecordedFigures(e), "failed") <=> ~(e.status < 400)
      /\ In(RecordedFigures(e), "csv") <=> e.format # "P"
      /\ In(RecordedFigures(e), "parquet") <=> e.format = "P"
  BY <1>1
<1> QED BY <1>2

\* Two parts that have nothing in common add up to the whole.
LEMMA Halves ==
  ASSUME Types, Tally, NEW S, NEW T, S \subseteq Told, T \subseteq Told, S \cap T = {}
  PROVE  /\ Cardinality(S \cup T) = Cardinality(S) + Cardinality(T)
         /\ Amount(S \cup T) = Amount(S) + Amount(T)
<1>1. /\ IsFiniteSet(S) /\ IsFiniteSet(T)
      /\ IsFiniteSet(Units(Amounts(S))) /\ IsFiniteSet(Units(Amounts(T)))
      /\ Cardinality(S) \in Nat /\ Cardinality(T) \in Nat
  BY PartFinite
<1>2. Cardinality(S \cup T) = Cardinality(S) + Cardinality(T)
  <2>1. Cardinality(S \cup T) = Cardinality(S) + Cardinality(T) - Cardinality(S \cap T)
    BY <1>1, FS_Union
  <2>2. Cardinality(S \cap T) = 0
    BY FS_EmptySet
  <2>3. \A i, j \in Nat : i + j - 0 = i + j
    OBVIOUS
  <2> QED BY <1>1, <2>1, <2>2, <2>3
<1>3. Amount(S \cup T) = Amount(S) + Amount(T)
  <2>1. /\ DOMAIN Amounts(S) = S /\ DOMAIN Amounts(T) = T
        /\ DOMAIN Amounts(S \cup T) = S \cup T
        /\ \A r \in S : Amounts(S \cup T)[r] = Amounts(S)[r]
        /\ \A r \in T : Amounts(S \cup T)[r] = Amounts(T)[r]
    BY DEF Amounts
  <2>2. Sum(Amounts(S \cup T)) = Sum(Amounts(S)) + Sum(Amounts(T))
    BY <1>1, <2>1, SumApart
  <2> QED BY <2>2 DEF Amount, Amounts
<1> QED BY <1>2, <1>3

\* With nobody at work, every part is about the requests that are running or
\* done.
LEMMA AtRest ==
  ASSUME Types, Tally, ClientTally, InStage({"new", "running", "done"}) = Requests
  PROVE  /\ counter["active"] = Cardinality(InStage({"running"}))
         /\ counter["total"] = counter["successful"] + counter["failed"] + counter["active"]
         /\ counter["rows"] = counter["csv"] + counter["parquet"]
         /\ counter["rows"] = Sum(Shown)
         /\ \A c \in Clients : clients[c] = [requests |-> Cardinality(From(c)),
                                             amount |-> Amount(From(c))]
<1> DEFINE Running == InStage({"running"})
           Done == InStage({"done"})
<1>1. \A r \in Requests : stage[r] \in {"new", "running", "done"}
  BY DEF InStage
<1>2. /\ Sent = Running \cup Done /\ Running \cap Done = {}
      /\ Told = Done /\ Hosted = Done
  BY <1>1 DEF Sent, Told, Hosted, InStage
<1>3. Begun("total") = Sent /\ Begun("active") = Sent
  BY <1>1 DEF Begun, Sent
<1>4. \A f : Reported(f) = {r \in Done : In(RecordedFigures(event[r]), f)}
  BY <1>1, <1>2 DEF Reported, Told, InStage
<1>5. \A r \in Done : event[r] \in Events
  BY <1>2 DEF Types
<1>6. /\ Reported("active") = Done /\ Reported("rows") = Done
      /\ Reported("successful") \cup Reported("failed") = Done
      /\ Reported("successful") \cap Reported("failed") = {}
      /\ Reported("csv") \cup Reported("parquet") = Done
      /\ Reported("csv") \cap Reported("parquet") = {}
  <2>1. ASSUME NEW r \in Done
        PROVE  /\ In(RecordedFigures(event[r]), "active")
               /\ In(RecordedFigures(event[r]), "rows")
               /\ In(RecordedFigures(event[r]), "successful")
                    <=> ~In(RecordedFigures(event[r]), "failed")
               /\ In(RecordedFigures(event[r]), "csv")
                    <=> ~In(RecordedFigures(event[r]), "parquet")
    BY <1>5, RecordedOnceEach
  <2> HIDE DEF Done
  <2> QED BY <1>4, <2>1
<1>7. /\ IsFiniteSet(Running) /\ IsFiniteSet(Done)
      /\ Cardinality(Running) \in Nat /\ Cardinality(Done) \in Nat
      /\ Cardinality(Sent) = Cardinality(Running) + Cardinality(Done)
  <2>1. IsFiniteSet(Running) /\ IsFiniteSet(Done)
    BY <1>2, FS_Subset DEF Tally
  <2>2. /\ Cardinality(Running) \in Nat /\ Cardinality(Done) \in Nat
        /\ Cardinality(Running \cap Done) = 0
    BY <1>2, <2>1, FS_CardinalityType, FS_EmptySet
  <2> HIDE DEF Running, Done
  <2>3. Cardinality(Running \cup Done) =
          Cardinality(Running) + Cardinality(Done) - Cardinality(Running \cap Done)
    BY <2>1, FS_Union
  <2> QED BY <1>2, <2>1, <2>2, <2>3
<1> HIDE DEF Running, Done
<1>8. \A f \in Figures : Reported(f) \subseteq Told
  BY DEF Reported
<1>9. /\ Cardinality(Done) = Cardinality(Reported("successful")) + Cardinality(Reported("failed"))
      /\ Cardinality(Reported("successful")) \in Nat
      /\ Cardinality(Reported("failed")) \in Nat
  BY <1>6, <1>8, Halves, PartFinite DEF Figures
<1>10. Amount(Done) = Amount(Reported("csv")) + Amount(Reported("parquet"))
  BY <1>6, <1>8, Halves DEF Figures
<1>11. /\ counter["active"] = Cardinality(Sent) - Cardinality(Done)
       /\ counter["total"] = Cardinality(Sent)
       /\ counter["successful"] = Cardinality(Reported("successful"))
       /\ counter["failed"] = Cardinality(Reported("failed"))
       /\ counter["csv"] = Amount(Reported("csv"))
       /\ counter["parquet"] = Amount(Reported("parquet"))
       /\ counter["rows"] = Amount(Done)
  BY <1>3, <1>6 DEF Tally, Count, Figures
<1>12. counter["active"] = Cardinality(Running)
  BY <1>7, <1>11
<1>13. counter["total"] = counter["successful"] + counter["failed"] + counter["active"]
  BY <1>7, <1>9, <1>11, <1>12
<1>14. counter["rows"] = counter["csv"] + counter["parquet"]
  BY <1>10, <1>11
<1>15. counter["rows"] = Sum(Shown)
  BY <1>2, <1>11 DEF ClientTally
<1>16. ASSUME NEW c \in Clients
       PROVE  clients[c] = [requests |-> Cardinality(From(c)), amount |-> Amount(From(c))]
  <2>1. From(c) = Of(c)
    BY <1>2 DEF From, Of, Done
  <2>2. /\ clients[c] \in Stats
        /\ clients[c].requests = Cardinality(From(c)) /\ clients[c].amount = Amount(From(c))
    BY <2>1 DEF ClientTally, Types
  <2> QED BY <2>2 DEF Stats
<1> QED BY <1>12, <1>13, <1>14, <1>15, <1>16 DEF Running

MetricsInv == Types /\ Tally /\ ClientTally /\ Newest

\* The invariant of the counters, clients and log holds in every reachable state.
LEMMA MetricsInvariant == Spec => []MetricsInv
<1>1. Init => MetricsInv
  <2>1. Len(<<>>) = 0 /\ MaxRecent \in Nat \ {0}
    BY EmptySeq, MetricsAssumption
  <2>2. Init => Newest
    BY <2>1 DEF Init, Newest
  <2> QED BY <2>2, TypesInit, TallyInit, ClientsInit DEF MetricsInv
<1>2. MetricsInv /\ [Next]_vars => MetricsInv'
  BY TypesNext, TallyNext, ClientsNext, NewestNext DEF MetricsInv
<1> QED BY <1>1, <1>2, PTL DEF Spec

\* Whenever nobody is inside request_started or record_request, the counters add
\* up, and so do the figures of the clients, although each was updated on its own
\* and, if the platform so pleases, in any order (metrics.rs, record_request).
THEOREM ConsistentAtRest == Spec => []AtRestConsistent
<1>1. MetricsInv => AtRestConsistent
  BY AtRest DEF MetricsInv, AtRestConsistent, Shown
<1> QED BY <1>1, MetricsInvariant, PTL

\* No counter is ever negative, and the log keeps to its bound, in every state in
\* between (metrics.rs, record_request).
THEOREM TypeCorrect == Spec => []TypeOK
<1>1. MetricsInv => TypeOK
  <2> SUFFICES ASSUME MetricsInv PROVE TypeOK
    OBVIOUS
  <2>1. counter \in [Figures -> Nat]
    BY CountersNotNegative DEF MetricsInv
  <2>2. Len(recent) <= MaxRecent
    <3>1. recent \in Seq(Requests) /\ log \in Seq(Requests)
      BY DEF MetricsInv, Types
    <3>2. Len(log) \in Nat /\ MaxRecent \in Nat
      BY <3>1, LenProperties, MetricsAssumption
    <3> QED BY <3>2 DEF MetricsInv, Newest
  <2>3. \A r \in DOMAIN event : r \in Requests /\ event[r] \in Events
    BY DEF MetricsInv, Types, Told, InStage
  <2> QED BY <2>1, <2>2, <2>3 DEF MetricsInv, Types, TypeOK, Bucket
<1> QED BY <1>1, MetricsInvariant, PTL

--------------------------------------------------------------------------------
(* Snapshots, which read one part after the other while requests go on.    *)

View == [figures : [Figures -> Int], now : Nat, seen : Nat, points : Seq(Nat),
         clients : [Clients -> Stats], recent : Seq(Requests)]

\* A request that is done is in the log.
Logged == \A r \in InStage({"done"}) : In(log, r)

\* The figures that record_request alone adds to.
FiveFigures == {"successful", "failed", "csv", "parquet", "rows"}

\* What the requests that were done before the snapshot have in a figure.
Before(q, f) == {r \in settled[q] : In(RecordedFigures(event[r]), f)}
Due(q, f) == IF f \in {"successful", "failed"} THEN Cardinality(Before(q, f))
                                               ELSE Amount(Before(q, f))

FiguresCover(q) ==
  /\ reader[q] = "loading" => Single(toLoad[q])
  /\ reader[q] # "idle" =>
       \A f \in FiveFigures :
         \/ reader[q] = "loading" /\ In(toLoad[q], f)
         \/ view[q].figures[f] >= Due(q, f)

PointTrue(q, k) ==
  LET s == Window(view[q].now)[k]
  IN  /\ view[q].points[k] \in Nat
      /\ view[q].points[k] <= Cardinality(Bucketed(s))
      /\ s > view[q].seen - RingSize /\ Undisturbed(s) =>
           view[q].points[k] >= Cardinality(settled[q] \cap Bucketed(s))

PointsTrue(q) ==
  reader[q] \in {"history", "clients", "done"} => \A k \in 1 .. RingSize : PointTrue(q, k)

ClientsCover(q) ==
  reader[q] \in {"clients", "done"} =>
    \A c \in Clients :
      view[q].clients[c].requests >= Cardinality({r \in settled[q] : event[r].client = c})

RecentCovers(q) ==
  reader[q] = "done" =>
    settled[q] \subseteq ToSet(view[q].recent) \/ Len(view[q].recent) = MaxRecent

Covers(q) == FiguresCover(q) /\ PointsTrue(q) /\ ClientsCover(q) /\ RecentCovers(q)

ReaderInv ==
  /\ view \in [Readers -> View]
  /\ \A q \in Readers : settled[q] \subseteq InStage({"done"})
  /\ Logged
  /\ \A q \in Readers : Covers(q)

\* All that the proofs about snapshots rest on.
Base == Types /\ Tally /\ ClientTally /\ Newest /\ Ring

\* No snapshot has begun at first.
LEMMA ReaderInit == Init => ReaderInv
<1> SUFFICES ASSUME Init PROVE ReaderInv
  OBVIOUS
<1>1. view \in [Readers -> View]
  <2>1. <<>> \in Seq(Nat) /\ <<>> \in Seq(Requests)
    BY EmptySeq
  <2>2. [c \in Clients |-> Zero] \in [Clients -> Stats]
    BY DEF Zero, Stats
  <2>3. [f \in Figures |-> 0] \in [Figures -> Int]
    OBVIOUS
  <2>4. [figures |-> [f \in Figures |-> 0], now |-> 0, seen |-> 0, points |-> <<>>,
         clients |-> [c \in Clients |-> Zero], recent |-> <<>>] \in View
    BY <2>1, <2>2, <2>3 DEF View
  <2> QED BY <2>4 DEF Init
<1>2. \A q \in Readers : settled[q] = {} /\ reader[q] = "idle"
  BY DEF Init
<1>3. Logged
  BY DEF Init, Logged, InStage
<1>4. \A q \in Readers : Covers(q)
  BY <1>2 DEF Covers, FiguresCover, PointsTrue, ClientsCover, RecentCovers
<1> QED BY <1>1, <1>2, <1>3, <1>4 DEF ReaderInv

\* What a request has behind it stays: its second, its event, and that it is done.
LEMMA HandledStays ==
  ASSUME Types, Ring, Tick \/ \E r \in Requests : Handle(r)
  PROVE  /\ UNCHANGED <<reader, toLoad, view, settled>>
         /\ InStage({"done"}) \subseteq InStage({"done"})' /\ InRing \subseteq InRing'
         /\ \A q \in InRing : second'[q] = second[q] /\ event'[q] = event[q]
         /\ late \subseteq late'
<1>1. CASE Tick
  BY <1>1 DEF Tick, requestVars, readerVars, InRing, InStage
<1>2. ASSUME NEW r \in Requests, Handle(r)
      PROVE  /\ UNCHANGED <<reader, toLoad, view, settled>>
             /\ InStage({"done"}) \subseteq InStage({"done"})' /\ InRing \subseteq InRing'
             /\ \A q \in InRing : second'[q] = second[q] /\ event'[q] = event[q]
             /\ late \subseteq late'
  <2>1. UNCHANGED <<reader, toLoad, view, settled>>
    BY <1>2 DEF Handle, Start, CountStarted, Record, CountRecorded, ReadClock, UpdateHistory,
                UpdateClients, UpdateRecent, readerVars
  <2>2. \A q \in Requests : \/ stage'[q] = stage[q]
                            \/ /\ stage[q] = "bucketed" /\ stage'[q] = "hosted"
                            \/ /\ stage[q] = "hosted" /\ stage'[q] = "done"
                            \/ stage[q] \notin {"bucketed", "hosted", "done"}
    BY <1>2 DEF Handle, Start, CountStarted, Record, CountRecorded, ReadClock, UpdateHistory,
                UpdateClients, UpdateRecent, Types
  <2>3. InStage({"done"}) \subseteq InStage({"done"})' /\ InRing \subseteq InRing'
    BY <2>2 DEF InRing, InStage
  <2>4. late \subseteq late'
    BY <1>2 DEF Handle, Start, CountStarted, Record, CountRecorded, ReadClock, UpdateHistory,
                UpdateClients, UpdateRecent
  <2>5. \A q \in InRing : second'[q] = second[q]
    BY <1>2 DEF Handle, Start, CountStarted, Record, CountRecorded, ReadClock, UpdateHistory,
                UpdateClients, UpdateRecent, InRing, InStage, Types
  <2>6. \A q \in InRing : event'[q] = event[q]
    <3>1. CASE Record(r)
      BY <3>1 DEF Record, InRing, InStage, Told, Types
    <3>2. CASE UNCHANGED event
      BY <3>2
    <3> QED BY <1>2, <3>1, <3>2
            DEF Handle, Start, CountStarted, CountRecorded, ReadClock, UpdateHistory,
                UpdateClients, UpdateRecent
  <2> QED BY <2>1, <2>3, <2>4, <2>5, <2>6
<1> QED BY <1>1, <1>2

\* The seconds of a snapshot are seconds.
LEMMA WindowIs ==
  ASSUME NEW now \in Nat, NEW k \in 1 .. RingSize
  PROVE  Window(now)[k] \in Nat
<1>1. RingSize \in Nat
  BY MetricsAssumption
<1>2. Window(now)[k] = IF now + k > RingSize THEN now + k - RingSize ELSE 0
  BY DEF Window
<1> QED BY <1>1, <1>2

\* What a request may not change of what a snapshot rests on.
Kept ==
  /\ InStage({"done"}) \subseteq InStage({"done"})' /\ InRing \subseteq InRing'
  /\ \A r \in InRing : second'[r] = second[r] /\ event'[r] = event[r]
  /\ late \subseteq late'

\* A snapshot that does not move goes on covering what it had to.
LEMMA CoversStays ==
  ASSUME Types, Past, Finite', Kept,
         NEW q \in Readers, view[q] \in View, settled[q] \subseteq InStage({"done"}), Covers(q),
         reader'[q] = reader[q], toLoad'[q] = toLoad[q], view'[q] = view[q],
         settled'[q] = settled[q]
  PROVE  Covers(q)'
<1>1. settled[q] \subseteq InRing
  BY DEF InStage, InRing
<1>2. \A r \in settled[q] : second'[r] = second[r] /\ event'[r] = event[r]
  BY <1>1 DEF Kept
<1>3. FiguresCover(q)'
  <2>1. ASSUME NEW f PROVE Due(q, f)' = Due(q, f)
    <3>1. Before(q, f)' = Before(q, f)
      BY <1>2 DEF Before
    <3>2. Before(q, f) \subseteq settled[q]
      BY DEF Before
    <3>3. Amounts(Before(q, f))' = Amounts(Before(q, f))
      BY <1>2, <3>1, <3>2 DEF Amounts
    <3>4. Amount(Before(q, f))' = Amount(Before(q, f))
      BY <3>3 DEF Amount, Amounts
    <3> QED BY <3>1, <3>4 DEF Due
  <2> QED BY <2>1 DEF Covers, FiguresCover
<1>4. PointsTrue(q)'
  <2> SUFFICES ASSUME reader[q] \in {"history", "clients", "done"}, NEW k \in 1 .. RingSize
               PROVE  PointTrue(q, k)'
    BY DEF PointsTrue
  <2>1. PICK s : s = Window(view[q].now)[k]
    OBVIOUS
  <2>2. s \in Nat
    BY <2>1, WindowIs DEF View
  <2>3. /\ view[q].points[k] \in Nat
        /\ view[q].points[k] <= Cardinality(Bucketed(s))
        /\ s > view[q].seen - RingSize /\ Undisturbed(s) =>
             view[q].points[k] >= Cardinality(settled[q] \cap Bucketed(s))
    BY <2>1 DEF Covers, PointsTrue, PointTrue
  <2>4. Bucketed(s) \subseteq Bucketed(s)'
    BY DEF Kept, Bucketed, InRing, InStage
  <2>5. settled[q] \cap Bucketed(s)' = settled[q] \cap Bucketed(s)
    BY <1>1, <1>2 DEF Kept, Bucketed, InRing, InStage
  <2>6. Undisturbed(s)' => Undisturbed(s)
    BY DEF Kept, Past, Undisturbed
  <2>7. Cardinality(Bucketed(s)) <= Cardinality(Bucketed(s)')
        /\ Cardinality(Bucketed(s)) \in Nat /\ Cardinality(Bucketed(s)') \in Nat
    <3>1. IsFiniteSet(Bucketed(s)')
      BY <2>2 DEF Finite
    <3> QED BY <2>4, <3>1, FS_Subset, FS_CardinalityType
  <2>8. view[q].points[k] <= Cardinality(Bucketed(s)')
    BY <2>3, <2>7
  <2>9. /\ view'[q].points[k] \in Nat
        /\ view'[q].points[k] <= Cardinality(Bucketed(s)')
        /\ s > view'[q].seen - RingSize /\ Undisturbed(s)' =>
             view'[q].points[k] >= Cardinality(settled'[q] \cap Bucketed(s)')
    BY <2>3, <2>5, <2>6, <2>8
  <2>10. s = Window(view'[q].now)[k]
    BY <2>1
  <2> QED BY <2>9, <2>10 DEF PointTrue, Window
<1>5. ClientsCover(q)'
  <2>1. \A c : {r \in settled'[q] : event'[r].client = c} = {r \in settled[q] : event[r].client = c}
    BY <1>2
  <2> QED BY <2>1 DEF Covers, ClientsCover
<1>6. RecentCovers(q)'
  BY DEF Covers, RecentCovers
<1> QED BY <1>3, <1>4, <1>5, <1>6 DEF Covers

\* A snapshot changes nothing that another one rests on.
LEMMA SnapshotKeeps ==
  ASSUME NEW q \in Readers, Snapshot(q), Types, Ring, view \in [Readers -> View]
  PROVE  /\ UNCHANGED <<clock, requestVars, metrics>> /\ Kept /\ Ring'
         /\ \A p \in Readers \ {q} :
              /\ reader'[p] = reader[p] /\ toLoad'[p] = toLoad[p] /\ settled'[p] = settled[p]
              /\ view'[p] = view[p]
<1>1. UNCHANGED <<clock, requestVars, metrics>>
  BY DEF Snapshot, BeginSnapshot, LoadCounter, SnapshotClock, ReadHistory, ReadClients,
         ReadRecent
<1>2. Kept
  BY <1>1 DEF Kept, requestVars, InStage, InRing
<1>3. Ring'
  BY RingNext DEF Next
<1>4. ASSUME NEW p \in Readers \ {q}
      PROVE  /\ reader'[p] = reader[p] /\ toLoad'[p] = toLoad[p] /\ settled'[p] = settled[p]
             /\ view'[p] = view[p]
  <2>1. reader'[p] = reader[p]
    BY DEF Snapshot, BeginSnapshot, LoadCounter, SnapshotClock, ReadHistory, ReadClients,
           ReadRecent, ReaderAt, Types
  <2>2. toLoad'[p] = toLoad[p] /\ settled'[p] = settled[p]
    BY DEF Snapshot, BeginSnapshot, LoadCounter, SnapshotClock, ReadHistory, ReadClients,
           ReadRecent, Types
  <2>3. view'[p] = view[p]
    BY DEF Snapshot, BeginSnapshot, LoadCounter, SnapshotClock, ReadHistory, ReadClients,
           ReadRecent, Gather
  <2> QED BY <2>1, <2>2, <2>3
<1> QED BY <1>1, <1>2, <1>3, <1>4

\* A part of the requests told of has no more of anything than the whole.
LEMMA PartBounds ==
  ASSUME Types, Tally, NEW S, NEW T, S \subseteq T, T \subseteq Told
  PROVE  Cardinality(S) <= Cardinality(T) /\ Amount(S) <= Amount(T)
<1>1. IsFiniteSet(T) /\ IsFiniteSet(Units(Amounts(T)))
  BY PartFinite
<1>2. Units(Amounts(S)) \subseteq Units(Amounts(T))
  BY DEF Units, Amounts
<1>3. /\ Cardinality(S) <= Cardinality(T)
      /\ Cardinality(Units(Amounts(S))) <= Cardinality(Units(Amounts(T)))
  BY <1>1, <1>2, FS_Subset
<1> QED BY <1>3 DEF Amount, Amounts, Sum

\* An atomic has counted every request that is done.
LEMMA CounterCovers ==
  ASSUME Types, Tally, NEW q \in Readers, settled[q] \subseteq InStage({"done"}),
         NEW f \in FiveFigures
  PROVE  counter[f] \in Int /\ counter[f] >= Due(q, f)
<1>1. Before(q, f) \subseteq Reported(f) /\ Reported(f) \subseteq Told
  BY DEF Before, Reported, Told, InStage
<1>2. /\ Cardinality(Before(q, f)) <= Cardinality(Reported(f))
      /\ Amount(Before(q, f)) <= Amount(Reported(f))
      /\ Cardinality(Before(q, f)) \in Nat /\ Cardinality(Reported(f)) \in Nat
      /\ Amount(Before(q, f)) \in Nat /\ Amount(Reported(f)) \in Nat
  <2>1. Before(q, f) \subseteq Told
    BY <1>1
  <2> QED BY <1>1, <2>1, PartBounds, PartFinite
<1>3. counter[f] = Count(f) /\ counter[f] \in Int
  BY DEF Tally, Types, Figures, FiveFigures
<1>4. CASE f \in {"successful", "failed"}
  BY <1>2, <1>3, <1>4 DEF Count, Due
<1>5. CASE f \in {"csv", "parquet", "rows"}
  BY <1>2, <1>3, <1>5 DEF Count, Due
<1> QED BY <1>4, <1>5 DEF FiveFigures

\* What a snapshot has to cover does not change once it has begun.
LEMMA DueStays ==
  ASSUME NEW q \in Readers, settled'[q] = settled[q], UNCHANGED event
  PROVE  \A f : Due(q, f)' = Due(q, f)
<1> SUFFICES ASSUME NEW f PROVE Due(q, f)' = Due(q, f)
  OBVIOUS
<1>1. Before(q, f)' = Before(q, f)
  BY DEF Before
<1>2. Amounts(Before(q, f))' = Amounts(Before(q, f))
  BY <1>1 DEF Amounts
<1>3. Amount(Before(q, f))' = Amount(Before(q, f))
  BY <1>2 DEF Amount, Amounts
<1> QED BY <1>1, <1>3 DEF Due

\* A snapshot that begins has all of its figures still to load.
LEMMA BeginCovers ==
  ASSUME Types, ReaderInv, NEW q \in Readers, BeginSnapshot(q)
  PROVE  /\ view' \in [Readers -> View] /\ settled'[q] \subseteq InStage({"done"})'
         /\ Covers(q)'
<1>1. /\ reader'[q] = "loading" /\ settled'[q] = InStage({"done"})
      /\ toLoad'[q] = <<"total", "successful", "failed", "active", "csv", "parquet", "rows">>
      /\ UNCHANGED <<stage, view>>
  BY DEF BeginSnapshot, ReaderAt, Types, requestVars, InStage
<1>2. InStage({"done"})' = InStage({"done"})
  BY <1>1 DEF InStage
<1> DEFINE all == toLoad'[q]
<1>3. /\ Len(all) = 7 /\ all[1] = "total" /\ all[2] = "successful" /\ all[3] = "failed"
      /\ all[4] = "active" /\ all[5] = "csv" /\ all[6] = "parquet" /\ all[7] = "rows"
  BY <1>1
<1> HIDE DEF all
<1>4. \A i : i \in 1 .. Len(all) <=> i \in {1, 2, 3, 4, 5, 6, 7}
  BY <1>3
<1>5. Single(all) /\ \A f \in FiveFigures : In(all, f)
  BY <1>3, <1>4 DEF Single, In, FiveFigures
<1>6. FiguresCover(q)'
  BY <1>1, <1>5 DEF FiguresCover, all, FiveFigures
<1>7. PointsTrue(q)' /\ ClientsCover(q)' /\ RecentCovers(q)'
  BY <1>1 DEF PointsTrue, ClientsCover, RecentCovers
<1> QED BY <1>1, <1>2, <1>6, <1>7 DEF ReaderInv, Covers

\* A figure loaded covers what is due.
LEMMA LoadCovers ==
  ASSUME Types, Tally, ReaderInv, NEW q \in Readers, LoadCounter(q)
  PROVE  /\ view' \in [Readers -> View] /\ settled'[q] \subseteq InStage({"done"})'
         /\ Covers(q)'
<1>1. PICK i \in DOMAIN toLoad[q] :
        /\ view' = [view EXCEPT ![q]["figures"] =
                      [view[q].figures EXCEPT ![toLoad[q][i]] = counter[toLoad[q][i]]]]
        /\ toLoad' = [toLoad EXCEPT ![q] = RemoveAt(@, i)]
  BY DEF LoadCounter, Effective, Gather
<1>2. /\ reader[q] = "loading" /\ reader'[q] = "loading" /\ settled'[q] = settled[q]
      /\ UNCHANGED <<stage, event>>
  BY DEF LoadCounter, requestVars
<1>3. PICK f : f = toLoad[q][i]
  OBVIOUS
<1>4. /\ toLoad[q] \in Seq(Figures) /\ Single(toLoad[q])
      /\ settled[q] \subseteq InStage({"done"})
      /\ \A g \in FiveFigures : In(toLoad[q], g) \/ view[q].figures[g] >= Due(q, g)
  BY <1>2 DEF Types, ReaderInv, Covers, FiguresCover, FiveFigures
<1>5. /\ f \in Figures /\ Single(RemoveAt(toLoad[q], i))
      /\ \A g : In(RemoveAt(toLoad[q], i), g) <=> In(toLoad[q], g) /\ g # f
  BY <1>3, <1>4, RemoveAtIn
<1> DEFINE figures == [view[q].figures EXCEPT ![f] = counter[f]]
<1>6. /\ figures \in [Figures -> Int] /\ figures[f] = counter[f]
      /\ \A g \in Figures \ {f} : figures[g] = view[q].figures[g]
  <2>1. view[q].figures \in [Figures -> Int] /\ counter[f] \in Int
    BY <1>5 DEF ReaderInv, View, Types
  <2> QED BY <1>5, <2>1
<1>7. view' = [view EXCEPT ![q]["figures"] = figures]
  BY <1>1, <1>3
<1> HIDE DEF figures
<1>8. view' \in [Readers -> View] /\ view'[q].figures = figures
  <2>1. view \in [Readers -> View]
    BY DEF ReaderInv
  <2>2. view' \in [Readers -> View] /\ view'[q]["figures"] = figures
    BY <1>6, <1>7, <2>1 DEF View
  <2> QED BY <2>2
<1>9. toLoad'[q] = RemoveAt(toLoad[q], i)
  BY <1>1 DEF Types
<1>10. FiguresCover(q)'
  <2>1. ASSUME NEW g \in FiveFigures
        PROVE  In(toLoad'[q], g) \/ view'[q].figures[g] >= Due(q, g)'
    <3>1. Due(q, g)' = Due(q, g)
      BY <1>2, DueStays
    <3>2. CASE g = f
      BY <1>4, <1>6, <1>8, <3>1, <3>2, CounterCovers
    <3>3. CASE g # f
      <4>1. g \in Figures
        BY DEF FiveFigures, Figures
      <4> QED BY <1>4, <1>5, <1>6, <1>8, <1>9, <3>1, <3>3, <4>1
    <3> QED BY <3>2, <3>3
  <2> QED BY <1>2, <1>5, <1>9, <2>1 DEF FiguresCover, FiveFigures
<1>11. PointsTrue(q)' /\ ClientsCover(q)' /\ RecentCovers(q)'
  BY <1>2 DEF PointsTrue, ClientsCover, RecentCovers
<1>12. settled'[q] \subseteq InStage({"done"})'
  BY <1>2, <1>4 DEF InStage
<1> QED BY <1>8, <1>10, <1>11, <1>12 DEF Covers

\* With every figure loaded, the clock is read.
LEMMA ClockCovers ==
  ASSUME Types, ReaderInv, NEW q \in Readers, SnapshotClock(q)
  PROVE  /\ view' \in [Readers -> View] /\ settled'[q] \subseteq InStage({"done"})'
         /\ Covers(q)'
<1>1. /\ reader[q] = "loading" /\ reader'[q] = "timed" /\ settled'[q] = settled[q]
      /\ toLoad[q] = <<>>
      /\ view' = [view EXCEPT ![q]["now"] = clock] /\ UNCHANGED <<stage, event>>
  BY DEF SnapshotClock, ReaderAt, Gather, requestVars, Types
<1>2. view' \in [Readers -> View] /\ view'[q].figures = view[q].figures
  <2>1. view \in [Readers -> View] /\ clock \in Nat
    BY DEF ReaderInv, Types
  <2>2. /\ view' \in [Readers -> View] /\ view'[q].figures = view[q].figures
    BY <1>1, <2>1 DEF View
  <2> QED BY <2>2
<1>3. \A g : ~In(toLoad[q], g)
  BY <1>1, EmptySeq DEF In
<1>4. FiguresCover(q)'
  <2>1. \A f \in FiveFigures : view'[q].figures[f] >= Due(q, f)'
    BY <1>1, <1>2, <1>3, DueStays DEF ReaderInv, Covers, FiguresCover, FiveFigures
  <2> QED BY <1>1, <2>1 DEF FiguresCover, FiveFigures
<1>5. PointsTrue(q)' /\ ClientsCover(q)' /\ RecentCovers(q)'
  BY <1>1 DEF PointsTrue, ClientsCover, RecentCovers
<1>6. settled'[q] \subseteq InStage({"done"})'
  BY <1>1 DEF InStage, ReaderInv
<1> QED BY <1>2, <1>4, <1>5, <1>6 DEF Covers

\* The slice of the ring shows no request of another second, and misses none that
\* was done before.
LEMMA HistoryCovers ==
  ASSUME Types, Ring, ReaderInv, NEW q \in Readers, ReadHistory(q)
  PROVE  /\ view' \in [Readers -> View] /\ settled'[q] \subseteq InStage({"done"})'
         /\ Covers(q)'
<1> DEFINE points == [k \in 1 .. RingSize |-> Point(Window(view[q].now)[k])]
<1>1. /\ reader[q] = "timed" /\ reader'[q] = "history" /\ settled'[q] = settled[q]
      /\ view' = [view EXCEPT ![q] = [[view[q] EXCEPT !.seen = clock] EXCEPT !.points = points]]
      /\ UNCHANGED <<stage, event, second, late, history>>
  BY DEF ReadHistory, ReaderAt, requestVars, metrics, ReaderInv, View, Types
<1>2. RingSize \in Nat /\ clock \in Nat /\ view[q] \in View /\ view[q].now \in Nat
  BY MetricsAssumption DEF Types, ReaderInv, View
<1>3. ASSUME NEW s \in Nat
      PROVE  /\ Point(s) \in Nat /\ Point(s) <= Cardinality(Bucketed(s))
             /\ s > clock - RingSize /\ Undisturbed(s) =>
                  Point(s) >= Cardinality(settled[q] \cap Bucketed(s))
  <2> DEFINE b == history[Slot(s)]
             B == Bucketed(s)
             D == settled[q] \cap Bucketed(s)
  <2>1. IsFiniteSet(B) /\ Cardinality(B) \in Nat /\ Cardinality(D) <= Cardinality(B)
    <3>1. IsFiniteSet(B)
      BY DEF Ring, Finite
    <3> QED BY <3>1, FS_Subset, FS_CardinalityType
  <2>2. b \in Bucket
    BY SlotType DEF Types
  <2>3. /\ b.second = s => b.requests <= Cardinality(B)
        /\ s > clock - RingSize /\ Undisturbed(s) /\ B # {} =>
             b.second = s /\ b.requests = Cardinality(B)
    <3>1. b.second = s => b.requests <= Cardinality(B)
      BY DEF Ring, Bounded
    <3>2. ASSUME s > clock - RingSize, Undisturbed(s), B # {}
          PROVE  b.second = s /\ b.requests = Cardinality(B)
      <4>1. clock - RingSize < s
        BY <1>2, <3>2
      <4>2. b = [second |-> s, requests |-> Cardinality(B), amount |-> Amount(B)]
        BY <3>2, <4>1 DEF Ring, Exact
      <4> HIDE DEF b, B
      <4> QED BY <4>2
    <3> QED BY <3>1, <3>2
  <2>4. B = {} => Cardinality(D) = 0
    BY FS_EmptySet
  <2>5. Point(s) = IF b.second = s THEN b.requests ELSE 0
    BY DEF Point
  <2> HIDE DEF b, B, D
  <2>6. Point(s) \in Nat /\ Point(s) <= Cardinality(B)
    BY <2>1, <2>2, <2>3, <2>5 DEF Bucket
  <2>7. s > clock - RingSize /\ Undisturbed(s) => Point(s) >= Cardinality(D)
    <3>1. CASE B = {}
      BY <2>4, <2>6, <3>1
    <3>2. CASE B # {}
      BY <2>1, <2>2, <2>3, <2>5, <3>2 DEF Bucket
    <3> QED BY <3>1, <3>2
  <2> QED BY <2>6, <2>7 DEF B, D
<1>4. points \in Seq(Nat)
  <2>1. \A k \in 1 .. RingSize : points[k] \in Nat
    BY <1>2, <1>3, WindowIs
  <2> HIDE DEF points
  <2>2. points \in [1 .. RingSize -> Nat]
    BY <2>1 DEF points
  <2> QED BY <1>2, <2>2
<1>5. \A k \in 1 .. RingSize : points[k] = Point(Window(view[q].now)[k])
  OBVIOUS
<1> HIDE DEF points
<1>6. /\ view' \in [Readers -> View] /\ view'[q].figures = view[q].figures
      /\ view'[q].now = view[q].now /\ view'[q].seen = clock /\ view'[q].points = points
  <2> DEFINE once == [view[q] EXCEPT !.seen = clock]
             twice == [once EXCEPT !.points = points]
  <2>1. /\ once \in View /\ once.figures = view[q].figures /\ once.now = view[q].now
        /\ once.seen = clock
    BY <1>2 DEF View
  <2> HIDE DEF once
  <2>2. /\ twice \in View /\ twice.figures = once.figures /\ twice.now = once.now
        /\ twice.seen = once.seen /\ twice.points = points
    BY <1>4, <2>1 DEF View
  <2>3. view' = [view EXCEPT ![q] = twice] /\ view \in [Readers -> View]
    BY <1>1 DEF once, ReaderInv
  <2> HIDE DEF twice
  <2> QED BY <2>1, <2>2, <2>3
<1>7. PointsTrue(q)'
  <2> SUFFICES ASSUME NEW k \in 1 .. RingSize PROVE PointTrue(q, k)'
    BY DEF PointsTrue
  <2>1. PICK s : s = Window(view[q].now)[k]
    OBVIOUS
  <2>2. s \in Nat
    BY <1>2, <2>1, WindowIs
  <2>3. /\ points[k] \in Nat /\ points[k] <= Cardinality(Bucketed(s))
        /\ s > clock - RingSize /\ Undisturbed(s) =>
             points[k] >= Cardinality(settled[q] \cap Bucketed(s))
    BY <1>3, <1>5, <2>1, <2>2
  <2>4. Bucketed(s)' = Bucketed(s) /\ Undisturbed(s)' = Undisturbed(s)
    BY <1>1 DEF Bucketed, InStage, Undisturbed
  <2>5. s = Window(view'[q].now)[k]
    BY <1>6, <2>1
  <2>6. /\ view'[q].points[k] \in Nat
        /\ view'[q].points[k] <= Cardinality(Bucketed(s)')
        /\ s > view'[q].seen - RingSize /\ Undisturbed(s)' =>
             view'[q].points[k] >= Cardinality(settled'[q] \cap Bucketed(s)')
    BY <1>1, <1>6, <2>3, <2>4
  <2> QED BY <2>5, <2>6 DEF PointTrue, Window
<1>8. FiguresCover(q)'
  <2>1. \A f \in FiveFigures : view'[q].figures[f] >= Due(q, f)'
    BY <1>1, <1>6, DueStays DEF ReaderInv, Covers, FiguresCover
  <2> QED BY <1>1, <2>1 DEF FiguresCover
<1>9. ClientsCover(q)' /\ RecentCovers(q)'
  BY <1>1 DEF ClientsCover, RecentCovers
<1>10. settled'[q] \subseteq InStage({"done"})'
  BY <1>1 DEF InStage, ReaderInv
<1> QED BY <1>6, <1>7, <1>8, <1>9, <1>10 DEF Covers

\* What the steps after the history leave as they found it.
LEMMA PartsStay ==
  ASSUME NEW q \in Readers, UNCHANGED <<stage, event, second, late>>,
         settled'[q] = settled[q], view'[q].figures = view[q].figures,
         view'[q].now = view[q].now, view'[q].seen = view[q].seen,
         view'[q].points = view[q].points, reader[q] \in {"history", "clients"},
         reader'[q] \in {"clients", "done"}, Covers(q)
  PROVE  FiguresCover(q)' /\ PointsTrue(q)'
<1>1. FiguresCover(q)'
  <2>1. \A f \in FiveFigures : view'[q].figures[f] >= Due(q, f)'
    BY DueStays DEF Covers, FiguresCover
  <2> QED BY <2>1 DEF FiguresCover
<1>2. PointsTrue(q)'
  <2> SUFFICES ASSUME NEW k \in 1 .. RingSize PROVE PointTrue(q, k)'
    BY DEF PointsTrue
  <2>1. PointTrue(q, k)
    BY DEF Covers, PointsTrue
  <2>2. \A s : Bucketed(s)' = Bucketed(s) /\ Undisturbed(s)' = Undisturbed(s)
    BY DEF Bucketed, InStage, Undisturbed
  <2> QED BY <2>1, <2>2 DEF PointTrue, Window
<1> QED BY <1>1, <1>2

\* The figures of a client cover its requests.
LEMMA ClientsReadCover ==
  ASSUME Types, Tally, ClientTally, ReaderInv, NEW q \in Readers, ReadClients(q)
  PROVE  /\ view' \in [Readers -> View] /\ settled'[q] \subseteq InStage({"done"})'
         /\ Covers(q)'
<1>1. /\ reader[q] = "history" /\ reader'[q] = "clients" /\ settled'[q] = settled[q]
      /\ view' = [view EXCEPT ![q]["clients"] = clients]
      /\ UNCHANGED <<stage, event, second, late>>
  BY DEF ReadClients, ReaderAt, Gather, requestVars, Types
<1>2. /\ view' \in [Readers -> View] /\ view'[q].figures = view[q].figures
      /\ view'[q].now = view[q].now /\ view'[q].seen = view[q].seen
      /\ view'[q].points = view[q].points /\ view'[q].clients = clients
  <2>1. view \in [Readers -> View] /\ clients \in [Clients -> Stats]
    BY DEF ReaderInv, Types
  <2> QED BY <1>1, <2>1 DEF View
<1>3. FiguresCover(q)' /\ PointsTrue(q)'
  BY <1>1, <1>2, PartsStay DEF ReaderInv
<1>4. ClientsCover(q)'
  <2> SUFFICES ASSUME NEW c \in Clients
               PROVE  clients[c].requests >=
                        Cardinality({r \in settled[q] : event[r].client = c})
    BY <1>1, <1>2 DEF ClientsCover
  <2> DEFINE S == {r \in settled[q] : event[r].client = c}
  <2>1. S \subseteq Of(c) /\ Of(c) \subseteq Told
    BY DEF ReaderInv, Of, Hosted, InStage, Told
  <2>2. IsFiniteSet(Of(c))
    BY <2>1, PartFinite
  <2>3. clients[c].requests = Cardinality(Of(c))
    BY DEF ClientTally
  <2> HIDE DEF S
  <2>4. IsFiniteSet(S) /\ Cardinality(S) <= Cardinality(Of(c))
    BY <2>1, <2>2, FS_Subset
  <2>5. Cardinality(S) \in Nat /\ Cardinality(Of(c)) \in Nat
    BY <2>2, <2>4, FS_CardinalityType
  <2> QED BY <2>3, <2>4, <2>5 DEF S
<1>5. RecentCovers(q)'
  BY <1>1 DEF RecentCovers
<1>6. settled'[q] \subseteq InStage({"done"})'
  BY <1>1 DEF InStage, ReaderInv
<1> QED BY <1>2, <1>3, <1>4, <1>5, <1>6 DEF Covers

\* The log shown is full, or has every request that is done.
LEMMA RecentReadCovers ==
  ASSUME Types, Newest, ReaderInv, NEW q \in Readers, ReadRecent(q)
  PROVE  /\ view' \in [Readers -> View] /\ settled'[q] \subseteq InStage({"done"})'
         /\ Covers(q)'
<1>1. /\ reader[q] = "clients" /\ reader'[q] = "done" /\ settled'[q] = settled[q]
      /\ view' = [view EXCEPT ![q]["recent"] = recent]
      /\ UNCHANGED <<stage, event, second, late>>
  BY DEF ReadRecent, ReaderAt, Gather, requestVars, Types
<1>2. /\ view' \in [Readers -> View] /\ view'[q].figures = view[q].figures
      /\ view'[q].now = view[q].now /\ view'[q].seen = view[q].seen
      /\ view'[q].points = view[q].points /\ view'[q].clients = view[q].clients
      /\ view'[q].recent = recent
  <2>1. view \in [Readers -> View] /\ recent \in Seq(Requests)
    BY DEF ReaderInv, Types
  <2> QED BY <1>1, <2>1 DEF View
<1>3. FiguresCover(q)' /\ PointsTrue(q)'
  BY <1>1, <1>2, PartsStay DEF ReaderInv
<1>4. ClientsCover(q)'
  BY <1>1, <1>2 DEF ClientsCover, ReaderInv, Covers
<1>5. RecentCovers(q)'
  <2>1. recent \in Seq(Requests) /\ log \in Seq(Requests)
    BY DEF Types
  <2>2. Len(recent) \in Nat /\ Len(log) \in Nat /\ MaxRecent \in Nat
    BY <2>1, LenProperties, MetricsAssumption
  <2>3. CASE Len(log) < MaxRecent
    <3>1. ASSUME NEW r \in settled[q] PROVE r \in ToSet(recent)
      <4>1. In(log, r)
        BY DEF ReaderInv, Logged
      <4>2. PICK j \in 1 .. Len(log) : log[j] = r
        BY <4>1 DEF In
      <4> DEFINE i == Len(log) - j + 1
      <4>3. i \in 1 .. Len(recent) /\ Len(log) - i + 1 = j
        BY <2>2, <2>3 DEF Newest
      <4> HIDE DEF i
      <4>4. recent[i] = r
        BY <4>2, <4>3 DEF Newest
      <4>5. i \in DOMAIN recent
        BY <2>1, <4>3
      <4> QED BY <4>4, <4>5 DEF ToSet
    <3> QED BY <1>1, <1>2, <3>1 DEF RecentCovers
  <2>4. CASE ~(Len(log) < MaxRecent)
    BY <1>2, <2>2, <2>4 DEF RecentCovers, Newest
  <2> QED BY <2>3, <2>4
<1>6. settled'[q] \subseteq InStage({"done"})'
  BY <1>1 DEF InStage, ReaderInv
<1> QED BY <1>2, <1>3, <1>4, <1>5, <1>6 DEF Covers

\* A request gets to be done by getting into the log.
LEMMA LoggedNext == Types /\ Logged /\ [Next]_vars => Logged'
<1> SUFFICES ASSUME Types, Logged, [Next]_vars PROVE Logged'
  OBVIOUS
<1>1. ASSUME NEW r \in Requests, UpdateRecent(r) PROVE Logged'
  <2>1. log' = Append(log, r) /\ stage' = [stage EXCEPT ![r] = "done"]
    BY <1>1 DEF UpdateRecent
  <2>2. log \in Seq(Requests)
    BY DEF Types
  <2>3. /\ Len(log) \in Nat /\ Len(log') = Len(log) + 1
        /\ \A i \in 1 .. Len(log) : log'[i] = log[i]
        /\ log'[Len(log) + 1] = r
    BY <2>1, <2>2, AppendProperties, LenProperties
  <2>4. In(log', r)
    <3>1. Len(log) + 1 \in 1 .. Len(log')
      BY <2>3
    <3> QED BY <2>3, <3>1 DEF In
  <2>5. \A q : In(log, q) => In(log', q)
    <3> SUFFICES ASSUME NEW q, NEW i \in 1 .. Len(log), log[i] = q PROVE In(log', q)
      BY DEF In
    <3>1. i \in 1 .. Len(log')
      BY <2>3
    <3> QED BY <2>3, <3>1 DEF In
  <2>6. InStage({"done"})' \subseteq InStage({"done"}) \cup {r}
    BY <2>1 DEF InStage, Types
  <2> QED BY <2>4, <2>5, <2>6 DEF Logged
<1>2. ASSUME UNCHANGED log, \A q \in Requests : stage'[q] = "done" => stage[q] = "done"
      PROVE  Logged'
  BY <1>2 DEF Logged, InStage
<1>3. ASSUME UNCHANGED <<log, stage>> PROVE Logged'
  BY <1>2, <1>3
<1>4. ASSUME NEW r \in Requests, Handle(r) PROVE Logged'
  BY <1>1, <1>2, <1>4
     DEF Handle, Start, CountStarted, Record, CountRecorded, ReadClock, UpdateHistory,
         UpdateClients, metrics, Types
<1>5. ASSUME NEW q \in Readers, Snapshot(q) PROVE Logged'
  BY <1>3, <1>5 DEF Snapshot, BeginSnapshot, LoadCounter, SnapshotClock, ReadHistory,
                    ReadClients, ReadRecent, metrics, requestVars
<1>6. CASE Tick
  BY <1>3, <1>6 DEF Tick, metrics, requestVars
<1>7. CASE UNCHANGED vars
  BY <1>3, <1>7 DEF vars, metrics, requestVars
<1> QED BY <1>4, <1>5, <1>6, <1>7 DEF Next

\* Whatever others do, every snapshot covers what it has come to.
LEMMA ReaderNext == Base /\ ReaderInv /\ [Next]_vars => ReaderInv'
<1> SUFFICES ASSUME Base, ReaderInv, [Next]_vars PROVE ReaderInv'
  OBVIOUS
<1>1. Types /\ Tally /\ ClientTally /\ Newest /\ Ring /\ Past
  BY DEF Base, Ring
<1>2. Logged'
  BY <1>1, LoggedNext DEF ReaderInv
<1>3. Finite'
  BY <1>1, RingNext DEF Ring
<1>4. view \in [Readers -> View] /\ \A q \in Readers : view[q] \in View
  BY DEF ReaderInv
<1>5. \A q \in Readers : settled[q] \subseteq InStage({"done"}) /\ Covers(q)
  BY DEF ReaderInv
<1>6. ASSUME Kept, UNCHANGED <<reader, toLoad, view, settled>> PROVE ReaderInv'
  <2>1. \A q \in Readers : Covers(q)'
    BY <1>1, <1>3, <1>4, <1>5, <1>6, CoversStays
  <2>2. \A q \in Readers : settled'[q] \subseteq InStage({"done"})'
    BY <1>5, <1>6 DEF Kept
  <2> QED BY <1>2, <1>4, <1>6, <2>1, <2>2 DEF ReaderInv
<1>7. CASE Tick \/ \E r \in Requests : Handle(r)
  BY <1>1, <1>6, <1>7, HandledStays DEF Kept
<1>8. CASE UNCHANGED vars
  BY <1>6, <1>8 DEF vars, requestVars, readerVars, Kept, InStage, InRing
<1>9. ASSUME NEW q \in Readers, Snapshot(q) PROVE ReaderInv'
  <2>1. /\ Kept
        /\ \A p \in Readers \ {q} :
             /\ reader'[p] = reader[p] /\ toLoad'[p] = toLoad[p] /\ settled'[p] = settled[p]
             /\ view'[p] = view[p]
    BY <1>1, <1>4, <1>9, SnapshotKeeps
  <2>2. \A p \in Readers \ {q} : Covers(p)' /\ settled'[p] \subseteq InStage({"done"})'
    <3> SUFFICES ASSUME NEW p \in Readers \ {q}
                 PROVE  Covers(p)' /\ settled'[p] \subseteq InStage({"done"})'
      OBVIOUS
    <3>1. Covers(p)'
      BY <1>1, <1>3, <1>4, <1>5, <2>1, CoversStays
    <3>2. settled'[p] \subseteq InStage({"done"})'
      BY <1>5, <2>1 DEF Kept
    <3> QED BY <3>1, <3>2
  <2>3. /\ view' \in [Readers -> View] /\ settled'[q] \subseteq InStage({"done"})'
        /\ Covers(q)'
    BY <1>1, <1>9, BeginCovers, LoadCovers, ClockCovers, HistoryCovers, ClientsReadCover,
       RecentReadCovers DEF Snapshot
  <2> QED BY <1>2, <2>2, <2>3 DEF ReaderInv
<1> QED BY <1>7, <1>8, <1>9 DEF Next

SnapshotInv == Base /\ ReaderInv

\* The invariant of the snapshots holds in every reachable state.
LEMMA SnapshotInvariant == Spec => []SnapshotInv
<1>1. Init => SnapshotInv
  <2>1. Len(<<>>) = 0 /\ MaxRecent \in Nat \ {0}
    BY EmptySeq, MetricsAssumption
  <2>2. Init => Newest
    BY <2>1 DEF Init, Newest
  <2> QED BY <2>2, TypesInit, TallyInit, ClientsInit, RingInit, ReaderInit DEF SnapshotInv, Base
<1>2. SnapshotInv /\ [Next]_vars => SnapshotInv'
  BY TypesNext, TallyNext, ClientsNext, NewestNext, RingNext, ReaderNext DEF SnapshotInv, Base
<1> QED BY <1>1, <1>2, PTL DEF Spec

\* The line a snapshot draws shows requests of the right second only, and all that
\* were recorded before the snapshot began, whoever records meanwhile and however
\* long it waited for the lock (metrics.rs, snapshot).
THEOREM TrueLine == Spec => []PointsAreTrue
<1>1. SnapshotInv => PointsAreTrue
  BY DEF SnapshotInv, ReaderInv, Covers, PointsTrue, PointTrue, PointsAreTrue
<1> QED BY <1>1, SnapshotInvariant, PTL

\* Every part of a snapshot accounts for every request recorded before it began,
\* although the parts are read one after the other, and the atomics in any order
\* (metrics.rs, snapshot).
THEOREM CoversSettled == Spec => []SnapshotCoversSettled
<1>1. ASSUME SnapshotInv, NEW q \in Readers, reader[q] = "done"
      PROVE  LET shown == view[q].figures
                 before == settled[q]
             IN  /\ shown["successful"] + shown["failed"] >= Cardinality(before)
                 /\ shown["csv"] + shown["parquet"] >= Amount(before)
                 /\ shown["rows"] >= Amount(before)
                 /\ \A c \in Clients :
                      view[q].clients[c].requests >=
                        Cardinality({r \in before : event[r].client = c})
                 /\ before \subseteq ToSet(view[q].recent) \/ Len(view[q].recent) = MaxRecent
  <2> DEFINE shown == view[q].figures
  <2>1. Types /\ Tally
    BY <1>1 DEF SnapshotInv, Base
  <2>2. /\ settled[q] \subseteq InStage({"done"}) /\ shown \in [Figures -> Int]
        /\ \A f \in FiveFigures : shown[f] >= Due(q, f)
        /\ ClientsCover(q) /\ RecentCovers(q)
    BY <1>1 DEF SnapshotInv, ReaderInv, Covers, FiguresCover, View
  <2> HIDE DEF shown
  <2>3. settled[q] \subseteq Told
    BY <2>2 DEF Told, InStage
  <2>4. /\ Before(q, "rows") = settled[q]
        /\ Before(q, "successful") \cup Before(q, "failed") = settled[q]
        /\ Before(q, "successful") \cap Before(q, "failed") = {}
        /\ Before(q, "csv") \cup Before(q, "parquet") = settled[q]
        /\ Before(q, "csv") \cap Before(q, "parquet") = {}
    <3>1. ASSUME NEW r \in settled[q]
          PROVE  /\ In(RecordedFigures(event[r]), "rows")
                 /\ In(RecordedFigures(event[r]), "successful")
                      <=> ~In(RecordedFigures(event[r]), "failed")
                 /\ In(RecordedFigures(event[r]), "csv")
                      <=> ~In(RecordedFigures(event[r]), "parquet")
      BY <2>1, <2>3, RecordedOnceEach DEF Types
    <3> QED BY <3>1 DEF Before
  <2>5. /\ shown["successful"] >= Cardinality(Before(q, "successful"))
        /\ shown["failed"] >= Cardinality(Before(q, "failed"))
        /\ shown["csv"] >= Amount(Before(q, "csv"))
        /\ shown["parquet"] >= Amount(Before(q, "parquet"))
        /\ shown["rows"] >= Amount(settled[q])
        /\ shown["successful"] \in Int /\ shown["failed"] \in Int
        /\ shown["csv"] \in Int /\ shown["parquet"] \in Int
    BY <2>2, <2>4 DEF Due, FiveFigures, Figures
  <2>6. \A f : Before(q, f) \subseteq Told
    BY <2>3 DEF Before
  <2>7. shown["successful"] + shown["failed"] >= Cardinality(settled[q])
    <3>1. Cardinality(settled[q]) =
            Cardinality(Before(q, "successful")) + Cardinality(Before(q, "failed"))
      BY <2>1, <2>4, <2>6, Halves
    <3>2. Cardinality(Before(q, "successful")) \in Nat /\ Cardinality(Before(q, "failed")) \in Nat
      BY <2>1, <2>6, PartFinite
    <3> QED BY <2>5, <3>1, <3>2
  <2>8. shown["csv"] + shown["parquet"] >= Amount(settled[q])
    <3>1. Amount(settled[q]) = Amount(Before(q, "csv")) + Amount(Before(q, "parquet"))
      BY <2>1, <2>4, <2>6, Halves
    <3>2. Amount(Before(q, "csv")) \in Nat /\ Amount(Before(q, "parquet")) \in Nat
      BY <2>1, <2>6, PartFinite
    <3> QED BY <2>5, <3>1, <3>2
  <2> QED BY <1>1, <2>2, <2>5, <2>7, <2>8 DEF shown, ClientsCover, RecentCovers
<1>2. SnapshotInv => SnapshotCoversSettled
  BY <1>1 DEF SnapshotCoversSettled
<1> QED BY <1>2, SnapshotInvariant, PTL

================================================================================
