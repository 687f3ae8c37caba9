------------------------------ MODULE FormatProofs ------------------------------
(***************************************************************************)
(* Proofs about the two formats a result goes out in, for any result, and  *)
(* about the text of a query in the log, for any text.                     *)
(*                                                                         *)
(* CsvFormat: the fields the server writes and what the Studio's parser    *)
(* makes of the same text.  The parser's place in the text is a record, a  *)
(* field of it and a number of characters of that field's text; what it    *)
(* holds there is what the characters before that place give (`Reads').    *)
(* The list of tables does not parse: its lines are the records as long as *)
(* the names are plain. What it lists is trimmed and not empty, so another *)
(* name is in quotes; the line of the first such name begins with one      *)
(* quote more than twice the quotes the name begins with.                  *)
(*                                                                         *)
(* ArrowColumn: a row has its cell at its place over the batches, the cell *)
(* is what append_raw_row makes of the row's value, and what that says     *)
(* about the inferred type and about append_value.                         *)
(*                                                                         *)
(* QueryLog: a query and its line in the log are read alike up to the      *)
(* first blank of a literal that the line lacks and the first comment that *)
(* the line does not end (`InLine').  Such a blank is a difference for     *)
(* good; behind such a comment the line has no meaning, so that the two    *)
(* mean the same if and only if the text has none there either.            *)
(***************************************************************************)
EXTENDS CsvFormat, ArrowColumn, QueryLog, SequenceTheorems, FiniteSetTheorems,
        WellFoundedInduction, TLAPS

(* Flattened sequences.                                                    *)

\* A set of numbers with 0 and every successor has all of them.
LEMMA Induction ==
  ASSUME NEW T \in SUBSET Nat, 0 \in T, \A n \in T : n + 1 \in T
  PROVE  T = Nat
<1> SUFFICES ASSUME Nat \ T # {} PROVE FALSE
  OBVIOUS
<1>1. PICK x \in Nat \ T : \A y \in Nat \ T : ~(<<y, x>> \in OpToRel(<, Nat))
  BY NatLessThanWellFounded, WFMin
<1>2. \A y, z \in Nat : y < z => <<y, z>> \in OpToRel(<, Nat)
  BY DEF OpToRel
<1>3. x - 1 \in Nat \ T /\ x - 1 < x
  OBVIOUS
<1> QED BY <1>1, <1>2, <1>3

\* f has the flattened prefixes of s.
Flattens(f, s) ==
  f = [j \in 1 .. Len(s) |-> IF j = 1 THEN s[j] ELSE f[j - 1] \o s[j]]

\* A prefix extends the one before it.
LEMMA FlattensAt ==
  ASSUME NEW s, NEW f, Flattens(f, s), NEW j \in 1 .. Len(s)
  PROVE  f[j] = IF j = 1 THEN s[j] ELSE f[j - 1] \o s[j]
<1> DEFINE Body(h, k) == IF k = 1 THEN s[k] ELSE h[k - 1] \o s[k]
<1>1. f = [k \in 1 .. Len(s) |-> Body(f, k)]
  BY DEF Flattens
<1> HIDE DEF Body
<1>2. f[j] = Body(f, j)
  BY <1>1
<1> QED BY <1>2 DEF Body

\* t begins as s does.
Begins(t, s) ==
  /\ Len(s) \in Nat /\ Len(t) \in Nat /\ Len(s) <= Len(t)
  /\ \A j \in 1 .. Len(s) : s[j] = t[j]

\* Where two sequences agree, so do their flattened prefixes.
LEMMA FlattensAgree ==
  ASSUME NEW s, NEW t, Begins(t, s), NEW f, Flattens(f, s), NEW g, Flattens(g, t)
  PROVE  \A j \in 1 .. Len(s) : f[j] = g[j]
<1> DEFINE n == Len(s)
           T == {m \in Nat : m \in 1 .. n => f[m] = g[m]}
<1> USE DEF Begins
<1>1. \A j \in 1 .. n : /\ f[j] = IF j = 1 THEN s[j] ELSE f[j - 1] \o s[j]
                        /\ g[j] = IF j = 1 THEN t[j] ELSE g[j - 1] \o t[j]
  <2> SUFFICES ASSUME NEW j \in 1 .. n
               PROVE  /\ f[j] = IF j = 1 THEN s[j] ELSE f[j - 1] \o s[j]
                      /\ g[j] = IF j = 1 THEN t[j] ELSE g[j - 1] \o t[j]
    OBVIOUS
  <2>1. j \in 1 .. Len(s) /\ j \in 1 .. Len(t)
    OBVIOUS
  <2> QED BY <2>1, FlattensAt
<1>2. ASSUME NEW m \in T, m + 1 \in 1 .. n PROVE f[m + 1] = g[m + 1]
  <2>1. CASE m = 0
    BY <1>1, <1>2, <2>1
  <2>2. CASE m # 0
    <3>1. m \in 1 .. n /\ (m + 1) - 1 = m /\ m + 1 # 1
      BY <1>2, <2>2
    <3>2. f[m] = g[m]
      BY <3>1
    <3> QED BY <1>1, <1>2, <3>1, <3>2
  <2> QED BY <2>1, <2>2
<1>3. T = Nat
  <2>1. 0 \in T /\ T \in SUBSET Nat /\ \A m \in T : m + 1 \in T
    BY <1>2
  <2> HIDE DEF T
  <2> QED BY <2>1, Induction
<1> QED BY <1>3

\* Every sequence of sequences has its flattened prefixes.
LEMMA FlattensExists ==
  ASSUME NEW S, NEW s \in Seq(Seq(S))
  PROVE  \E f : Flattens(f, s) /\ \A j \in 1 .. Len(s) : f[j] \in Seq(S)
<1> DEFINE Upto(n, f) == \A j \in 1 .. n : f[j] = IF j = 1 THEN s[j] ELSE f[j - 1] \o s[j]
           T == {n \in Nat : n <= Len(s) => \E f \in [1 .. n -> Seq(S)] : Upto(n, f)}
<1>1. Len(s) \in Nat /\ \A j \in 1 .. Len(s) : s[j] \in Seq(S)
  BY LenProperties, ElementOfSeq
<1>2. 0 \in T
  <2>1. [j \in 1 .. 0 |-> <<>>] \in [1 .. 0 -> Seq(S)]
    OBVIOUS
  <2>2. Upto(0, [j \in 1 .. 0 |-> <<>>])
    OBVIOUS
  <2> HIDE DEF Upto
  <2> QED BY <2>1, <2>2
<1>3. ASSUME NEW n \in T, n + 1 <= Len(s)
      PROVE  \E f \in [1 .. n + 1 -> Seq(S)] : Upto(n + 1, f)
  <2>1. PICK f \in [1 .. n -> Seq(S)] : Upto(n, f)
    <3>1. n <= Len(s)
      BY <1>1, <1>3
    <3> HIDE DEF Upto
    <3> QED BY <3>1
  <2> DEFINE last == IF n = 0 THEN s[1] ELSE f[n] \o s[n + 1]
             g == [j \in 1 .. n + 1 |-> IF j <= n THEN f[j] ELSE last]
  <2>2. last \in Seq(S)
    <3>1. CASE n = 0
      BY <1>1, <1>3, <3>1
    <3>2. CASE n # 0
      <4>1. f[n] \in Seq(S) /\ s[n + 1] \in Seq(S)
        BY <1>1, <1>3, <3>2
      <4> QED BY <3>2, <4>1, ConcatProperties
    <3> QED BY <3>1, <3>2
  <2> HIDE DEF last
  <2>3. g \in [1 .. n + 1 -> Seq(S)]
    BY <2>2
  <2>4. ASSUME NEW j \in 1 .. n + 1 PROVE g[j] = IF j = 1 THEN s[j] ELSE g[j - 1] \o s[j]
    <3>1. CASE j <= n
      <4>1. j \in 1 .. n /\ (j # 1 => j - 1 \in 1 .. n)
        BY <3>1
      <4>2. g[j] = f[j] /\ (j # 1 => g[j - 1] = f[j - 1])
        BY <4>1
      <4> HIDE DEF g
      <4> QED BY <2>1, <4>1, <4>2
    <3>2. CASE ~(j <= n)
      <4>1. j = n + 1 /\ j - 1 = n /\ (n # 0 => j - 1 \in 1 .. n + 1 /\ j - 1 <= n /\ j # 1)
        BY <3>2
      <4>2. g[j] = last /\ (n # 0 => g[n] = f[n])
        BY <3>2, <4>1
      <4> HIDE DEF g
      <4> QED BY <4>1, <4>2 DEF last
    <3> QED BY <3>1, <3>2
  <2> HIDE DEF g
  <2> QED BY <2>3, <2>4
<1>4. T = Nat
  <2> HIDE DEF Upto
  <2>1. T \in SUBSET Nat
    OBVIOUS
  <2>2. ASSUME NEW n \in T PROVE n + 1 \in T
    <3>1. CASE n + 1 <= Len(s)
      <4>1. \E f \in [1 .. n + 1 -> Seq(S)] : Upto(n + 1, f)
        BY <1>3, <3>1
      <4> QED BY <4>1
    <3>2. CASE ~(n + 1 <= Len(s))
      BY <3>2
    <3> QED BY <3>1, <3>2
  <2> HIDE DEF T
  <2> QED BY <1>2, <2>1, <2>2, Induction
<1>5. PICK f \in [1 .. Len(s) -> Seq(S)] : Upto(Len(s), f)
  <2> HIDE DEF Upto
  <2>1. Len(s) \in T /\ Len(s) <= Len(s)
    BY <1>1, <1>4
  <2> QED BY <2>1
<1>6. Flattens(f, s)
  BY <1>5 DEF Flattens
<1>7. \A j \in 1 .. Len(s) : f[j] \in Seq(S)
  OBVIOUS
<1> QED BY <1>6, <1>7

\* FlattenSeq chooses flattened prefixes, if there are any.
LEMMA FlattenChooses ==
  ASSUME NEW s, Len(s) # 0, NEW g, Flattens(g, s)
  PROVE  \E f : FlattenSeq(s) = f[Len(s)] /\ Flattens(f, s)
<1>1. g = [j \in 1 .. Len(s) |-> IF j = 1 THEN s[j] ELSE g[j - 1] \o s[j]]
  BY DEF Flattens
<1>2. \E f : /\ FlattenSeq(s) = f[Len(s)]
             /\ f = [j \in 1 .. Len(s) |-> IF j = 1 THEN s[j] ELSE f[j - 1] \o s[j]]
  BY <1>1 DEF FlattenSeq
<1> QED BY <1>2 DEF Flattens

\* What FlattenSeq is.
LEMMA FlattenIs ==
  ASSUME NEW S, NEW s \in Seq(Seq(S)), s # <<>>
  PROVE  \E f : /\ Flattens(f, s) /\ FlattenSeq(s) = f[Len(s)]
                /\ f[Len(s)] \in Seq(S) /\ Len(s) \in Nat \ {0}
<1>1. PICK g : Flattens(g, s) /\ \A j \in 1 .. Len(s) : g[j] \in Seq(S)
  BY FlattensExists
<1>2. Len(s) \in Nat \ {0}
  BY LenProperties, EmptySeq
<1>3. PICK f : FlattenSeq(s) = f[Len(s)] /\ Flattens(f, s)
  BY <1>1, <1>2, FlattenChooses
<1>4. f[Len(s)] = g[Len(s)]
  <2>1. Begins(s, s)
    BY <1>2 DEF Begins
  <2>2. \A j \in 1 .. Len(s) : f[j] = g[j]
    BY <1>1, <1>3, <2>1, FlattensAgree
  <2>3. Len(s) \in 1 .. Len(s)
    BY <1>2
  <2> QED BY <2>2, <2>3
<1> QED BY <1>1, <1>2, <1>3, <1>4

\* A sequence at the end is at the end of the flattened one.
LEMMA FlattenAppend ==
  ASSUME NEW S, NEW s \in Seq(Seq(S)), NEW x \in Seq(S)
  PROVE  /\ FlattenSeq(s) \in Seq(S)
         /\ FlattenSeq(Append(s, x)) = FlattenSeq(s) \o x
<1> DEFINE t == Append(s, x)
<1>1. /\ t \in Seq(Seq(S)) /\ Len(t) = Len(s) + 1 /\ Len(s) \in Nat
      /\ \A j \in 1 .. Len(s) : t[j] = s[j]
      /\ t[Len(s) + 1] = x /\ t # <<>>
  BY LenProperties, AppendProperties, EmptySeq
<1> HIDE DEF t
<1>2. PICK g : Flattens(g, t) /\ FlattenSeq(t) = g[Len(t)]
  BY <1>1, FlattenIs
<1>3. CASE s = <<>>
  <2>1. Len(s) = 0 /\ FlattenSeq(s) = <<>>
    BY <1>3 DEF FlattenSeq
  <2>2. g[1] = x
    BY <1>1, <1>2, <2>1 DEF Flattens
  <2>3. <<>> \in Seq(S) /\ <<>> \o x = x
    BY ConcatEmptySeq
  <2> QED BY <1>1, <1>2, <2>1, <2>2, <2>3 DEF t
<1>4. CASE s # <<>>
  <2>1. PICK f : /\ Flattens(f, s) /\ FlattenSeq(s) = f[Len(s)]
                 /\ f[Len(s)] \in Seq(S) /\ Len(s) \in Nat \ {0}
    BY <1>4, FlattenIs
  <2>2. f[Len(s)] = g[Len(s)]
    <3>1. Begins(t, s)
      BY <1>1 DEF Begins
    <3>2. Flattens(f, s) /\ Flattens(g, t)
      BY <1>2, <2>1
    <3>3. \A j \in 1 .. Len(s) : f[j] = g[j]
      BY <3>1, <3>2, FlattensAgree
    <3> QED BY <2>1, <3>3
  <2>3. g[Len(s) + 1] = g[Len(s)] \o x
    <3>1. Len(s) + 1 \in 1 .. Len(t) /\ Len(s) + 1 # 1 /\ (Len(s) + 1) - 1 = Len(s)
      BY <1>1, <2>1
    <3> QED BY <1>1, <1>2, <3>1 DEF Flattens
  <2> QED BY <1>1, <1>2, <2>1, <2>2, <2>3 DEF t
<1> QED BY <1>3, <1>4

\* The first k elements of s, and what they flatten to.
Upto(s, k) == [m \in 1 .. k |-> s[m]]
Flat(s, k) == FlattenSeq(Upto(s, k))

\* The first elements of a sequence.
LEMMA UptoIs ==
  ASSUME NEW S, NEW s \in Seq(S)
  PROVE  /\ Upto(s, 0) = <<>> /\ Upto(s, Len(s)) = s
         /\ \A k \in 0 .. Len(s) : Upto(s, k) \in Seq(S) /\ Len(Upto(s, k)) = k
         /\ \A k \in 0 .. Len(s) : k < Len(s) =>
              s[k + 1] \in S /\ Upto(s, k + 1) = Append(Upto(s, k), s[k + 1])
<1>1. Len(s) \in Nat /\ (\A k \in 1 .. Len(s) : s[k] \in S) /\ <<>> \in Seq(S) /\ Len(<<>>) = 0
  BY LenProperties, ElementOfSeq, EmptySeq
<1>2. ASSUME NEW k \in 0 .. Len(s)
      PROVE  /\ Upto(s, k) \in Seq(S) /\ Len(Upto(s, k)) = k
             /\ \A j \in 1 .. k : Upto(s, k)[j] = s[j]
  BY <1>1 DEF Upto
<1>3. Upto(s, 0) = <<>> /\ Upto(s, Len(s)) = s
  <2>1. 0 \in 0 .. Len(s) /\ Len(s) \in 0 .. Len(s)
    BY <1>1
  <2>2. Upto(s, 0) = <<>>
    BY <1>1, <1>2, <2>1, EmptySeq
  <2>3. Upto(s, Len(s)) = s
    BY <1>1, <1>2, <2>1, SeqEqual
  <2> QED BY <2>2, <2>3
<1>4. ASSUME NEW k \in 0 .. Len(s), k < Len(s)
      PROVE  s[k + 1] \in S /\ Upto(s, k + 1) = Append(Upto(s, k), s[k + 1])
  <2>1. k + 1 \in 1 .. Len(s) /\ k + 1 \in 0 .. Len(s) /\ k \in Nat
    BY <1>1, <1>4
  <2>2. s[k + 1] \in S
    BY <1>1, <2>1
  <2> DEFINE t == Append(Upto(s, k), s[k + 1])
             u == Upto(s, k + 1)
  <2>3. /\ t \in Seq(S) /\ Len(t) = k + 1
        /\ \A j \in 1 .. k : t[j] = Upto(s, k)[j]
        /\ t[k + 1] = s[k + 1]
    BY <1>2, <2>2, AppendProperties
  <2>4. u \in Seq(S) /\ Len(u) = k + 1 /\ \A j \in 1 .. (k + 1) : u[j] = s[j]
    BY <1>2, <2>1
  <2> HIDE DEF t, u
  <2>5. \A j \in 1 .. k + 1 : u[j] = t[j]
    <3>1. ASSUME NEW j \in 1 .. (k + 1) PROVE u[j] = t[j]
      <4>1. j \in 1 .. k \/ j = k + 1
        BY <2>1
      <4>2. u[j] = s[j]
        BY <2>4
      <4> QED BY <1>2, <2>3, <4>1, <4>2
    <3> QED BY <3>1
  <2>6. u = t
    BY <2>3, <2>4, <2>5, SeqEqual
  <2> QED BY <2>2, <2>6 DEF t, u
<1> QED BY <1>2, <1>3, <1>4

\* Each element is put behind what the ones before it flatten to.
LEMMA FlatIs ==
  ASSUME NEW S, NEW s \in Seq(Seq(S))
  PROVE  /\ Len(s) \in Nat
         /\ Flat(s, 0) = <<>> /\ Flat(s, Len(s)) = FlattenSeq(s)
         /\ \A k \in 0 .. Len(s) : Flat(s, k) \in Seq(S)
         /\ \A k \in 0 .. Len(s) : k < Len(s) =>
              s[k + 1] \in Seq(S) /\ Flat(s, k + 1) = Flat(s, k) \o s[k + 1]
<1>1. FlattenSeq(<<>>) = <<>> /\ <<>> \in Seq(S)
  BY EmptySeq DEF FlattenSeq
<1>2. Len(s) \in Nat
  BY LenProperties
<1>3. Flat(s, 0) = <<>> /\ Flat(s, Len(s)) = FlattenSeq(s)
  BY <1>1, UptoIs DEF Flat
<1>4. ASSUME NEW k \in 0 .. Len(s) PROVE Flat(s, k) \in Seq(S)
  <2>1. Upto(s, k) \in Seq(Seq(S))
    BY UptoIs
  <2> QED BY <1>1, <2>1, FlattenAppend DEF Flat
<1>5. ASSUME NEW k \in 0 .. Len(s), k < Len(s)
      PROVE  s[k + 1] \in Seq(S) /\ Flat(s, k + 1) = Flat(s, k) \o s[k + 1]
  <2>1. /\ Upto(s, k) \in Seq(Seq(S)) /\ s[k + 1] \in Seq(S)
        /\ Upto(s, k + 1) = Append(Upto(s, k), s[k + 1])
    BY <1>5, UptoIs
  <2>2. FlattenSeq(Append(Upto(s, k), s[k + 1])) = FlattenSeq(Upto(s, k)) \o s[k + 1]
    BY <2>1, FlattenAppend
  <2> QED BY <2>1, <2>2 DEF Flat
<1> QED BY <1>2, <1>3, <1>4, <1>5

\* What fewer elements flatten to is at the beginning of what more do.
LEMMA FlatBegins ==
  ASSUME NEW S, NEW s \in Seq(Seq(S)), NEW k \in 0 .. Len(s)
  PROVE  \A m \in k .. Len(s) : Begins(Flat(s, m), Flat(s, k))
<1> DEFINE T == {n \in Nat : k + n <= Len(s) => Begins(Flat(s, k + n), Flat(s, k))}
<1>1. Len(s) \in Nat /\ k \in Nat
  BY FlatIs
<1>2. \A m \in 0 .. Len(s) : Flat(s, m) \in Seq(S) /\ Len(Flat(s, m)) \in Nat
  BY FlatIs, LenProperties
<1>3. 0 \in T
  <2>1. k + 0 = k
    BY <1>1
  <2> QED BY <1>2, <2>1 DEF Begins
<1>4. ASSUME NEW n \in T, k + (n + 1) <= Len(s)
      PROVE  Begins(Flat(s, k + (n + 1)), Flat(s, k))
  <2> DEFINE m == k + n
  <2>1. m \in 0 .. Len(s) /\ m < Len(s) /\ m + 1 = k + (n + 1) /\ m + 1 \in 0 .. Len(s)
    BY <1>1, <1>4
  <2>2. Begins(Flat(s, m), Flat(s, k))
    BY <2>1
  <2>3. s[m + 1] \in Seq(S) /\ Flat(s, m + 1) = Flat(s, m) \o s[m + 1]
    BY <2>1, FlatIs
  <2> HIDE DEF m, T
  <2>4. Flat(s, m) \in Seq(S) /\ Len(Flat(s, m)) \in Nat /\ Len(s[m + 1]) \in Nat
    BY <1>2, <2>1, <2>3, LenProperties
  <2> DEFINE t == Flat(s, m)
             u == Flat(s, m + 1)
             x == s[m + 1]
  <2>5. Len(u) = Len(t) + Len(x) /\ \A j \in 1 .. Len(t) : u[j] = t[j]
    <3>1. u = t \o x
      BY <2>3
    <3>2. /\ Len(t \o x) = Len(t) + Len(x)
          /\ \A j \in 1 .. Len(t) + Len(x) :
               (t \o x)[j] = IF j <= Len(t) THEN t[j] ELSE x[j - Len(t)]
      BY <2>3, <2>4, ConcatProperties
    <3>3. Len(t) \in Nat /\ Len(x) \in Nat
      BY <2>4
    <3> HIDE DEF t, u, x
    <3> QED BY <3>1, <3>2, <3>3
  <2>6. Begins(u, Flat(s, k))
    <3>1. Len(t) \in Nat /\ Len(x) \in Nat /\ Begins(t, Flat(s, k))
      BY <2>2, <2>4
    <3> HIDE DEF t, u, x
    <3> QED BY <2>5, <3>1 DEF Begins
  <2> QED BY <2>1, <2>6
<1>5. T = Nat
  <2>1. ASSUME NEW n \in T PROVE n + 1 \in T
    <3>1. CASE k + (n + 1) <= Len(s)
      BY <1>4, <3>1
    <3>2. CASE ~(k + (n + 1) <= Len(s))
      BY <3>2
    <3> QED BY <3>1, <3>2
  <2>2. T \in SUBSET Nat
    OBVIOUS
  <2> HIDE DEF T
  <2> QED BY <1>3, <2>1, <2>2, Induction
<1> SUFFICES ASSUME NEW m \in k .. Len(s) PROVE Begins(Flat(s, m), Flat(s, k))
  OBVIOUS
<1>6. m - k \in Nat /\ k + (m - k) = m /\ m <= Len(s)
  BY <1>1
<1> QED BY <1>5, <1>6

\* Where the elements are in what a sequence flattens to.
LEMMA FlatAt ==
  ASSUME NEW S, NEW s \in Seq(Seq(S)), NEW k \in 0 .. Len(s), k < Len(s)
  PROVE  /\ Len(Flat(s, k)) \in Nat /\ Len(s[k + 1]) \in Nat /\ Len(FlattenSeq(s)) \in Nat
         /\ Len(Flat(s, k + 1)) = Len(Flat(s, k)) + Len(s[k + 1])
         /\ Len(Flat(s, k)) + Len(s[k + 1]) <= Len(FlattenSeq(s))
         /\ \A j \in 1 .. Len(s[k + 1]) :
              FlattenSeq(s)[Len(Flat(s, k)) + j] = s[k + 1][j]
<1>1. /\ Len(s) \in Nat /\ k + 1 \in 0 .. Len(s) /\ Len(s) \in (k + 1) .. Len(s)
      /\ FlattenSeq(s) = Flat(s, Len(s))
  BY FlatIs
<1>2. /\ Flat(s, k) \in Seq(S) /\ s[k + 1] \in Seq(S)
      /\ Flat(s, k + 1) = Flat(s, k) \o s[k + 1]
  BY FlatIs
<1>3. Begins(FlattenSeq(s), Flat(s, k + 1))
  BY <1>1, FlatBegins
<1> DEFINE a == Len(Flat(s, k))
           b == Len(s[k + 1])
<1>4. /\ a \in Nat /\ b \in Nat /\ Len(Flat(s, k + 1)) = a + b
      /\ \A j \in 1 .. a + b :
           Flat(s, k + 1)[j] = IF j <= a THEN Flat(s, k)[j] ELSE s[k + 1][j - a]
  BY <1>2, ConcatProperties, LenProperties
<1> HIDE DEF a, b
<1>5. Len(FlattenSeq(s)) \in Nat /\ a + b <= Len(FlattenSeq(s))
  BY <1>3, <1>4 DEF Begins
<1>6. ASSUME NEW j \in 1 .. b PROVE FlattenSeq(s)[a + j] = s[k + 1][j]
  <2>1. a + j \in 1 .. a + b /\ ~(a + j <= a) /\ (a + j) - a = j
    BY <1>4
  <2>2. Flat(s, k + 1)[a + j] = s[k + 1][j]
    BY <1>4, <2>1
  <2>3. FlattenSeq(s)[a + j] = Flat(s, k + 1)[a + j]
    BY <1>3, <1>4, <2>1 DEF Begins
  <2> QED BY <2>2, <2>3
<1> QED BY <1>4, <1>5, <1>6 DEF a, b

--------------------------------------------------------------------------------
(* What CsvWriter makes of a value.                                        *)

Alphabet == Special \cup Others

Pieces(field) ==
  [k \in DOMAIN field |-> IF field[k] = Quote THEN <<Quote, Quote>> ELSE <<field[k]>>]

Quoted(v) == v.kind = "bytes" /\ \E k \in DOMAIN v.chars : v.chars[k] \in Special

\* The special characters differ, and differ from the others.
LEMMA SpecialIs ==
  /\ Quote # Comma /\ Quote # CR /\ Quote # LF /\ Comma # CR /\ Comma # LF /\ CR # LF
  /\ \A c \in Others : c \notin Special
<1>1. ASSUME NEW a, NEW b, NEW c PROVE IsFiniteSet({a, b, c}) /\ Cardinality({a, b, c}) <= 3
  <2>1. IsFiniteSet({}) /\ Cardinality({}) = 0
    BY FS_EmptySet
  <2>2. {a} = {} \cup {a} /\ {a, b} = {a} \cup {b} /\ {a, b, c} = {a, b} \cup {c}
    OBVIOUS
  <2>3. IsFiniteSet({a}) /\ Cardinality({a}) \in 0 .. 1
    BY <2>1, <2>2, FS_AddElement
  <2>4. IsFiniteSet({a, b}) /\ Cardinality({a, b}) \in 0 .. 2
    BY <2>2, <2>3, FS_AddElement
  <2>5. IsFiniteSet({a, b, c}) /\ Cardinality({a, b, c}) \in 0 .. 3
    BY <2>2, <2>4, FS_AddElement
  <2> QED BY <2>5
<1>2. ASSUME NEW a, NEW b, NEW c PROVE ~({Quote, Comma, CR, LF} = {a, b, c})
  <2>1. Cardinality({a, b, c}) # 4
    <3>1. Cardinality({a, b, c}) <= 3
      BY <1>1
    <3>2. \A n : n = 4 => ~(n <= 3)
      OBVIOUS
    <3> QED BY <3>1, <3>2
  <2> QED BY <2>1, FormatAssumption
<1>3. /\ {Quote, Comma, CR, LF} # {Comma, CR, LF}
      /\ {Quote, Comma, CR, LF} # {Quote, Comma, CR}
      /\ {Quote, Comma, CR, LF} # {Quote, Comma, LF}
  BY <1>2
<1>4. {Quote, Comma, CR, LF} # {Quote, CR, LF}
  BY <1>2
<1> QED BY <1>3, <1>4, FormatAssumption DEF Special

\* A bounded sequence is a sequence.
LEMMA BoundedIs ==
  ASSUME NEW S, NEW s \in BoundedSeq(S, MaxField)
  PROVE  s \in Seq(S)
<1>1. PICK m \in 0 .. MaxField : s \in [1 .. m -> S]
  BY DEF BoundedSeq, SeqOf
<1>2. m \in Nat
  BY FormatAssumption
<1>3. s \in UNION {[1 .. n -> S] : n \in Nat}
  BY <1>1, <1>2
<1> QED BY <1>3, SeqDef

\* What the writer makes of a value, quoted or not.
LEMMA WriteValueIs ==
  ASSUME NEW v \in Values
  PROVE  /\ v.chars \in Seq(Alphabet)
         /\ ~Quoted(v) => /\ WriteValue(v) = v.chars
                          /\ \A k \in 1 .. Len(v.chars) : v.chars[k] \notin Special
         /\ Quoted(v) => WriteValue(v) = <<Quote>> \o FlattenSeq(Pieces(v.chars)) \o <<Quote>>
<1>1. ASSUME NEW S, NEW s \in BoundedSeq(S, MaxField) PROVE s \in Seq(S)
  BY BoundedIs
<1>2. \/ v.kind = "null" /\ v.chars = <<>>
      \/ v.kind = "number" /\ v.chars \in BoundedSeq(Others \ Spaces, MaxField)
      \/ v.kind = "bytes" /\ v.chars \in BoundedSeq(Special \cup Others, MaxField)
  BY DEF Values, Fields
<1>3. CASE v.kind = "null" /\ v.chars = <<>>
  <2>1. <<>> \in Seq(Alphabet) /\ Len(<<>>) = 0
    BY EmptySeq
  <2> QED BY <1>3, <2>1 DEF Quoted, WriteValue
<1>4. CASE v.kind = "number" /\ v.chars \in BoundedSeq(Others \ Spaces, MaxField)
  <2>1. v.chars \in Seq(Others)
    BY <1>1, <1>4, SeqMonotonic
  <2>2. v.chars \in Seq(Alphabet)
    BY <2>1, SeqMonotonic DEF Alphabet
  <2>3. \A k \in 1 .. Len(v.chars) : v.chars[k] \notin Special
    BY <2>1, ElementOfSeq, SpecialIs
  <2> QED BY <1>4, <2>2, <2>3 DEF Quoted, WriteValue
<1>5. CASE v.kind = "bytes" /\ v.chars \in BoundedSeq(Special \cup Others, MaxField)
  <2>1. v.chars \in Seq(Alphabet)
    BY <1>1, <1>5 DEF Alphabet
  <2>2. DOMAIN v.chars = 1 .. Len(v.chars)
    BY <2>1, LenProperties
  <2>3. WriteValue(v) = WriteEscapedField(v.chars)
    BY <1>5 DEF WriteValue
  <2>4. Quoted(v) <=> \E k \in DOMAIN v.chars : v.chars[k] \in Special
    BY <1>5 DEF Quoted
  <2> QED BY <2>1, <2>2, <2>3, <2>4 DEF WriteEscapedField, Pieces
<1> QED BY <1>2, <1>3, <1>4, <1>5

\* The characters of a field, doubled.
LEMMA PiecesIs ==
  ASSUME NEW field \in Seq(Alphabet)
  PROVE  /\ Pieces(field) \in Seq(Seq(Alphabet)) /\ Len(Pieces(field)) = Len(field)
         /\ \A k \in 1 .. Len(field) :
              Pieces(field)[k] = IF field[k] = Quote THEN <<Quote, Quote>> ELSE <<field[k]>>
<1>1. Len(field) \in Nat /\ DOMAIN field = 1 .. Len(field)
  BY LenProperties
<1>2. ASSUME NEW k \in 1 .. Len(field)
      PROVE  (IF field[k] = Quote THEN <<Quote, Quote>> ELSE <<field[k]>>) \in Seq(Alphabet)
  <2>1. field[k] \in Alphabet /\ Quote \in Alphabet
    BY ElementOfSeq DEF Alphabet, Special
  <2> QED BY <2>1
<1> DEFINE Piece(k) == IF field[k] = Quote THEN <<Quote, Quote>> ELSE <<field[k]>>
<1>3. Pieces(field) = [k \in 1 .. Len(field) |-> Piece(k)]
  BY <1>1 DEF Pieces
<1>4. \A k \in 1 .. Len(field) : Piece(k) \in Seq(Alphabet)
  BY <1>2
<1> HIDE DEF Piece
<1>5. /\ Pieces(field) \in Seq(Seq(Alphabet)) /\ Len(Pieces(field)) = Len(field)
      /\ \A k \in 1 .. Len(field) : Pieces(field)[k] = Piece(k)
  BY <1>1, <1>3, <1>4
<1> QED BY <1>5 DEF Piece

\* What a quoted value looks like: k characters of the field take Inner(v, k)
\* characters, between two quotes.
Inner(v, k) == Len(Flat(Pieces(v.chars), k))

\* The length of a quoted value.
LEMMA QuotedIs ==
  ASSUME NEW v \in Values, Quoted(v)
  PROVE  /\ Len(v.chars) \in Nat
         /\ \A k \in 0 .. Len(v.chars) : Inner(v, k) \in Nat
         /\ Inner(v, 0) = 0
         /\ WriteValue(v) \in Seq(Alphabet)
         /\ Len(WriteValue(v)) = Inner(v, Len(v.chars)) + 2
         /\ WriteValue(v)[1] = Quote
         /\ WriteValue(v)[Inner(v, Len(v.chars)) + 2] = Quote
         /\ \A j \in 1 .. Inner(v, Len(v.chars)) :
              WriteValue(v)[j + 1] = FlattenSeq(Pieces(v.chars))[j]
<1> DEFINE p == Pieces(v.chars)
           n == Len(v.chars)
           mid == FlattenSeq(p)
           q == <<Quote>>
<1>1. /\ v.chars \in Seq(Alphabet) /\ n \in Nat
      /\ p \in Seq(Seq(Alphabet)) /\ Len(p) = n
      /\ WriteValue(v) = q \o mid \o q
  BY WriteValueIs, PiecesIs, LenProperties
<1>2. q \in Seq(Alphabet) /\ Len(q) = 1 /\ q[1] = Quote
  BY DEF Alphabet, Special
<1> HIDE DEF p, mid, q
<1>3. /\ \A k \in 0 .. n : Flat(p, k) \in Seq(Alphabet)
      /\ Flat(p, 0) = <<>> /\ Flat(p, n) = mid
  BY <1>1, FlatIs DEF mid
<1>4. n \in 0 .. n /\ Len(<<>>) = 0
  BY <1>1, EmptySeq
<1>5. mid \in Seq(Alphabet) /\ Len(mid) \in Nat /\ Len(mid) = Inner(v, n)
  BY <1>3, <1>4, LenProperties DEF Inner, p
<1>6. \A k \in 0 .. n : Inner(v, k) \in Nat
  BY <1>3, LenProperties DEF Inner, p
<1>7. Inner(v, 0) = 0
  BY <1>3, <1>4 DEF Inner, p
<1> DEFINE h == q \o mid
           w == h \o q
<1>8. /\ h \in Seq(Alphabet) /\ Len(h) = 1 + Len(mid)
      /\ \A j \in 1 .. 1 + Len(mid) : h[j] = IF j <= 1 THEN q[j] ELSE mid[j - 1]
  <2>1. /\ h \in Seq(Alphabet) /\ Len(h) = Len(q) + Len(mid)
        /\ \A j \in 1 .. Len(q) + Len(mid) :
             h[j] = IF j <= Len(q) THEN q[j] ELSE mid[j - Len(q)]
    BY <1>2, <1>5, ConcatProperties
  <2> HIDE DEF h
  <2> QED BY <1>2, <2>1
<1> HIDE DEF h
<1>9. /\ w \in Seq(Alphabet) /\ Len(w) = Len(h) + Len(q)
      /\ \A j \in 1 .. Len(h) + Len(q) : w[j] = IF j <= Len(h) THEN h[j] ELSE q[j - Len(h)]
  BY <1>2, <1>8, ConcatProperties
<1> HIDE DEF w
<1>10. Len(w) = Len(mid) + 2 /\ w[1] = Quote /\ w[Len(mid) + 2] = Quote
  <2>1. 1 <= Len(h) /\ 1 \in 1 .. Len(h) + Len(q) /\ 1 \in 1 .. 1 + Len(mid)
    BY <1>2, <1>5, <1>8
  <2>2. w[1] = h[1] /\ h[1] = q[1]
    BY <1>8, <1>9, <2>1
  <2>3. /\ Len(mid) + 2 \in 1 .. Len(h) + Len(q)
        /\ ~(Len(mid) + 2 <= Len(h)) /\ (Len(mid) + 2) - Len(h) = 1
    <3>1. \A a \in Nat : /\ a + 2 \in 1 .. (1 + a) + 1 /\ ~(a + 2 <= 1 + a)
                       /\ (a + 2) - (1 + a) = 1
      OBVIOUS
    <3>2. Len(mid) \in Nat /\ Len(h) = 1 + Len(mid) /\ Len(q) = 1
      BY <1>2, <1>5, <1>8
    <3> QED BY <3>1, <3>2
  <2>4. w[Len(mid) + 2] = q[1]
    BY <1>9, <2>3
  <2> QED BY <1>2, <1>5, <1>8, <1>9, <2>2, <2>4
<1>11. ASSUME NEW j \in 1 .. Len(mid) PROVE w[j + 1] = mid[j]
  <2>1. /\ j + 1 \in 1 .. Len(h) + Len(q) /\ j + 1 <= Len(h)
        /\ j + 1 \in 1 .. 1 + Len(mid) /\ ~(j + 1 <= 1) /\ (j + 1) - 1 = j
    BY <1>2, <1>5, <1>8
  <2>2. w[j + 1] = h[j + 1] /\ h[j + 1] = mid[j]
    BY <1>8, <1>9, <2>1
  <2> QED BY <2>2
<1>12. WriteValue(v) = w
  BY <1>1 DEF w, h
<1> QED BY <1>1, <1>5, <1>6, <1>7, <1>9, <1>10, <1>11, <1>12 DEF mid, p

\* Where a character of the field is between the quotes.
LEMMA QuotedAt ==
  ASSUME NEW v \in Values, Quoted(v), NEW k \in 0 .. Len(v.chars), k < Len(v.chars)
  PROVE  /\ v.chars[k + 1] = Quote =>
              /\ Inner(v, k + 1) = Inner(v, k) + 2
              /\ WriteValue(v)[Inner(v, k) + 2] = Quote
              /\ WriteValue(v)[Inner(v, k) + 3] = Quote
         /\ v.chars[k + 1] # Quote =>
              /\ Inner(v, k + 1) = Inner(v, k) + 1
              /\ WriteValue(v)[Inner(v, k) + 2] = v.chars[k + 1]
         /\ Inner(v, k + 1) <= Inner(v, Len(v.chars))
<1> DEFINE p == Pieces(v.chars)
           n == Len(v.chars)
           c == v.chars[k + 1]
           x == p[k + 1]
           a == Inner(v, k)
           b == Inner(v, n)
<1>1. v.chars \in Seq(Alphabet) /\ n \in Nat /\ k + 1 \in 1 .. n
  BY WriteValueIs, LenProperties
<1>2. p \in Seq(Seq(Alphabet)) /\ Len(p) = n /\ k \in 0 .. Len(p) /\ k < Len(p)
  BY <1>1, PiecesIs
<1>3. x = IF c = Quote THEN <<Quote, Quote>> ELSE <<c>>
  BY <1>1, PiecesIs
<1>4. Len(FlattenSeq(p)) = b
  BY <1>2, FlatIs DEF Inner
<1> HIDE DEF p, c
<1>5. /\ a \in Nat /\ Len(x) \in Nat /\ b \in Nat
      /\ Inner(v, k + 1) = a + Len(x) /\ a + Len(x) <= b
      /\ \A j \in 1 .. Len(x) : FlattenSeq(p)[a + j] = x[j]
  BY <1>2, <1>4, FlatAt DEF Inner, p
<1>6. \A j \in 1 .. b : WriteValue(v)[j + 1] = FlattenSeq(p)[j]
  BY QuotedIs DEF p
<1> HIDE DEF a, b, x
<1>7. ASSUME NEW j \in 1 .. Len(x) PROVE WriteValue(v)[a + j + 1] = x[j]
  <2>1. a + j \in 1 .. b
    BY <1>5
  <2> QED BY <1>5, <1>6, <2>1
<1>8. CASE c = Quote
  <2>1. Len(x) = 2 /\ x[1] = Quote /\ x[2] = Quote
    BY <1>3, <1>8
  <2>2. 1 \in 1 .. Len(x) /\ 2 \in 1 .. Len(x) /\ a + 1 + 1 = a + 2 /\ a + 2 + 1 = a + 3
    BY <1>5, <2>1
  <2>3. WriteValue(v)[a + 1 + 1] = Quote /\ WriteValue(v)[a + 2 + 1] = Quote
    BY <1>7, <2>1, <2>2
  <2> QED BY <1>5, <1>8, <2>1, <2>2, <2>3 DEF a, b, c
<1>9. CASE c # Quote
  <2>1. Len(x) = 1 /\ x[1] = c
    BY <1>3, <1>9
  <2>2. 1 \in 1 .. Len(x) /\ a + 1 + 1 = a + 2
    BY <1>5, <2>1
  <2>3. WriteValue(v)[a + 1 + 1] = c
    BY <1>7, <2>1, <2>2
  <2> QED BY <1>5, <1>9, <2>1, <2>2, <2>3 DEF a, b, c
<1> QED BY <1>8, <1>9

\* The parser has read j characters of the text of v: it is in quotes if q, and
\* val is what it has of the field.
Scan(v, j, q, val) ==
  \/ ~Quoted(v) /\ ~q /\ j \in 0 .. Len(v.chars) /\ val = Upto(v.chars, j)
  \/ Quoted(v) /\ ~q /\ j = 0 /\ val = <<>>
  \/ /\ Quoted(v) /\ q
     /\ \E k \in 0 .. Len(v.chars) : j = Inner(v, k) + 1 /\ val = Upto(v.chars, k)
  \/ Quoted(v) /\ ~q /\ j = Len(WriteValue(v)) /\ val = v.chars

\* At the first character of the text there is nothing of the field, and after
\* the last one there is the field.
LEMMA ScanEnds ==
  ASSUME NEW v \in Values
  PROVE  /\ WriteValue(v) \in Seq(Alphabet) /\ Len(WriteValue(v)) \in Nat
         /\ Scan(v, 0, FALSE, <<>>)
         /\ \A q, val : Scan(v, 0, q, val) => ~q /\ val = <<>>
         /\ \A q, val : Scan(v, Len(WriteValue(v)), q, val) => ~q /\ val = v.chars
<1>1. /\ v.chars \in Seq(Alphabet) /\ Len(v.chars) \in Nat
      /\ Upto(v.chars, 0) = <<>> /\ Upto(v.chars, Len(v.chars)) = v.chars
  BY WriteValueIs, UptoIs, LenProperties
<1>2. CASE ~Quoted(v)
  <2>1. WriteValue(v) = v.chars
    BY <1>2, WriteValueIs
  <2> QED BY <1>1, <1>2, <2>1 DEF Scan
<1>3. CASE Quoted(v)
  <2> DEFINE b == Inner(v, Len(v.chars))
  <2>1. WriteValue(v) \in Seq(Alphabet) /\ Len(WriteValue(v)) = b + 2 /\ b \in Nat
    BY <1>1, <1>3, QuotedIs
  <2>2. ASSUME NEW k \in 0 .. Len(v.chars) PROVE Inner(v, k) \in Nat /\ Inner(v, k) <= b
    <3>1. Inner(v, k) \in Nat
      BY <1>3, QuotedIs
    <3>2. CASE k < Len(v.chars)
      <4>1. /\ Inner(v, k + 1) <= b
            /\ Inner(v, k + 1) = Inner(v, k) + 1 \/ Inner(v, k + 1) = Inner(v, k) + 2
        BY <1>3, <3>2, QuotedAt
      <4> HIDE DEF b
      <4> QED BY <2>1, <3>1, <4>1
    <3>3. CASE k = Len(v.chars)
      BY <2>1, <3>3
    <3> QED BY <1>1, <3>1, <3>2, <3>3
  <2> HIDE DEF b
  <2>3. \A k \in 0 .. Len(v.chars) : Inner(v, k) + 1 # 0 /\ Inner(v, k) + 1 # b + 2
    BY <2>1, <2>2
  <2>4. b + 2 # 0 /\ b + 2 \in Nat
    BY <2>1
  <2> QED BY <1>3, <2>1, <2>3, <2>4 DEF Scan
<1> QED BY <1>2, <1>3

\* What the parser makes of the next character, with the one after it: it is one
\* of two quotes that stand for one, it opens or closes the quotes, or it belongs
\* to the field.
LEMMA ScanStep ==
  ASSUME NEW v \in Values, NEW j, NEW q \in BOOLEAN, NEW val,
         Scan(v, j, q, val), j < Len(WriteValue(v))
  PROVE  LET V == WriteValue(v)
         IN  /\ j \in Nat
             /\ \/ /\ V[j + 1] = Quote /\ q /\ j + 2 <= Len(V) /\ V[j + 2] = Quote
                   /\ Scan(v, j + 2, q, Append(val, Quote))
                \/ /\ V[j + 1] = Quote /\ (q => j + 1 = Len(V))
                   /\ Scan(v, j + 1, ~q, val)
                \/ /\ V[j + 1] # Quote /\ (q \/ V[j + 1] \notin Special)
                   /\ Scan(v, j + 1, q, Append(val, V[j + 1]))
<1> DEFINE V == WriteValue(v)
           field == v.chars
           n == Len(field)
<1>1. field \in Seq(Alphabet) /\ n \in Nat
  BY WriteValueIs, LenProperties
<1>2. \A k \in 0 .. n : k < n => /\ field[k + 1] \in Alphabet
                                 /\ Upto(field, k + 1) = Append(Upto(field, k), field[k + 1])
  BY <1>1, UptoIs
<1>3. CASE ~Quoted(v)
  <2>1. V = field /\ \A k \in 1 .. n : field[k] \notin Special
    BY <1>3, WriteValueIs
  <2>2. ~q /\ j \in 0 .. n /\ val = Upto(field, j)
    BY <1>3 DEF Scan
  <2>3. j < n /\ j \in Nat /\ j + 1 \in 1 .. n /\ j + 1 \in 0 .. n
    BY <1>1, <2>1, <2>2
  <2>4. V[j + 1] \notin Special /\ V[j + 1] # Quote
    BY <2>1, <2>3 DEF Special
  <2>5. Upto(field, j + 1) = Append(val, V[j + 1])
    BY <1>2, <2>1, <2>2, <2>3
  <2>6. Scan(v, j + 1, q, Append(val, V[j + 1]))
    BY <1>3, <2>2, <2>3, <2>5 DEF Scan
  <2> QED BY <2>3, <2>4, <2>6
<1>4. CASE Quoted(v)
  <2> DEFINE b == Inner(v, n)
  <2>1. /\ b \in Nat /\ Len(V) = b + 2 /\ V[1] = Quote /\ V[b + 2] = Quote
        /\ Inner(v, 0) = 0 /\ 0 \in 0 .. n /\ n \in 0 .. n
    BY <1>1, <1>4, QuotedIs
  <2> HIDE DEF b
  <2>2. CASE ~q
    <3>1. j = 0 /\ val = <<>>
      BY <1>4, <2>1, <2>2 DEF Scan
    <3>2. Upto(field, 0) = <<>> /\ j + 1 = Inner(v, 0) + 1 /\ j + 1 = 1
      BY <1>1, <2>1, <3>1, UptoIs
    <3>3. Scan(v, j + 1, ~q, val)
      BY <1>4, <2>1, <2>2, <3>1, <3>2 DEF Scan
    <3> QED BY <2>1, <2>2, <3>1, <3>2, <3>3
  <2>3. CASE q
    <3>1. PICK k \in 0 .. n : j = Inner(v, k) + 1 /\ val = Upto(field, k)
      BY <1>4, <2>3 DEF Scan
    <3>2. Inner(v, k) \in Nat
      BY <1>4, QuotedIs
    <3>3. CASE k = n
      <4>1. j = b + 1 /\ j + 1 = b + 2 /\ j + 1 = Len(V) /\ j \in Nat
        BY <2>1, <3>1, <3>2, <3>3 DEF b
      <4>2. val = field
        BY <1>1, <3>1, <3>3, UptoIs
      <4>3. Scan(v, j + 1, ~q, val)
        BY <1>4, <2>3, <4>1, <4>2 DEF Scan
      <4> QED BY <2>1, <4>1, <4>3
    <3>4. CASE k # n
      <4>1. k < n /\ k + 1 \in 0 .. n
        BY <1>1, <3>4
      <4>2. field[k + 1] \in Alphabet /\ Upto(field, k + 1) = Append(val, field[k + 1])
        BY <1>2, <3>1, <4>1
      <4>3. Inner(v, k + 1) <= b
        BY <1>4, <4>1, QuotedAt DEF b
      <4>4. CASE field[k + 1] = Quote
        <5>1. /\ Inner(v, k + 1) = Inner(v, k) + 2
              /\ V[Inner(v, k) + 2] = Quote /\ V[Inner(v, k) + 3] = Quote
          BY <1>4, <4>1, <4>4, QuotedAt
        <5>2. /\ j \in Nat /\ j + 1 = Inner(v, k) + 2 /\ j + 2 = Inner(v, k) + 3
              /\ j + 2 = Inner(v, k + 1) + 1 /\ j + 2 <= Len(V)
          BY <2>1, <3>1, <3>2, <4>3, <5>1
        <5>3. Scan(v, j + 2, q, Append(val, Quote))
          BY <1>4, <2>3, <4>1, <4>2, <4>4, <5>2 DEF Scan
        <5> QED BY <2>3, <5>1, <5>2, <5>3
      <4>5. CASE field[k + 1] # Quote
        <5>1. /\ Inner(v, k + 1) = Inner(v, k) + 1
              /\ V[Inner(v, k) + 2] = field[k + 1]
          BY <1>4, <4>1, <4>5, QuotedAt
        <5>2. j \in Nat /\ j + 1 = Inner(v, k) + 2 /\ j + 1 = Inner(v, k + 1) + 1
          BY <3>1, <3>2, <5>1
        <5>3. Scan(v, j + 1, q, Append(val, V[j + 1]))
          BY <1>4, <2>3, <4>1, <4>2, <5>1, <5>2 DEF Scan
        <5> QED BY <2>3, <4>5, <5>1, <5>2, <5>3
      <4> QED BY <4>4, <4>5
    <3> QED BY <3>3, <3>4
  <2> QED BY <2>2, <2>3
<1> QED BY <1>3, <1>4

--------------------------------------------------------------------------------
(* What CsvWriter makes of a record and of all of them.                    *)

\* The texts of the fields, each with the comma in front of it, and how many
\* characters of the record are in front of the value of field f.
Line(record) ==
  [c \in DOMAIN record |->
    (IF c = 1 THEN <<>> ELSE <<Comma>>) \o WriteValue(record[c])]
FieldStart(record, f) == Len(Flat(Line(record), f - 1)) + (IF f = 1 THEN 0 ELSE 1)

\* The text x of one field has the comma in front of it, if it is not the first.
HasComma(record, c, x) ==
  LET V == WriteValue(record[c])
      p == IF c = 1 THEN 0 ELSE 1
  IN  /\ V \in Seq(Alphabet) /\ Len(V) \in Nat
      /\ x \in Seq(Alphabet) /\ Len(x) = p + Len(V)
      /\ \A j \in 1 .. Len(V) : x[p + j] = V[j]
      /\ c # 1 => x[1] = Comma

\* The texts of the fields.
LEMMA LineIs ==
  ASSUME NEW n \in Nat, NEW record \in [1 .. n -> Values]
  PROVE  /\ Line(record) \in Seq(Seq(Alphabet)) /\ Len(Line(record)) = n
         /\ \A c \in 1 .. n : HasComma(record, c, Line(record)[c])
<1> DEFINE Piece(c) == (IF c = 1 THEN <<>> ELSE <<Comma>>) \o WriteValue(record[c])
<1>1. Line(record) = [c \in 1 .. n |-> Piece(c)]
  BY DEF Line
<1>2. ASSUME NEW c \in 1 .. n PROVE HasComma(record, c, Piece(c))
  <2> DEFINE V == WriteValue(record[c])
             h == IF c = 1 THEN <<>> ELSE <<Comma>>
             p == IF c = 1 THEN 0 ELSE 1
  <2>1. V \in Seq(Alphabet) /\ Len(V) \in Nat
    BY ScanEnds
  <2>2. h \in Seq(Alphabet) /\ Len(h) = p /\ (c # 1 => h[1] = Comma) /\ p \in {0, 1}
    <3>1. <<>> \in Seq(Alphabet) /\ Len(<<>>) = 0
      BY EmptySeq
    <3>2. <<Comma>> \in Seq(Alphabet) /\ Len(<<Comma>>) = 1 /\ <<Comma>>[1] = Comma
      BY DEF Alphabet, Special
    <3> QED BY <3>1, <3>2
  <2>3. c # 1 => p = 1
    OBVIOUS
  <2> HIDE DEF V, h, p
  <2> DEFINE t == h \o V
  <2>4. /\ t \in Seq(Alphabet) /\ Len(t) = Len(h) + Len(V)
        /\ \A j \in 1 .. Len(h) + Len(V) : t[j] = IF j <= Len(h) THEN h[j] ELSE V[j - Len(h)]
    BY <2>1, <2>2, ConcatProperties
  <2> HIDE DEF t
  <2>5. ASSUME NEW j \in 1 .. Len(V) PROVE t[p + j] = V[j]
    <3>1. p + j \in 1 .. Len(h) + Len(V) /\ ~(p + j <= Len(h)) /\ (p + j) - Len(h) = j
      BY <2>1, <2>2
    <3> QED BY <2>4, <3>1
  <2>6. c # 1 => t[1] = Comma
    <3>1. c # 1 => 1 \in 1 .. Len(h) + Len(V) /\ 1 <= Len(h)
      BY <2>1, <2>2, <2>3
    <3> QED BY <2>2, <2>4, <3>1
  <2>7. Piece(c) = t
    BY DEF t, h, V
  <2> HIDE DEF Piece
  <2>8. Len(t) = p + Len(V)
    BY <2>2, <2>4
  <2> QED BY <2>1, <2>4, <2>5, <2>6, <2>7, <2>8 DEF HasComma, V, p
<1> HIDE DEF Piece
<1>3. \A c \in 1 .. n : Piece(c) \in Seq(Alphabet)
  BY <1>2 DEF HasComma
<1>4. /\ Line(record) \in Seq(Seq(Alphabet)) /\ Len(Line(record)) = n
      /\ \A c \in 1 .. n : Line(record)[c] = Piece(c)
  BY <1>1, <1>3
<1> QED BY <1>2, <1>4

\* Where a field is in its record, and what follows it.
FitsRecord(record, n, f) ==
  LET V == WriteValue(record[f])
      W == WriteRecord(record)
      a == FieldStart(record, f)
  IN  /\ W \in Seq(Alphabet) /\ Len(W) \in Nat /\ Len(V) \in Nat
      /\ a \in Nat /\ (a = 0 <=> f = 1)
      /\ a + Len(V) + 2 <= Len(W)
      /\ \A j \in 1 .. Len(V) : W[a + j] = V[j]
      /\ f # n => /\ W[a + Len(V) + 1] = Comma
                  /\ FieldStart(record, f + 1) = a + Len(V) + 1
      /\ f = n => /\ W[a + Len(V) + 1] = CR /\ W[a + Len(V) + 2] = LF
                  /\ Len(W) = a + Len(V) + 2

\* Every field fits its record.
LEMMA RecordAt ==
  ASSUME NEW n \in Nat, NEW record \in [1 .. n -> Values], NEW f \in 1 .. n
  PROVE  FitsRecord(record, n, f)
<1> DEFINE V == WriteValue(record[f])
           W == WriteRecord(record)
           L == Line(record)
           B == FlattenSeq(L)
           t == <<CR, LF>>
           k == f - 1
           p == IF f = 1 THEN 0 ELSE 1
           a0 == Len(Flat(L, k))
           x == L[f]
<1>1. L \in Seq(Seq(Alphabet)) /\ Len(L) = n
  BY LineIs
<1>2. /\ Len(V) \in Nat /\ Len(x) = p + Len(V)
      /\ \A j \in 1 .. Len(V) : x[p + j] = V[j]
  <2>1. HasComma(record, f, x)
    BY LineIs
  <2> QED BY <2>1 DEF HasComma
<1>3. k \in 0 .. Len(L) /\ k < Len(L) /\ k + 1 = f /\ p \in {0, 1} /\ (f # 1 => p = 1)
  BY <1>1
<1>4. /\ B \in Seq(Alphabet) /\ Flat(L, 0) = <<>> /\ B = Flat(L, n)
  <2>1. n \in 0 .. n
    OBVIOUS
  <2> QED BY <1>1, <2>1, FlatIs
<1>5. t \in Seq(Alphabet) /\ Len(t) = 2 /\ t[1] = CR /\ t[2] = LF
  BY DEF Alphabet, Special
<1>6. W = B \o t
  BY DEF WriteRecord, Line
<1>7. f # n => L[f + 1][1] = Comma /\ Len(L[f + 1]) \in Nat \ {0}
  <2> SUFFICES ASSUME f # n PROVE L[f + 1][1] = Comma /\ Len(L[f + 1]) \in Nat \ {0}
    OBVIOUS
  <2>1. f + 1 \in 1 .. n /\ f + 1 # 1
    OBVIOUS
  <2> DEFINE g == f + 1
  <2> HIDE DEF g, L
  <2>2. /\ L[g][1] = Comma /\ Len(WriteValue(record[g])) \in Nat
        /\ Len(L[g]) = 1 + Len(WriteValue(record[g]))
    <3>1. HasComma(record, g, L[g]) /\ g # 1
      BY <2>1, LineIs DEF g, L
    <3> QED BY <3>1 DEF HasComma
  <2> QED BY <2>2 DEF g
<1> HIDE DEF V, W, L, B, t, p
<1>8. /\ a0 \in Nat /\ Len(x) \in Nat /\ Len(B) \in Nat
      /\ Len(Flat(L, f)) = a0 + Len(x) /\ a0 + Len(x) <= Len(B)
      /\ \A j \in 1 .. Len(x) : B[a0 + j] = x[j]
  <2>1. /\ Len(Flat(L, k)) \in Nat /\ Len(L[k + 1]) \in Nat /\ Len(FlattenSeq(L)) \in Nat
        /\ Len(Flat(L, k + 1)) = Len(Flat(L, k)) + Len(L[k + 1])
        /\ Len(Flat(L, k)) + Len(L[k + 1]) <= Len(FlattenSeq(L))
        /\ \A j \in 1 .. Len(L[k + 1]) : FlattenSeq(L)[Len(Flat(L, k)) + j] = L[k + 1][j]
    <3> HIDE DEF k
    <3> QED BY <1>1, <1>3, FlatAt
  <2> QED BY <1>3, <2>1 DEF B
<1> DEFINE a == FieldStart(record, f)
<1>9. a = a0 + p
  BY DEF FieldStart, L, p
<1>10. f = 1 => a0 = 0 /\ p = 0
  BY <1>4, EmptySeq DEF p
<1>11. /\ W \in Seq(Alphabet) /\ Len(W) = Len(B) + 2
       /\ \A j \in 1 .. Len(B) : W[j] = B[j]
       /\ W[Len(B) + 1] = CR /\ W[Len(B) + 2] = LF
  <2>1. /\ W \in Seq(Alphabet) /\ Len(W) = Len(B) + Len(t)
        /\ \A j \in 1 .. Len(B) + Len(t) : W[j] = IF j <= Len(B) THEN B[j] ELSE t[j - Len(B)]
    BY <1>4, <1>5, <1>6, ConcatProperties
  <2>2. /\ Len(B) + 1 \in 1 .. Len(B) + Len(t) /\ Len(B) + 2 \in 1 .. Len(B) + Len(t)
        /\ ~(Len(B) + 1 <= Len(B)) /\ ~(Len(B) + 2 <= Len(B))
        /\ (Len(B) + 1) - Len(B) = 1 /\ (Len(B) + 2) - Len(B) = 2
    BY <1>5, <1>8
  <2>3. ASSUME NEW j \in 1 .. Len(B) PROVE j \in 1 .. Len(B) + Len(t) /\ j <= Len(B)
    BY <1>5, <1>8
  <2>4. W[Len(B) + 1] = CR /\ W[Len(B) + 2] = LF
    BY <1>5, <2>1, <2>2
  <2>5. \A j \in 1 .. Len(B) : W[j] = B[j]
    BY <2>1, <2>3
  <2> QED BY <1>5, <2>1, <2>4, <2>5
<1>12. f # n => W[a0 + Len(x) + 1] = Comma /\ FieldStart(record, f + 1) = a0 + Len(x) + 1
  <2> SUFFICES ASSUME f # n
               PROVE  W[a0 + Len(x) + 1] = Comma /\ FieldStart(record, f + 1) = a0 + Len(x) + 1
    OBVIOUS
  <2>1. f \in 0 .. Len(L) /\ f < Len(L) /\ (f + 1) - 1 = f /\ f + 1 # 1
    BY <1>1
  <2>2. /\ Len(Flat(L, f)) + Len(L[f + 1]) <= Len(B)
        /\ \A j \in 1 .. Len(L[f + 1]) : B[Len(Flat(L, f)) + j] = L[f + 1][j]
    BY <1>1, <2>1, FlatAt DEF B
  <2>3. 1 \in 1 .. Len(L[f + 1]) /\ Len(Flat(L, f)) + 1 \in 1 .. Len(B)
    <3>1. \A d, m, e \in Nat : m # 0 /\ d + m <= e => 1 \in 1 .. m /\ d + 1 \in 1 .. e
      OBVIOUS
    <3>2. Len(L[f + 1]) \in Nat /\ Len(L[f + 1]) # 0
      BY <1>7
    <3>3. Len(Flat(L, f)) \in Nat
      <4>1. \A d, e \in Nat : d + e \in Nat
        OBVIOUS
      <4> QED BY <1>8, <4>1
    <3>4. Len(B) \in Nat
      BY <1>8
    <3> QED BY <2>2, <3>1, <3>2, <3>3, <3>4
  <2>4. B[Len(Flat(L, f)) + 1] = Comma
    BY <1>7, <2>2, <2>3
  <2>5. W[Len(Flat(L, f)) + 1] = Comma
    BY <1>11, <2>3, <2>4
  <2>6. FieldStart(record, f + 1) = Len(Flat(L, f)) + 1
    BY <2>1 DEF FieldStart, L
  <2> QED BY <1>8, <2>5, <2>6
<1>13. f = n => Len(B) = a0 + Len(x)
  BY <1>4, <1>8
<1> HIDE DEF a0, x, k, a
<1>14. ASSUME NEW j \in 1 .. Len(V) PROVE W[a + j] = V[j]
  <2>1. p + j \in 1 .. Len(x) /\ a0 + (p + j) = a + j /\ a0 + (p + j) \in 1 .. Len(B)
    BY <1>2, <1>3, <1>8, <1>9
  <2>2. B[a0 + (p + j)] = x[p + j] /\ W[a0 + (p + j)] = B[a0 + (p + j)]
    BY <1>8, <1>11, <2>1
  <2> QED BY <1>2, <2>1, <2>2
<1>15. a \in Nat /\ a + Len(V) = a0 + Len(x) /\ a + Len(V) + 2 <= Len(W) /\ (a = 0 <=> f = 1)
  BY <1>2, <1>3, <1>8, <1>9, <1>10, <1>11
<1>16. Len(W) \in Nat
  BY <1>8, <1>11
<1> HIDE DEF FieldStart
<1> QED BY <1>2, <1>11, <1>12, <1>13, <1>14, <1>15, <1>16 DEF FitsRecord, V, W, a

\* The texts of all records, and where the record after the first k begins.
Lined(records) == [m \in DOMAIN records |-> WriteRecord(records[m])]
Ends(records, k) == Len(Flat(Lined(records), k))

\* Where the value of field f of the record after the first r begins.
Place(records, r, f) == Ends(records, r) + FieldStart(records[r + 1], f)

\* The rows of the first k records.
Lasting(records) ==
  [k \in DOMAIN records |->
    IF Chars(records[k]) = << <<>> >> THEN <<>> ELSE <<Chars(records[k])>>]
Kept(records, k) == Flat(Lasting(records), k)

\* The text of the records.
LEMMA LinedIs ==
  ASSUME NEW n \in Nat \ {0}, NEW records \in Seq([1 .. n -> Values])
  PROVE  /\ Len(records) \in Nat /\ DOMAIN records = 1 .. Len(records)
         /\ \A k \in 1 .. Len(records) : records[k] \in [1 .. n -> Values]
         /\ Lined(records) \in Seq(Seq(Alphabet)) /\ Len(Lined(records)) = Len(records)
         /\ \A k \in 1 .. Len(records) : Lined(records)[k] = WriteRecord(records[k])
<1>1. /\ Len(records) \in Nat /\ DOMAIN records = 1 .. Len(records)
      /\ \A k \in 1 .. Len(records) : records[k] \in [1 .. n -> Values]
  BY LenProperties, ElementOfSeq
<1>2. Lined(records) = [k \in 1 .. Len(records) |-> WriteRecord(records[k])]
  BY <1>1 DEF Lined
<1>3. ASSUME NEW k \in 1 .. Len(records) PROVE WriteRecord(records[k]) \in Seq(Alphabet)
  <2>1. records[k] \in [1 .. n -> Values] /\ 1 \in 1 .. n
    BY <1>1
  <2>2. FitsRecord(records[k], n, 1)
    BY <2>1, RecordAt
  <2> QED BY <2>2 DEF FitsRecord
<1> QED BY <1>1, <1>2, <1>3

\* Where a record is in the text.
LEMMA LinedAt ==
  ASSUME NEW n \in Nat \ {0}, NEW records \in Seq([1 .. n -> Values]),
         NEW r \in 0 .. Len(records), r < Len(records)
  PROVE  LET W == WriteRecord(records[r + 1])
             all == FlattenSeq(Lined(records))
         IN  /\ Ends(records, r) \in Nat /\ Len(W) \in Nat /\ Len(all) \in Nat
             /\ Ends(records, r + 1) = Ends(records, r) + Len(W)
             /\ Ends(records, r + 1) <= Len(all)
             /\ \A j \in 1 .. Len(W) : all[Ends(records, r) + j] = W[j]
<1> DEFINE s == Lined(records)
<1>1. s \in Seq(Seq(Alphabet)) /\ r \in 0 .. Len(s) /\ r < Len(s)
  BY LinedIs
<1>2. s[r + 1] = WriteRecord(records[r + 1])
  <2>1. r + 1 \in 1 .. Len(records)
    BY LinedIs
  <2> QED BY <2>1, LinedIs
<1> HIDE DEF s
<1>3. /\ Len(Flat(s, r)) \in Nat /\ Len(s[r + 1]) \in Nat /\ Len(FlattenSeq(s)) \in Nat
      /\ Len(Flat(s, r + 1)) = Len(Flat(s, r)) + Len(s[r + 1])
      /\ Len(Flat(s, r)) + Len(s[r + 1]) <= Len(FlattenSeq(s))
      /\ \A j \in 1 .. Len(s[r + 1]) : FlattenSeq(s)[Len(Flat(s, r)) + j] = s[r + 1][j]
  BY <1>1, FlatAt
<1> QED BY <1>2, <1>3 DEF Ends, s

\* Where a field is in the text, and what follows it.
FieldFits(records, n, r, f) ==
  LET V == WriteValue(records[r + 1][f])
      all == FlattenSeq(Lined(records))
      a == Place(records, r, f)
  IN  /\ records[r + 1] \in [1 .. n -> Values] /\ records[r + 1][f] \in Values
      /\ Ends(records, r) \in Nat /\ Ends(records, r + 1) \in Nat
      /\ Len(V) \in Nat /\ Len(all) \in Nat /\ a \in Nat
      /\ a >= Ends(records, r) /\ (a = Ends(records, r) <=> f = 1)
      /\ a + Len(V) + 2 <= Ends(records, r + 1)
      /\ Ends(records, r + 1) <= Len(all)
      /\ \A j \in 1 .. Len(V) : all[a + j] = V[j]
      /\ f # n => /\ all[a + Len(V) + 1] = Comma
                  /\ Place(records, r, f + 1) = a + Len(V) + 1
      /\ f = n => /\ all[a + Len(V) + 1] = CR /\ all[a + Len(V) + 2] = LF
                  /\ Ends(records, r + 1) = a + Len(V) + 2

\* Every field of every record fits.
LEMMA PlaceAt ==
  ASSUME NEW n \in Nat \ {0}, NEW records \in Seq([1 .. n -> Values]),
         NEW r \in 0 .. Len(records), r < Len(records), NEW f \in 1 .. n
  PROVE  FieldFits(records, n, r, f)
<1> DEFINE record == records[r + 1]
           V == WriteValue(record[f])
           W == WriteRecord(record)
           all == FlattenSeq(Lined(records))
           e == Ends(records, r)
           b == FieldStart(record, f)
           d == FieldStart(record, f + 1)
<1>1. record \in [1 .. n -> Values] /\ record[f] \in Values
  <2>1. r + 1 \in 1 .. Len(records)
    BY LinedIs
  <2> QED BY <2>1, LinedIs
<1>2. /\ e \in Nat /\ Len(W) \in Nat /\ Len(all) \in Nat
      /\ Ends(records, r + 1) = e + Len(W) /\ Ends(records, r + 1) <= Len(all)
      /\ \A j \in 1 .. Len(W) : all[e + j] = W[j]
  BY LinedAt
<1> HIDE DEF record
<1>3. /\ Len(V) \in Nat /\ b \in Nat /\ (b = 0 <=> f = 1)
      /\ b + Len(V) + 2 <= Len(W)
      /\ \A j \in 1 .. Len(V) : W[b + j] = V[j]
      /\ f # n => W[b + Len(V) + 1] = Comma /\ d = b + Len(V) + 1
      /\ f = n => /\ W[b + Len(V) + 1] = CR /\ W[b + Len(V) + 2] = LF
                  /\ Len(W) = b + Len(V) + 2
  <2>1. FitsRecord(record, n, f)
    BY <1>1, RecordAt
  <2> QED BY <2>1 DEF FitsRecord
<1>4. Place(records, r, f) = e + b /\ Place(records, r, f + 1) = e + d
  BY DEF Place, record
<1> HIDE DEF V, W, all, e, b, d
<1>5. ASSUME NEW j \in 1 .. Len(V) PROVE all[e + b + j] = V[j]
  <2>1. b + j \in 1 .. Len(W) /\ e + (b + j) = e + b + j
    BY <1>2, <1>3
  <2> QED BY <1>2, <1>3, <2>1
<1>6. /\ b + Len(V) + 1 \in 1 .. Len(W) /\ e + (b + Len(V) + 1) = e + b + Len(V) + 1
      /\ b + Len(V) + 2 \in 1 .. Len(W) /\ e + (b + Len(V) + 2) = e + b + Len(V) + 2
  BY <1>2, <1>3
<1>7. /\ all[e + b + Len(V) + 1] = W[b + Len(V) + 1]
      /\ all[e + b + Len(V) + 2] = W[b + Len(V) + 2]
  BY <1>2, <1>6
<1>8. f # n => all[e + b + Len(V) + 1] = Comma /\ e + d = e + b + Len(V) + 1
  BY <1>2, <1>3, <1>7
<1>9. f = n => /\ all[e + b + Len(V) + 1] = CR /\ all[e + b + Len(V) + 2] = LF
               /\ Ends(records, r + 1) = e + b + Len(V) + 2
  <2>2. f = n => Len(W) = b + Len(V) + 2
    BY <1>3
  <2>3. f = n => e + Len(W) = e + b + Len(V) + 2
    <3>1. e \in Nat /\ b \in Nat /\ Len(V) \in Nat /\ Len(W) \in Nat
      BY <1>2, <1>3
    <3> DEFINE w == Len(W)
               m == Len(V)
    <3>2. f = n => w = b + m + 2
      BY <2>2
    <3>3. e \in Nat /\ b \in Nat /\ m \in Nat /\ w \in Nat
      BY <3>1
    <3> HIDE DEF w, m
    <3>4. f = n => e + w = e + b + m + 2
      BY <3>2, <3>3
    <3> QED BY <3>4 DEF w, m
  <2>4. f = n => Ends(records, r + 1) = e + b + Len(V) + 2
    BY <1>2, <2>3
  <2> QED BY <1>3, <1>7, <2>4
<1>10. /\ Ends(records, r + 1) \in Nat /\ e + b \in Nat /\ e + b >= e
       /\ (e + b = e <=> f = 1) /\ e + b + Len(V) + 2 <= Ends(records, r + 1)
  <2>1. \A x, y, z, w \in Nat :
          /\ x + w \in Nat /\ x + y \in Nat /\ x + y >= x /\ (x + y = x <=> y = 0)
          /\ y + z + 2 <= w => x + y + z + 2 <= x + w
    OBVIOUS
  <2> QED BY <1>2, <1>3, <2>1
<1> QED BY <1>1, <1>2, <1>3, <1>4, <1>5, <1>8, <1>9, <1>10 DEF FieldFits, V, all, e, record

\* One more record is one more row, unless it is a single empty field.
LEMMA KeptIs ==
  ASSUME NEW n \in Nat \ {0}, NEW records \in Seq([1 .. n -> Values])
  PROVE  /\ Lasting(records) \in Seq(Seq(Seq(Seq(Alphabet))))
         /\ Len(Lasting(records)) = Len(records)
         /\ Kept(records, 0) = <<>> /\ Kept(records, Len(records)) = NotBlank(records)
         /\ \A r \in 0 .. Len(records) : r < Len(records) =>
              /\ Chars(records[r + 1]) \in Seq(Seq(Alphabet))
              /\ Len(Chars(records[r + 1])) = n
              /\ \A f \in 1 .. n : Chars(records[r + 1])[f] = records[r + 1][f].chars
              /\ Kept(records, r) \in Seq(Seq(Seq(Alphabet)))
              /\ Kept(records, r + 1) =
                   IF Chars(records[r + 1]) = << <<>> >> THEN Kept(records, r)
                   ELSE Append(Kept(records, r), Chars(records[r + 1]))
<1> DEFINE Row1(k) == IF Chars(records[k]) = << <<>> >> THEN <<>> ELSE <<Chars(records[k])>>
           N == Len(records)
           s == Lasting(records)
           S == Seq(Seq(Alphabet))
<1>1. /\ N \in Nat /\ DOMAIN records = 1 .. N
      /\ \A k \in 1 .. N : records[k] \in [1 .. n -> Values]
  BY LinedIs
<1>2. ASSUME NEW k \in 1 .. N
      PROVE  /\ Chars(records[k]) \in Seq(Seq(Alphabet)) /\ Len(Chars(records[k])) = n
             /\ \A f \in 1 .. n : Chars(records[k])[f] = records[k][f].chars
  <2>1. DOMAIN records[k] = 1 .. n
    BY <1>1
  <2>2. \A f \in 1 .. n : records[k][f].chars \in Seq(Alphabet)
    BY <1>1, WriteValueIs
  <2>3. Chars(records[k]) = [f \in 1 .. n |-> records[k][f].chars]
    BY <2>1 DEF Chars
  <2> QED BY <2>2, <2>3
<1>3. ASSUME NEW k \in 1 .. N PROVE Row1(k) \in Seq(S)
  <2>1. <<>> \in Seq(S)
    BY EmptySeq
  <2>2. Chars(records[k]) \in S
    BY <1>2
  <2> HIDE DEF S
  <2> QED BY <2>1, <2>2
<1> HIDE DEF Row1
<1>4. s = [k \in 1 .. N |-> Row1(k)]
  BY <1>1 DEF Lasting, Row1
<1>5. s \in Seq(Seq(S)) /\ Len(s) = N /\ \A k \in 1 .. N : s[k] = Row1(k)
  <2> HIDE DEF s, S
  <2> QED BY <1>1, <1>3, <1>4
<1>6. FlattenSeq(s) = NotBlank(records)
  BY DEF NotBlank, Lasting
<1> HIDE DEF s, S
<1>7. /\ Flat(s, 0) = <<>> /\ Flat(s, N) = FlattenSeq(s)
      /\ \A k \in 0 .. N : Flat(s, k) \in Seq(S)
      /\ \A k \in 0 .. N : k < N => Flat(s, k + 1) = Flat(s, k) \o s[k + 1]
  BY <1>5, FlatIs
<1>8. ASSUME NEW r \in 0 .. N, r < N
      PROVE  /\ Kept(records, r) \in Seq(S)
             /\ Kept(records, r + 1) =
                  IF Chars(records[r + 1]) = << <<>> >> THEN Kept(records, r)
                  ELSE Append(Kept(records, r), Chars(records[r + 1]))
  <2>1. r + 1 \in 1 .. N
    BY <1>1, <1>8
  <2>2. /\ Kept(records, r) \in Seq(S)
        /\ Kept(records, r + 1) = Kept(records, r) \o Row1(r + 1)
    BY <1>5, <1>7, <1>8, <2>1 DEF Kept, s
  <2>3. Chars(records[r + 1]) \in S
    BY <1>2, <2>1 DEF S
  <2>4. CASE Chars(records[r + 1]) = << <<>> >>
    BY <2>2, <2>4, ConcatEmptySeq DEF Row1
  <2>5. CASE Chars(records[r + 1]) # << <<>> >>
    BY <2>2, <2>3, <2>5, AppendIsConcat DEF Row1
  <2> QED BY <2>2, <2>4, <2>5
<1>9. ASSUME NEW r \in 0 .. N, r < N PROVE r + 1 \in 1 .. N
  BY <1>1, <1>9
<1> QED BY <1>2, <1>5, <1>6, <1>7, <1>8, <1>9 DEF Kept, s, S

--------------------------------------------------------------------------------
(* How parseCSV reads the text of the records.                             *)

\* The parser is at character p and has read j characters of the value of field f
\* of the record after the first r.
InField(records, r, f, j, p, q, val, row) ==
  /\ p = Place(records, r, f) + j + 1 /\ j <= Len(WriteValue(records[r + 1][f]))
  /\ row = Upto(Chars(records[r + 1]), f - 1)
  /\ Scan(records[r + 1][f], j, q, val)

\* The parser is somewhere in the text, with the rows of the records it has read.
Reads(records, n, p, q, val, row, got) ==
  \E r \in 0 .. Len(records) :
    /\ got = Kept(records, r)
    /\ \/ /\ r = Len(records) /\ p = Ends(records, r) + 1
          /\ ~q /\ val = <<>> /\ row = <<>>
       \/ /\ r < Len(records)
          /\ \E f \in 1 .. n, j \in Nat : InField(records, r, f, j, p, q, val, row)

\* At the end of a record the parser is in its place.
LEMMA ReadsBetween ==
  ASSUME NEW n \in Nat \ {0}, NEW records \in Seq([1 .. n -> Values]),
         NEW r \in 0 .. Len(records)
  PROVE  Reads(records, n, Ends(records, r) + 1, FALSE, <<>>, <<>>, Kept(records, r))
<1>1. CASE r = Len(records)
  BY <1>1 DEF Reads
<1>2. CASE r # Len(records)
  <2>1. r < Len(records) /\ 1 \in 1 .. n /\ 0 \in Nat
    BY <1>2, LinedIs
  <2> DEFINE v == records[r + 1][1]
  <2>2. /\ v \in Values /\ Place(records, r, 1) = Ends(records, r)
        /\ Ends(records, r) \in Nat
    <3>1. FieldFits(records, n, r, 1)
      BY <2>1, PlaceAt
    <3> QED BY <3>1 DEF FieldFits
  <2>3. Chars(records[r + 1]) \in Seq(Seq(Alphabet))
    BY <2>1, KeptIs
  <2>4. Upto(Chars(records[r + 1]), 1 - 1) = <<>>
    BY <2>3, UptoIs
  <2> HIDE DEF v
  <2>5. Scan(v, 0, FALSE, <<>>) /\ 0 <= Len(WriteValue(v))
    <3>1. Scan(v, 0, FALSE, <<>>) /\ Len(WriteValue(v)) \in Nat
      BY <2>2, ScanEnds
    <3>2. \A m \in Nat : 0 <= m
      OBVIOUS
    <3> QED BY <3>1, <3>2
  <2>6. Ends(records, r) + 1 = Place(records, r, 1) + 0 + 1
    BY <2>2
  <2>7. InField(records, r, 1, 0, Ends(records, r) + 1, FALSE, <<>>, <<>>)
    BY <2>4, <2>5, <2>6 DEF InField, v
  <2> QED BY <2>1, <2>7 DEF Reads
<1> QED BY <1>1, <1>2

\* Past the end of the text every record has been read.
LEMMA ReadsEnd ==
  ASSUME NEW n \in Nat \ {0}, NEW records \in Seq([1 .. n -> Values]),
         NEW p, NEW q, NEW val, NEW row, NEW got,
         Reads(records, n, p, q, val, row, got), p > Len(FlattenSeq(Lined(records)))
  PROVE  /\ p = Ends(records, Len(records)) + 1 /\ ~q /\ val = <<>> /\ row = <<>>
         /\ got = Kept(records, Len(records))
<1>1. PICK r \in 0 .. Len(records) :
        /\ got = Kept(records, r)
        /\ \/ /\ r = Len(records) /\ p = Ends(records, r) + 1
              /\ ~q /\ val = <<>> /\ row = <<>>
           \/ /\ r < Len(records)
              /\ \E f \in 1 .. n, j \in Nat : InField(records, r, f, j, p, q, val, row)
  BY DEF Reads
<1>2. ASSUME r < Len(records), NEW f \in 1 .. n, NEW j \in Nat,
             InField(records, r, f, j, p, q, val, row)
      PROVE  FALSE
  <2> DEFINE a == Place(records, r, f)
             m == Len(WriteValue(records[r + 1][f]))
             z == Ends(records, r + 1)
             l == Len(FlattenSeq(Lined(records)))
  <2>1. a \in Nat /\ m \in Nat /\ z \in Nat /\ l \in Nat /\ a + m + 2 <= z /\ z <= l
    <3>1. FieldFits(records, n, r, f)
      BY <1>2, PlaceAt
    <3> QED BY <3>1 DEF FieldFits
  <2>2. p = a + j + 1 /\ j <= m /\ p > l
    BY <1>2 DEF InField
  <2> HIDE DEF a, m, z, l
  <2> QED BY <2>1, <2>2
<1> QED BY <1>1, <1>2

\* Within the text the next character, with the one after it, is what one of the
\* cases of parseCSV is for, and that case keeps the parser in its place.
LEMMA ReadsStep ==
  ASSUME NEW n \in Nat \ {0}, NEW records \in Seq([1 .. n -> Values]),
         NEW p \in Nat, NEW q \in BOOLEAN, NEW val, NEW row, NEW got,
         Reads(records, n, p, q, val, row, got), p <= Len(FlattenSeq(Lined(records)))
  PROVE  LET all == FlattenSeq(Lined(records))
             full == Append(row, val)
         IN  \/ /\ all[p] = Quote /\ q /\ p < Len(all) /\ all[p + 1] = Quote
                /\ Reads(records, n, p + 2, q, Append(val, Quote), row, got)
             \/ /\ all[p] = Quote /\ ~(q /\ p < Len(all) /\ all[p + 1] = Quote)
                /\ Reads(records, n, p + 1, ~q, val, row, got)
             \/ /\ all[p] # Quote /\ (q \/ all[p] \notin Special)
                /\ Reads(records, n, p + 1, q, Append(val, all[p]), row, got)
             \/ /\ all[p] = Comma /\ ~q
                /\ Reads(records, n, p + 1, q, <<>>, full, got)
             \/ /\ all[p] = CR /\ ~q /\ p < Len(all) /\ all[p + 1] = LF
                /\ Reads(records, n, p + 2, q, <<>>, <<>>,
                         IF Keep(full) THEN Append(got, full) ELSE got)
<1> DEFINE all == FlattenSeq(Lined(records))
           full == Append(row, val)
<1>1. PICK r \in 0 .. Len(records) :
        /\ got = Kept(records, r)
        /\ \/ /\ r = Len(records) /\ p = Ends(records, r) + 1
              /\ ~q /\ val = <<>> /\ row = <<>>
           \/ /\ r < Len(records)
              /\ \E f \in 1 .. n, j \in Nat : InField(records, r, f, j, p, q, val, row)
  BY DEF Reads
<1>2. ~(r = Len(records) /\ p = Ends(records, r) + 1)
  <2>1. Lined(records) \in Seq(Seq(Alphabet)) /\ Len(Lined(records)) = Len(records)
    BY LinedIs
  <2>2. Ends(records, Len(records)) = Len(all)
    BY <2>1, FlatIs DEF Ends
  <2>3. Len(all) \in Nat
    <3>1. Flat(Lined(records), Len(records)) \in Seq(Alphabet)
      <4>1. Len(Lined(records)) \in 0 .. Len(Lined(records))
        BY <2>1, FlatIs
      <4> QED BY <2>1, <4>1, FlatIs
    <3>2. Ends(records, Len(records)) \in Nat
      BY <3>1, LenProperties DEF Ends
    <3> QED BY <2>2, <3>2
  <2> HIDE DEF all
  <2> QED BY <2>2, <2>3 DEF all
<1>3. r < Len(records) /\ \E f \in 1 .. n, j \in Nat : InField(records, r, f, j, p, q, val, row)
  BY <1>1, <1>2
<1>4. PICK f \in 1 .. n, j \in Nat : InField(records, r, f, j, p, q, val, row)
  BY <1>3
<1> DEFINE v == records[r + 1][f]
           V == WriteValue(v)
           a == Place(records, r, f)
           z == Ends(records, r + 1)
<1>5. /\ v \in Values /\ Len(V) \in Nat /\ Len(all) \in Nat /\ a \in Nat /\ z \in Nat
      /\ a + Len(V) + 2 <= z /\ z <= Len(all)
      /\ \A k \in 1 .. Len(V) : all[a + k] = V[k]
      /\ f # n => all[a + Len(V) + 1] = Comma /\ Place(records, r, f + 1) = a + Len(V) + 1
      /\ f = n => /\ all[a + Len(V) + 1] = CR /\ all[a + Len(V) + 2] = LF
                  /\ z = a + Len(V) + 2
  <2>1. FieldFits(records, n, r, f)
    BY <1>3, PlaceAt
  <2> QED BY <2>1 DEF FieldFits
<1>6. /\ p = a + j + 1 /\ j <= Len(V) /\ row = Upto(Chars(records[r + 1]), f - 1)
      /\ Scan(v, j, q, val)
  BY <1>4 DEF InField
<1>7. ASSUME NEW k \in Nat, NEW p2, NEW q2, NEW val2,
             k <= Len(V), p2 = a + k + 1, Scan(v, k, q2, val2)
      PROVE  Reads(records, n, p2, q2, val2, row, got)
  <2>1. InField(records, r, f, k, p2, q2, val2, row)
    BY <1>6, <1>7 DEF InField
  <2> QED BY <1>1, <1>3, <2>1 DEF Reads
<1> HIDE DEF all, full, V, v, a, z
<1>10. /\ Len(V) \in Nat /\ Len(all) \in Nat /\ a \in Nat /\ z \in Nat
       /\ a + Len(V) + 2 <= z /\ z <= Len(all) /\ p = a + j + 1 /\ j <= Len(V)
  BY <1>5, <1>6
<1>8. CASE j < Len(V)
  <2>1. \/ /\ V[j + 1] = Quote /\ q /\ j + 2 <= Len(V) /\ V[j + 2] = Quote
           /\ Scan(v, j + 2, q, Append(val, Quote))
        \/ /\ V[j + 1] = Quote /\ (q => j + 1 = Len(V))
           /\ Scan(v, j + 1, ~q, val)
        \/ /\ V[j + 1] # Quote /\ (q \/ V[j + 1] \notin Special)
           /\ Scan(v, j + 1, q, Append(val, V[j + 1]))
    BY <1>5, <1>6, <1>8, ScanStep DEF V
  <2>2. j + 1 \in 1 .. Len(V) /\ a + (j + 1) = p /\ p < Len(all)
    BY <1>10, <1>8
  <2>3. all[p] = V[j + 1]
    BY <1>5, <2>2
  <2>4. j + 1 \in Nat /\ j + 1 <= Len(V) /\ p + 1 = a + (j + 1) + 1
    BY <1>10, <1>8
  <2>5. CASE /\ V[j + 1] = Quote /\ q /\ j + 2 <= Len(V) /\ V[j + 2] = Quote
             /\ Scan(v, j + 2, q, Append(val, Quote))
    <3>1. /\ j + 2 \in 1 .. Len(V) /\ j + 2 \in Nat
          /\ a + (j + 2) = p + 1 /\ p + 2 = a + (j + 2) + 1
      BY <1>10, <2>5
    <3>2. all[p + 1] = V[j + 2]
      BY <1>5, <3>1
    <3>3. Reads(records, n, p + 2, q, Append(val, Quote), row, got)
      BY <1>7, <2>5, <3>1
    <3> QED BY <2>2, <2>3, <2>5, <3>2, <3>3 DEF all
  <2>6. CASE V[j + 1] = Quote /\ (q => j + 1 = Len(V)) /\ Scan(v, j + 1, ~q, val)
    <3>1. Reads(records, n, p + 1, ~q, val, row, got)
      BY <1>7, <2>4, <2>6
    <3>2. q => all[p + 1] # Quote
      <4> SUFFICES ASSUME q PROVE all[p + 1] # Quote
        OBVIOUS
      <4>1. p + 1 = a + Len(V) + 1
        <5>1. j + 1 = Len(V)
          BY <2>6
        <5>2. p = a + (j + 1)
          BY <1>10
        <5> QED BY <5>1, <5>2
      <4>2. all[p + 1] = Comma \/ all[p + 1] = CR
        BY <1>5, <4>1
      <4> QED BY <4>2, SpecialIs
    <3> QED BY <2>3, <2>6, <3>1, <3>2 DEF all
  <2>7. CASE /\ V[j + 1] # Quote /\ (q \/ V[j + 1] \notin Special)
             /\ Scan(v, j + 1, q, Append(val, V[j + 1]))
    <3>1. Reads(records, n, p + 1, q, Append(val, V[j + 1]), row, got)
      BY <1>7, <2>4, <2>7
    <3> QED BY <2>3, <2>7, <3>1 DEF all
  <2> QED BY <2>1, <2>5, <2>6, <2>7
<1>9. CASE ~(j < Len(V))
  <2>1. j = Len(V) /\ p = a + Len(V) + 1
    BY <1>10, <1>9
  <2>2. ~q /\ val = v.chars
    BY <1>5, <1>6, <2>1, ScanEnds DEF V
  <2> DEFINE cs == Chars(records[r + 1])
  <2>3. /\ cs \in Seq(Seq(Alphabet)) /\ Len(cs) = n /\ cs[f] = val
        /\ Kept(records, r + 1) = IF cs = << <<>> >> THEN got ELSE Append(got, cs)
    BY <1>1, <1>3, <2>2, KeptIs DEF v
  <2> HIDE DEF cs
  <2>4. full = Upto(cs, f)
    <3>1. f - 1 \in 0 .. Len(cs) /\ f - 1 < Len(cs) /\ (f - 1) + 1 = f
      BY <2>3
    <3> DEFINE k == f - 1
    <3> HIDE DEF k
    <3>2. k \in 0 .. Len(cs) /\ k < Len(cs)
      BY <3>1 DEF k
    <3>3. Upto(cs, k + 1) = Append(Upto(cs, k), cs[k + 1])
      BY <2>3, <3>2, UptoIs
    <3>4. k + 1 = f
      BY <3>1 DEF k
    <3>5. Upto(cs, f) = Append(Upto(cs, k), cs[f])
      BY <3>3, <3>4
    <3> QED BY <1>6, <2>3, <3>5 DEF full, cs, k
  <2>5. CASE f # n
    <3>1. all[p] = Comma /\ Place(records, r, f + 1) = p /\ f + 1 \in 1 .. n /\ (f + 1) - 1 = f
      <4>1. all[p] = Comma /\ Place(records, r, f + 1) = p
        BY <1>5, <2>1, <2>5
      <4>2. f + 1 \in 1 .. n /\ (f + 1) - 1 = f
        BY <2>5
      <4> QED BY <4>1, <4>2
    <3>2. /\ records[r + 1][f + 1] \in Values
          /\ 0 <= Len(WriteValue(records[r + 1][f + 1]))
          /\ Scan(records[r + 1][f + 1], 0, q, <<>>)
      <4>1. records[r + 1][f + 1] \in Values
        <5>1. FieldFits(records, n, r, f + 1)
          BY <1>3, <3>1, PlaceAt
        <5> QED BY <5>1 DEF FieldFits
      <4> DEFINE w == records[r + 1][f + 1]
      <4> HIDE DEF w
      <4>2. w \in Values
        BY <4>1 DEF w
      <4>3. Len(WriteValue(w)) \in Nat /\ Scan(w, 0, FALSE, <<>>)
        BY <4>2, ScanEnds
      <4>4. q = FALSE /\ 0 <= Len(WriteValue(w))
        BY <2>2, <4>3
      <4> QED BY <4>1, <4>3, <4>4 DEF w
    <3>3. p + 1 = Place(records, r, f + 1) + 0 + 1
      BY <3>1
    <3>4. InField(records, r, f + 1, 0, p + 1, q, <<>>, full)
      BY <2>4, <3>1, <3>2, <3>3 DEF InField, cs
    <3>5. Reads(records, n, p + 1, q, <<>>, full, got)
      BY <1>1, <1>3, <3>1, <3>4 DEF Reads
    <3> QED BY <2>2, <3>1, <3>5 DEF all, full
  <2>6. CASE f = n
    <3>1. /\ all[p] = CR /\ all[p + 1] = LF /\ p < Len(all)
          /\ p + 2 = Ends(records, r + 1) + 1
      <4>1. p + 1 = a + Len(V) + 2 /\ p + 2 = z + 1 /\ p < Len(all)
        BY <1>5, <2>1, <2>6
      <4> QED BY <1>5, <2>1, <2>6, <4>1 DEF z
    <3>2. full = cs
      BY <2>3, <2>4, <2>6, UptoIs
    <3>3. Keep(full) <=> cs # << <<>> >>
      <4>1. ASSUME Len(cs) = 1, cs[1] = <<>> PROVE cs = << <<>> >>
        <5>1. << <<>> >> \in Seq(Seq(Alphabet)) /\ Len(<< <<>> >>) = 1 /\ << <<>> >>[1] = <<>>
          BY EmptySeq
        <5> QED BY <2>3, <4>1, <5>1, SeqEqual
      <4>2. ASSUME cs = << <<>> >> PROVE Len(cs) = 1 /\ cs[1] = <<>>
        BY <4>2
      <4>3. Len(cs) > 1 <=> Len(cs) # 1
        BY <2>3
      <4> QED BY <3>2, <4>1, <4>2, <4>3 DEF Keep
    <3>4. Kept(records, r + 1) = IF Keep(full) THEN Append(got, full) ELSE got
      BY <2>3, <3>2, <3>3
    <3>5. r + 1 \in 0 .. Len(records)
      BY <1>3, LinedIs
    <3>6. Reads(records, n, p + 2, q, <<>>, <<>>, Kept(records, r + 1))
      <4>1. q = FALSE
        BY <2>2
      <4> QED BY <3>1, <3>5, <4>1, ReadsBetween
    <3> QED BY <2>2, <3>1, <3>4, <3>6 DEF all, full
  <2> QED BY <2>5, <2>6
<1> QED BY <1>8, <1>9

--------------------------------------------------------------------------------
(* The writer and the parser.                                              *)

\* The fields of a record. A result without columns has no record, so that their
\* number does not matter.
Width == IF columns = 0 THEN 1 ELSE columns

Written ==
  /\ stage \in {"writing", "parsing", "shown"}
  /\ columns \in Nat
  /\ columns = 0 => result = <<>>
  /\ stage # "writing" /\ columns # 0 => result # <<>>
  /\ result \in Seq([1 .. Width -> Values])
  /\ text = FlattenSeq(Lined(result))

Parsed ==
  /\ i \in Nat /\ inQuotes \in BOOLEAN
  /\ stage = "writing" =>
       i = 1 /\ ~inQuotes /\ currentVal = <<>> /\ currentRow = <<>> /\ rows = <<>>
  /\ stage # "writing" =>
       Reads(result, Width, i, inQuotes, currentVal, currentRow, rows)
  /\ stage = "shown" => i > Len(text)

IInv == Written /\ Parsed

\* The text of one more record.
LEMMA LinedAppend ==
  ASSUME NEW n \in Nat \ {0}, NEW records \in Seq([1 .. n -> Values]),
         NEW record \in [1 .. n -> Values]
  PROVE  FlattenSeq(Lined(Append(records, record)))
           = FlattenSeq(Lined(records)) \o WriteRecord(record)
<1> DEFINE more == Append(records, record)
           s == Lined(records)
           t == Lined(more)
           W == WriteRecord(record)
           u == Append(s, W)
<1>1. /\ more \in Seq([1 .. n -> Values]) /\ Len(more) = Len(records) + 1
      /\ \A k \in 1 .. Len(records) : more[k] = records[k]
      /\ more[Len(records) + 1] = record
  BY AppendProperties
<1>2. /\ Len(records) \in Nat /\ s \in Seq(Seq(Alphabet)) /\ Len(s) = Len(records)
      /\ \A k \in 1 .. Len(records) : s[k] = WriteRecord(records[k])
  BY LinedIs
<1> HIDE DEF more
<1>3. /\ t \in Seq(Seq(Alphabet)) /\ Len(t) = Len(records) + 1
      /\ \A k \in 1 .. Len(records) + 1 : t[k] = WriteRecord(more[k])
  <2>1. /\ t \in Seq(Seq(Alphabet)) /\ Len(t) = Len(more)
        /\ \A k \in 1 .. Len(more) : t[k] = WriteRecord(more[k])
    BY <1>1, LinedIs
  <2> QED BY <1>1, <2>1
<1>4. W \in Seq(Alphabet)
  <2>1. 1 \in 1 .. n
    OBVIOUS
  <2>2. FitsRecord(record, n, 1)
    BY <2>1, RecordAt
  <2> QED BY <2>2 DEF FitsRecord
<1> HIDE DEF s, t, W
<1>5. /\ u \in Seq(Seq(Alphabet)) /\ Len(u) = Len(s) + 1
      /\ \A k \in 1 .. Len(s) : u[k] = s[k]
      /\ u[Len(s) + 1] = W
  BY <1>2, <1>4, AppendProperties
<1> HIDE DEF u
<1>6. ASSUME NEW k \in 1 .. Len(records) + 1 PROVE t[k] = u[k]
  <2>1. t[k] = WriteRecord(more[k])
    BY <1>3
  <2>2. CASE k \in 1 .. Len(records)
    BY <1>1, <1>2, <1>5, <2>1, <2>2
  <2>3. CASE k = Len(records) + 1
    BY <1>1, <1>2, <1>5, <2>1, <2>3 DEF W
  <2> QED BY <1>2, <2>2, <2>3
<1>7. t = u
  <2>1. Len(t) = Len(u) /\ \A k \in 1 .. Len(t) : t[k] = u[k]
    BY <1>2, <1>3, <1>5, <1>6
  <2> QED BY <1>3, <1>5, <2>1, SeqEqual
<1>8. FlattenSeq(u) = FlattenSeq(s) \o W
  BY <1>2, <1>4, FlattenAppend DEF u
<1> QED BY <1>7, <1>8 DEF t, s, W, more

\* At the beginning of the text nothing has been read.
LEMMA ReadsFirst ==
  ASSUME NEW n \in Nat \ {0}, NEW records \in Seq([1 .. n -> Values])
  PROVE  Reads(records, n, 1, FALSE, <<>>, <<>>, <<>>)
<1>1. 0 \in 0 .. Len(records) /\ Lined(records) \in Seq(Seq(Alphabet))
  <2>1. Len(records) \in Nat /\ Lined(records) \in Seq(Seq(Alphabet))
    BY LinedIs
  <2> QED BY <2>1
<1>2. Ends(records, 0) = 0
  BY <1>1, FlatIs, EmptySeq DEF Ends
<1>3. Kept(records, 0) = <<>>
  BY KeptIs
<1>4. Ends(records, 0) + 1 = 1
  BY <1>2
<1> QED BY <1>1, <1>3, <1>4, ReadsBetween

\* The invariant holds at the start.
LEMMA InitIInv == Init => IInv
<1> SUFFICES ASSUME Init PROVE IInv
  OBVIOUS
<1>1. columns \in Nat /\ result = <<>> /\ text = <<>> /\ stage = "writing"
  BY FormatAssumption DEF Init
<1>2. result \in Seq([1 .. Width -> Values])
  BY <1>1, EmptySeq
<1>3. FlattenSeq(Lined(result)) = <<>>
  <2>1. Width \in Nat \ {0}
    BY <1>1 DEF Width
  <2>2. Lined(result) \in Seq(Seq(Alphabet)) /\ Len(Lined(result)) = Len(result)
    BY <1>2, <2>1, LinedIs
  <2>3. Len(result) = 0
    BY <1>1, EmptySeq
  <2>4. Lined(result) = <<>>
    BY <2>2, <2>3, EmptySeq
  <2> QED BY <2>2, <2>4, FlatIs, UptoIs, EmptySeq DEF Flat
<1>4. Written
  BY <1>1, <1>2, <1>3 DEF Written
<1>5. Parsed
  BY <1>1 DEF Init, Parsed
<1> QED BY <1>4, <1>5 DEF IInv

\* A record is written.
LEMMA EmitIInv ==
  ASSUME IInv, columns # 0, NEW record \in [1 .. columns -> Values], Emit(record)
  PROVE  IInv'
<1>1. /\ stage = "writing" /\ result' = Append(result, record)
      /\ text' = text \o WriteRecord(record)
      /\ UNCHANGED <<stage, columns, i, inQuotes, currentVal, currentRow, rows>>
  BY DEF Emit, parser
<1>2. Width \in Nat \ {0} /\ Width = columns /\ Width' = Width
  BY <1>1 DEF Width, IInv, Written
<1>3. result \in Seq([1 .. Width -> Values]) /\ record \in [1 .. Width -> Values]
  BY <1>2 DEF IInv, Written
<1>4. result' \in Seq([1 .. Width -> Values]) /\ result' # <<>>
  BY <1>1, <1>3, AppendProperties
<1>5. FlattenSeq(Lined(Append(result, record)))
        = FlattenSeq(Lined(result)) \o WriteRecord(record)
  BY <1>2, <1>3, LinedAppend
<1>6. text' = FlattenSeq(Lined(result'))
  <2>1. text = FlattenSeq(Lined(result))
    BY DEF IInv, Written
  <2>2. text' = FlattenSeq(Lined(Append(result, record)))
    BY <1>1, <1>5, <2>1
  <2>3. Lined(result') = Lined(Append(result, record))
    BY <1>1
  <2> QED BY <2>2, <2>3
<1>7. Written'
  <2>1. result' \in Seq([1 .. Width' -> Values])
    BY <1>2, <1>4
  <2> QED BY <1>1, <1>4, <1>6, <2>1 DEF IInv, Written
<1>8. Parsed'
  BY <1>1 DEF IInv, Parsed
<1> QED BY <1>7, <1>8 DEF IInv

\* A step of the parser.
ParserStep == DoubledQuote \/ ToggleQuotes \/ FieldEnd \/ RecordEnd \/ Character

\* The cases of ReadsStep are those of parseCSV.
LEMMA ParserIInv ==
  ASSUME IInv, ParserStep
  PROVE  IInv'
<1>1. /\ stage = "parsing" /\ i <= Len(text)
      /\ stage' = stage /\ UNCHANGED <<columns, result, text>>
  BY DEF ParserStep, DoubledQuote, ToggleQuotes, FieldEnd, RecordEnd, Character, Parsing, writer
<1>2. Width \in Nat \ {0} /\ Width' = Width /\ result \in Seq([1 .. Width -> Values])
  BY <1>1 DEF Width, IInv, Written
<1>3. text = FlattenSeq(Lined(result)) /\ i \in Nat /\ inQuotes \in BOOLEAN
  BY DEF IInv, Written, Parsed
<1>4. Reads(result, Width, i, inQuotes, currentVal, currentRow, rows)
  BY <1>1 DEF IInv, Parsed
<1> DEFINE full == Append(currentRow, currentVal)
<1>5. \/ /\ text[i] = Quote /\ inQuotes /\ i < Len(text) /\ text[i + 1] = Quote
         /\ Reads(result, Width, i + 2, inQuotes, Append(currentVal, Quote), currentRow, rows)
      \/ /\ text[i] = Quote /\ ~(inQuotes /\ i < Len(text) /\ text[i + 1] = Quote)
         /\ Reads(result, Width, i + 1, ~inQuotes, currentVal, currentRow, rows)
      \/ /\ text[i] # Quote /\ (inQuotes \/ text[i] \notin Special)
         /\ Reads(result, Width, i + 1, inQuotes, Append(currentVal, text[i]), currentRow, rows)
      \/ /\ text[i] = Comma /\ ~inQuotes
         /\ Reads(result, Width, i + 1, inQuotes, <<>>, full, rows)
      \/ /\ text[i] = CR /\ ~inQuotes /\ i < Len(text) /\ text[i + 1] = LF
         /\ Reads(result, Width, i + 2, inQuotes, <<>>, <<>>,
                  IF Keep(full) THEN Append(rows, full) ELSE rows)
  <2> DEFINE all == FlattenSeq(Lined(result))
             w == Width
  <2>1. i <= Len(all) /\ text = all /\ w \in Nat \ {0} /\ result \in Seq([1 .. w -> Values])
    BY <1>1, <1>2, <1>3
  <2>2. Reads(result, w, i, inQuotes, currentVal, currentRow, rows)
    BY <1>4
  <2> HIDE DEF w, full
  <2>3. \/ /\ all[i] = Quote /\ inQuotes /\ i < Len(all) /\ all[i + 1] = Quote
           /\ Reads(result, w, i + 2, inQuotes, Append(currentVal, Quote), currentRow, rows)
        \/ /\ all[i] = Quote /\ ~(inQuotes /\ i < Len(all) /\ all[i + 1] = Quote)
           /\ Reads(result, w, i + 1, ~inQuotes, currentVal, currentRow, rows)
        \/ /\ all[i] # Quote /\ (inQuotes \/ all[i] \notin Special)
           /\ Reads(result, w, i + 1, inQuotes, Append(currentVal, all[i]), currentRow, rows)
        \/ /\ all[i] = Comma /\ ~inQuotes
           /\ Reads(result, w, i + 1, inQuotes, <<>>, full, rows)
        \/ /\ all[i] = CR /\ ~inQuotes /\ i < Len(all) /\ all[i + 1] = LF
           /\ Reads(result, w, i + 2, inQuotes, <<>>, <<>>,
                    IF Keep(full) THEN Append(rows, full) ELSE rows)
    BY <1>3, <2>1, <2>2, ReadsStep DEF full
  <2> HIDE DEF all
  <2> QED BY <2>1, <2>3 DEF w
<1>6. Comma \in Special /\ CR \in Special /\ LF \in Special
  BY DEF Special
<1> HIDE DEF full
<1> USE DEF Parsing, char, NextIs
<1>7. /\ Reads(result, Width, i', inQuotes', currentVal', currentRow', rows')
      /\ i' \in Nat /\ inQuotes' \in BOOLEAN
  <2>1. CASE DoubledQuote
    <3>1. /\ text[i] = Quote /\ inQuotes /\ i < Len(text) /\ text[i + 1] = Quote
          /\ currentVal' = Append(currentVal, Quote) /\ i' = i + 2
          /\ UNCHANGED <<inQuotes, currentRow, rows>>
      BY <2>1 DEF DoubledQuote
    <3>2. Reads(result, Width, i + 2, inQuotes, Append(currentVal, Quote), currentRow, rows)
      BY <1>5, <3>1, SpecialIs
    <3>3. /\ inQuotes' = inQuotes /\ currentRow' = currentRow /\ rows' = rows
          /\ i' \in Nat /\ inQuotes' \in BOOLEAN
      BY <1>3, <3>1
    <3>4. Reads(result, Width, i', inQuotes', currentVal', currentRow', rows')
      BY <3>1, <3>2, <3>3, Zenon
    <3> QED BY <3>3, <3>4
  <2>2. CASE ToggleQuotes
    <3>1. /\ text[i] = Quote /\ ~(inQuotes /\ i < Len(text) /\ text[i + 1] = Quote)
          /\ inQuotes' = ~inQuotes /\ i' = i + 1
          /\ UNCHANGED <<currentVal, currentRow, rows>>
      BY <2>2 DEF ToggleQuotes
    <3> QED BY <1>3, <1>5, <3>1, SpecialIs
  <2>3. CASE FieldEnd
    <3>1. /\ text[i] = Comma /\ ~inQuotes /\ currentRow' = full /\ currentVal' = <<>>
          /\ i' = i + 1 /\ UNCHANGED <<inQuotes, rows>>
      BY <2>3 DEF FieldEnd, full
    <3> QED BY <1>3, <1>5, <1>6, <3>1, SpecialIs
  <2>4. CASE RecordEnd
    <3>1. /\ text[i] \in {CR, LF} /\ ~inQuotes
          /\ rows' = IF Keep(full) THEN Append(rows, full) ELSE rows
          /\ currentVal' = <<>> /\ currentRow' = <<>>
          /\ i' = IF text[i] = CR /\ i < Len(text) /\ text[i + 1] = LF THEN i + 2 ELSE i + 1
          /\ UNCHANGED <<inQuotes>>
      BY <2>4 DEF RecordEnd, full
    <3>2. /\ text[i] = CR /\ i < Len(text) /\ text[i + 1] = LF
          /\ Reads(result, Width, i + 2, inQuotes, <<>>, <<>>,
                   IF Keep(full) THEN Append(rows, full) ELSE rows)
      BY <1>5, <1>6, <3>1, SpecialIs
    <3> QED BY <1>3, <3>1, <3>2
  <2>5. CASE Character
    <3>1. /\ text[i] # Quote /\ (inQuotes \/ text[i] \notin Special)
          /\ currentVal' = Append(currentVal, text[i]) /\ i' = i + 1
          /\ UNCHANGED <<inQuotes, currentRow, rows>>
      BY <2>5 DEF Character
    <3> QED BY <1>3, <1>5, <1>6, <3>1, SpecialIs
  <2> QED BY <2>1, <2>2, <2>3, <2>4, <2>5 DEF ParserStep
<1>8. Written'
  <2>1. result' \in Seq([1 .. Width' -> Values])
    BY <1>1, <1>2
  <2>2. text' = FlattenSeq(Lined(result'))
    BY <1>1, <1>3
  <2> QED BY <1>1, <2>1, <2>2 DEF IInv, Written
<1>9. Parsed'
  <2>1. Reads(result', Width', i', inQuotes', currentVal', currentRow', rows')
    BY <1>1, <1>2, <1>7
  <2> QED BY <1>1, <1>7, <2>1 DEF Parsed
<1> QED BY <1>8, <1>9 DEF IInv

\* Every step keeps the invariant.
LEMMA StepIInv == IInv /\ [Next]_vars => IInv'
<1> SUFFICES ASSUME IInv, [Next]_vars PROVE IInv'
  OBVIOUS
<1>0. Width \in Nat \ {0} /\ result \in Seq([1 .. Width -> Values])
  BY DEF Width, IInv, Written
<1>1. CASE Header \/ Row
  <2>1. columns # 0
    BY <1>1 DEF Header, Row, IInv, Written
  <2>2. \E record \in [1 .. columns -> Values] : Emit(record)
    BY <1>1 DEF Header, Row, Names
  <2> QED BY <2>1, <2>2, EmitIInv
<1>2. CASE Receive
  <2>1. /\ stage = "writing" /\ stage' = "parsing" /\ (result # <<>> \/ columns = 0)
        /\ UNCHANGED <<columns, result, text, i, inQuotes, currentVal, currentRow, rows>>
    BY <1>2 DEF Receive, writer, parser
  <2>2. /\ i = 1 /\ inQuotes = FALSE /\ currentVal = <<>> /\ currentRow = <<>> /\ rows = <<>>
    BY <2>1 DEF IInv, Parsed
  <2>3. Width' = Width
    BY <2>1 DEF Width
  <2>4. Reads(result, Width, 1, FALSE, <<>>, <<>>, <<>>)
    <3> HIDE DEF Width
    <3> QED BY <1>0, ReadsFirst
  <2>5. Reads(result', Width', i', inQuotes', currentVal', currentRow', rows')
    BY <2>1, <2>2, <2>3, <2>4
  <2>6. Parsed'
    BY <2>1, <2>2, <2>5 DEF Parsed
  <2>7. Written'
    <3>1. result' \in Seq([1 .. Width' -> Values]) /\ text' = FlattenSeq(Lined(result'))
      BY <1>0, <2>1, <2>3 DEF IInv, Written
    <3> QED BY <2>1, <3>1 DEF IInv, Written
  <2> QED BY <2>6, <2>7 DEF IInv
<1>3. CASE ParserStep
  BY <1>3, ParserIInv
<1>4. CASE TextEnd
  <2>1. /\ stage = "parsing" /\ stage' = "shown" /\ i > Len(text)
        /\ UNCHANGED <<columns, result, text, i, inQuotes, currentVal, currentRow>>
        /\ rows' = IF (currentVal # <<>> \/ currentRow # <<>>)
                        /\ Keep(Append(currentRow, currentVal))
                     THEN Append(rows, Append(currentRow, currentVal)) ELSE rows
    BY <1>4 DEF TextEnd, writer
  <2>2. /\ Reads(result, Width, i, inQuotes, currentVal, currentRow, rows)
        /\ text = FlattenSeq(Lined(result))
    BY <2>1 DEF IInv, Parsed, Written
  <2>3. currentVal = <<>> /\ currentRow = <<>>
    <3>1. i > Len(FlattenSeq(Lined(result)))
      BY <2>1, <2>2
    <3> HIDE DEF Width
    <3> QED BY <1>0, <2>2, <3>1, ReadsEnd
  <2>4. rows' = rows /\ Width' = Width
    BY <2>1, <2>3 DEF Width
  <2>5. Parsed'
    <3>1. Reads(result', Width', i', inQuotes', currentVal', currentRow', rows')
      BY <2>1, <2>2, <2>4
    <3> QED BY <2>1, <3>1 DEF IInv, Parsed
  <2>6. Written'
    <3>1. result' \in Seq([1 .. Width' -> Values]) /\ text' = FlattenSeq(Lined(result'))
      BY <1>0, <2>1, <2>2, <2>4
    <3> QED BY <2>1, <3>1 DEF IInv, Written
  <2> QED BY <2>5, <2>6 DEF IInv
<1>5. CASE UNCHANGED vars
  <2>1. UNCHANGED <<stage, columns, result, text, i, inQuotes, currentVal, currentRow, rows>>
    BY <1>5 DEF vars, writer, parser
  <2>2. Width' = Width
    BY <2>1 DEF Width
  <2> QED BY <2>1, <2>2 DEF IInv, Written, Parsed
<1> QED BY <1>1, <1>2, <1>3, <1>4, <1>5 DEF Next, Terminated, ParserStep

\* The invariant, for the theorems.
LEMMA Invariant == Spec => []IInv
BY InitIInv, StepIInv, PTL DEF Spec

--------------------------------------------------------------------------------
(* What the properties say of the parser.                                  *)

\* The functions of the properties, in terms of the records.
LEMMA PrefixIs ==
  ASSUME NEW n \in Nat \ {0}, NEW records \in Seq([1 .. n -> Values]),
         NEW k \in 0 .. Len(records)
  PROVE  /\ Len(FlattenSeq([m \in 1 .. k |-> WriteRecord(records[m])])) = Ends(records, k)
         /\ NotBlank(SubSeq(records, 1, k)) = Kept(records, k)
<1> DEFINE R == [1 .. n -> Values]
           part == SubSeq(records, 1, k)
<1>1. /\ Len(records) \in Nat /\ \A m \in 1 .. Len(records) : records[m] \in R
      /\ DOMAIN records = 1 .. Len(records)
      /\ \A m \in 1 .. Len(records) : Lined(records)[m] = WriteRecord(records[m])
  BY LinedIs
<1>2. k \in Nat /\ 1 .. k \subseteq 1 .. Len(records)
  BY <1>1
<1>3. [m \in 1 .. k |-> WriteRecord(records[m])] = Upto(Lined(records), k)
  BY <1>1, <1>2 DEF Upto
<1> HIDE DEF R
<1>4. part \in Seq(R) /\ Len(part) = k /\ \A m \in 1 .. k : part[m] = records[m]
  <2>1. /\ part \in Seq(R) /\ Len(part) = IF 1 <= k THEN k - 1 + 1 ELSE 0
        /\ \A m \in 1 .. k - 1 + 1 : part[m] = records[1 + m - 1]
    <3>1. 1 \in Int /\ k \in Int /\ \A m \in 1 .. k : records[m] \in R
      BY <1>1, <1>2
    <3> QED BY <3>1, SubSeqProperties
  <2>2. k - 1 + 1 = k /\ (IF 1 <= k THEN k - 1 + 1 ELSE 0) = k
    BY <1>2
  <2>3. \A m \in 1 .. k : 1 + m - 1 = m
    BY <1>2
  <2> HIDE DEF part
  <2> QED BY <2>1, <2>2, <2>3
<1>5. DOMAIN part = 1 .. k
  BY <1>4, LenProperties
<1> HIDE DEF part
<1> DEFINE Rows(rec) == IF Chars(rec) = << <<>> >> THEN <<>> ELSE <<Chars(rec)>>
<1>6. NotBlank(part) = FlattenSeq([m \in 1 .. k |-> Rows(part[m])])
  BY <1>5 DEF NotBlank
<1>7. Lasting(records) = [m \in 1 .. Len(records) |-> Rows(records[m])]
  BY <1>1 DEF Lasting
<1> HIDE DEF Rows
<1>8. [m \in 1 .. k |-> Rows(part[m])] = Upto(Lasting(records), k)
  BY <1>2, <1>4, <1>7 DEF Upto
<1> QED BY <1>3, <1>6, <1>8 DEF Ends, Kept, Flat, part

\* Records end where the next ones begin.
LEMMA EndsGrow ==
  ASSUME NEW n \in Nat \ {0}, NEW records \in Seq([1 .. n -> Values]),
         NEW k \in 0 .. Len(records), NEW m \in k .. Len(records)
  PROVE  Ends(records, k) \in Nat /\ Ends(records, m) \in Nat
         /\ Ends(records, k) <= Ends(records, m)
<1> DEFINE s == Lined(records)
<1>1. s \in Seq(Seq(Alphabet)) /\ k \in 0 .. Len(s) /\ m \in k .. Len(s)
  BY LinedIs
<1> HIDE DEF s
<1>2. Begins(Flat(s, m), Flat(s, k))
  BY <1>1, FlatBegins
<1> QED BY <1>2 DEF Begins, Ends, s

\* Wherever the parser is, it has one row for every record whose text it has
\* read, and at the end of a record nothing is left over (csv.rs,
\* write_escaped_field; index.html, parseCSV).
THEOREM InStep == Spec => []RecordsInStep
<1>1. IInv => RecordsInStep
  <2> SUFFICES ASSUME IInv, stage # "writing" PROVE RecordsInStep
    BY DEF RecordsInStep
  <2> DEFINE N == Len(result)
             end == [k \in 0 .. Len(result) |->
                       Len(FlattenSeq([m \in 1 .. k |-> WriteRecord(result[m])]))]
             Last1(k) == end[k] < i /\ \A m \in DOMAIN end : end[m] < i => m <= k
             read == CHOOSE k \in DOMAIN end : Last1(k)
  <2>1. /\ Width \in Nat \ {0} /\ result \in Seq([1 .. Width -> Values])
        /\ Reads(result, Width, i, inQuotes, currentVal, currentRow, rows)
        /\ i \in Nat
    BY DEF IInv, Written, Parsed, Width
  <2> HIDE DEF Width
  <2>2. N \in Nat
    BY <2>1, LinedIs
  <2>3. DOMAIN end = 0 .. N /\ \A k \in 0 .. N : end[k] = Ends(result, k)
    BY <2>1, PrefixIs
  <2>4. PICK r \in 0 .. N :
          /\ rows = Kept(result, r)
          /\ \/ /\ r = N /\ i = Ends(result, r) + 1
                /\ ~inQuotes /\ currentVal = <<>> /\ currentRow = <<>>
             \/ /\ r < N
                /\ \E f \in 1 .. Width, j \in Nat :
                     InField(result, r, f, j, i, inQuotes, currentVal, currentRow)
    BY <2>1 DEF Reads
  <2> HIDE DEF end
  <2>5. /\ \A k \in 0 .. N : Ends(result, k) \in Nat
        /\ \A k \in 0 .. N : \A m \in k .. N : Ends(result, k) <= Ends(result, m)
    <3>1. ASSUME NEW k \in 0 .. N PROVE Ends(result, k) \in Nat
      <4>1. k \in k .. N
        BY <2>2
      <4> QED BY <2>1, <4>1, EndsGrow
    <3>2. ASSUME NEW k \in 0 .. N, NEW m \in k .. N
          PROVE  Ends(result, k) <= Ends(result, m)
      BY <2>1, EndsGrow
    <3> QED BY <3>1, <3>2
  <2>6. ASSUME r < N,
               NEW f \in 1 .. Width, NEW j \in Nat,
               InField(result, r, f, j, i, inQuotes, currentVal, currentRow)
        PROVE  /\ Ends(result, r) < i /\ i <= Ends(result, r + 1)
               /\ Ends(result, r) = i - 1 => ~inQuotes /\ currentVal = <<>> /\ currentRow = <<>>
    <3> DEFINE a == Place(result, r, f)
               v == result[r + 1][f]
               l == Len(WriteValue(v))
    <3>1. FieldFits(result, Width, r, f)
      BY <2>1, <2>6, PlaceAt
    <3>2. /\ v \in Values /\ l \in Nat /\ a \in Nat /\ a >= Ends(result, r)
          /\ (a = Ends(result, r) <=> f = 1) /\ a + l + 2 <= Ends(result, r + 1)
          /\ Ends(result, r) \in Nat /\ Ends(result, r + 1) \in Nat
      BY <3>1 DEF FieldFits
    <3>3. /\ i = a + j + 1 /\ j <= l /\ currentRow = Upto(Chars(result[r + 1]), f - 1)
          /\ Scan(v, j, inQuotes, currentVal)
      BY <2>6 DEF InField
    <3> HIDE DEF a, l, v
    <3>4. Ends(result, r) < i /\ i <= Ends(result, r + 1)
      BY <3>2, <3>3
    <3>5. ASSUME Ends(result, r) = i - 1
          PROVE  ~inQuotes /\ currentVal = <<>> /\ currentRow = <<>>
      <4>1. a = Ends(result, r) /\ j = 0
        BY <3>2, <3>3, <3>5
      <4>2. f = 1 /\ f - 1 = 0
        BY <3>2, <4>1
      <4>3. Chars(result[r + 1]) \in Seq(Seq(Alphabet))
        BY <2>1, <2>6, KeptIs
      <4>4. currentRow = <<>>
        BY <3>3, <4>2, <4>3, UptoIs
      <4>5. ~inQuotes /\ currentVal = <<>>
        <5>1. v \in Values /\ Scan(v, 0, inQuotes, currentVal)
          BY <3>2, <3>3, <4>1
        <5>2. \A q, val : Scan(v, 0, q, val) => ~q /\ val = <<>>
          BY <5>1, ScanEnds
        <5> QED BY <5>1, <5>2
      <4> QED BY <4>4, <4>5
    <3> QED BY <3>4, <3>5
  <2>7. /\ Ends(result, r) < i
        /\ r < N => i <= Ends(result, r + 1)
        /\ Ends(result, r) = i - 1 => ~inQuotes /\ currentVal = <<>> /\ currentRow = <<>>
    <3>1. Ends(result, r) \in Nat
      BY <2>5
    <3> QED BY <2>4, <2>6, <3>1
  <2>8. ASSUME NEW m \in 0 .. N, Ends(result, m) < i PROVE m <= r
    <3> SUFFICES ASSUME r < m PROVE FALSE
      BY <2>2
    <3>1. r < N /\ r + 1 \in 0 .. N /\ m \in (r + 1) .. N
      BY <2>2
    <3>2. i <= Ends(result, r + 1) /\ Ends(result, r + 1) <= Ends(result, m)
      BY <2>5, <2>7, <3>1
    <3>3. Ends(result, r + 1) \in Nat /\ Ends(result, m) \in Nat
      BY <2>5, <3>1
    <3> QED BY <2>1, <2>8, <3>2, <3>3
  <2>9. read = r
    <3>1. r \in DOMAIN end /\ Last1(r)
      BY <2>3, <2>7, <2>8
    <3>2. ASSUME NEW k \in DOMAIN end, Last1(k) PROVE k = r
      <4>1. k <= r /\ r <= k
        BY <2>3, <2>7, <2>8, <3>2
      <4> QED BY <2>2, <2>3, <4>1
    <3> HIDE DEF Last1
    <3> QED BY <3>1, <3>2
  <2>10. end[r] = Ends(result, r) /\ NotBlank(SubSeq(result, 1, r)) = Kept(result, r)
    BY <2>1, <2>3, PrefixIs
  <2>11. /\ rows = NotBlank(SubSeq(result, 1, read))
         /\ end[read] = i - 1 => ~inQuotes /\ currentVal = <<>> /\ currentRow = <<>>
    BY <2>4, <2>7, <2>9, <2>10
  <2> QED BY <2>11 DEF RecordsInStep, end
<1> QED BY <1>1, Invariant, PTL

\* Without records of a single empty field every record is a row.
LEMMA AllKept ==
  ASSUME NEW n \in Nat \ {0}, NEW records \in Seq([1 .. n -> Values]),
         \A k \in 1 .. Len(records) : Chars(records[k]) # << <<>> >>
  PROVE  \A r \in 0 .. Len(records) :
           /\ Kept(records, r) \in Seq(Seq(Seq(Alphabet))) /\ Len(Kept(records, r)) = r
           /\ \A k \in 1 .. r : Kept(records, r)[k] = Chars(records[k])
<1> DEFINE N == Len(records)
           S == Seq(Seq(Alphabet))
           All(r) == /\ Kept(records, r) \in Seq(S) /\ Len(Kept(records, r)) = r
                     /\ \A k \in 1 .. r : Kept(records, r)[k] = Chars(records[k])
           T == {r \in Nat : r <= N => All(r)}
<1>1. N \in Nat
  BY LinedIs
<1> HIDE DEF S
<1>2. All(0)
  <2>1. Kept(records, 0) = <<>>
    BY KeptIs
  <2>2. <<>> \in Seq(S) /\ Len(<<>>) = 0
    BY EmptySeq
  <2>3. \A k \in 1 .. 0 : FALSE
    OBVIOUS
  <2>4. Kept(records, 0) \in Seq(S) /\ Len(Kept(records, 0)) = 0
    BY <2>1, <2>2
  <2> QED BY <2>3, <2>4
<1>3. ASSUME NEW r \in Nat, r + 1 <= N, All(r) PROVE All(r + 1)
  <2>1. r \in 0 .. N /\ r < N /\ r + 1 \in 1 .. N
    BY <1>1, <1>3
  <2> DEFINE x == Chars(records[r + 1])
             K == Kept(records, r)
  <2>2. x \in S /\ x # << <<>> >> /\ Kept(records, r + 1) = Append(K, x)
    BY <2>1, KeptIs DEF S
  <2>3. K \in Seq(S) /\ Len(K) = r /\ \A k \in 1 .. r : K[k] = Chars(records[k])
    BY <1>3
  <2> HIDE DEF x, K
  <2>4. /\ Append(K, x) \in Seq(S) /\ Len(Append(K, x)) = r + 1
        /\ \A k \in 1 .. r : Append(K, x)[k] = K[k]
        /\ Append(K, x)[r + 1] = x
    BY <2>2, <2>3, AppendProperties
  <2>5. ASSUME NEW k \in 1 .. r + 1 PROVE Append(K, x)[k] = Chars(records[k])
    <3>1. k \in 1 .. r \/ k = r + 1
      BY <2>1
    <3> QED BY <2>3, <2>4, <3>1 DEF x
  <2> QED BY <2>2, <2>4, <2>5
<1>4. T = Nat
  <2> HIDE DEF All
  <2>1. ASSUME NEW r \in T PROVE r + 1 \in T
    <3>1. CASE r + 1 <= N
      BY <1>1, <1>3, <3>1
    <3>2. CASE ~(r + 1 <= N)
      BY <3>2
    <3> QED BY <3>1, <3>2
  <2>2. 0 \in T /\ T \in SUBSET Nat
    BY <1>2
  <2> HIDE DEF T
  <2> QED BY <2>1, <2>2, Induction
<1> SUFFICES ASSUME NEW r \in 0 .. N PROVE All(r)
  BY DEF S
<1>5. r \in T /\ r <= N
  BY <1>1, <1>4
<1> HIDE DEF All
<1> QED BY <1>5

\* The page shows the names of the columns over the records, if there are two
\* columns or more or no field of the only one is empty (index.html,
\* executeQuery).
THEOREM GridShows == Spec => []GridIsResult
<1>1. IInv => GridIsResult
  <2> SUFFICES ASSUME IInv, stage = "shown", columns > 0,
                      columns > 1 \/ \A k \in DOMAIN result : NotBlank(<<result[k]>>) # <<>>
               PROVE  /\ ShownHeader = Chars(result[1])
                      /\ Grid = [k \in 1 .. Len(result) - 1 |-> Chars(result[k + 1])]
    BY DEF GridIsResult
  <2> DEFINE N == Len(result)
  <2>1. /\ Width = columns /\ Width \in Nat \ {0} /\ result # <<>>
        /\ result \in Seq([1 .. Width -> Values])
        /\ Reads(result, Width, i, inQuotes, currentVal, currentRow, rows)
        /\ i > Len(FlattenSeq(Lined(result)))
    BY DEF IInv, Written, Parsed, Width
  <2> HIDE DEF Width
  <2>2. /\ N \in Nat \ {0} /\ DOMAIN result = 1 .. N
        /\ \A k \in 1 .. N : result[k] \in [1 .. Width -> Values]
    BY <2>1, LinedIs, EmptySeq
  <2>3. rows = Kept(result, N)
    BY <2>1, ReadsEnd
  <2>4. ASSUME NEW k \in 1 .. N
        PROVE  /\ Chars(result[k]) = [c \in 1 .. columns |-> result[k][c].chars]
               /\ Chars(result[k]) # << <<>> >>
    <3>1. Chars(result[k]) = [c \in 1 .. columns |-> result[k][c].chars]
      BY <2>1, <2>2 DEF Chars
    <3>2. CASE columns > 1
      <4>1. 2 \in DOMAIN Chars(result[k])
        BY <2>1, <3>1, <3>2
      <4>2. DOMAIN << <<>> >> = 1 .. 1 /\ 2 \notin 1 .. 1
        OBVIOUS
      <4> QED BY <3>1, <4>1, <4>2
    <3>3. CASE NotBlank(<<result[k]>>) # <<>>
      <4> DEFINE one == <<result[k]>>
      <4>1. one \in Seq([1 .. Width -> Values]) /\ Len(one) = 1 /\ one[1] = result[k]
        BY <2>2
      <4> HIDE DEF one
      <4>2. 0 \in 0 .. Len(one) /\ 0 < Len(one) /\ 0 + 1 = 1
        BY <4>1
      <4>3. /\ Kept(one, 0) = <<>> /\ Kept(one, Len(one)) = NotBlank(one)
            /\ Kept(one, 0 + 1) = IF Chars(one[0 + 1]) = << <<>> >> THEN Kept(one, 0)
                                  ELSE Append(Kept(one, 0), Chars(one[0 + 1]))
        BY <2>1, <4>1, <4>2, KeptIs
      <4>4. NotBlank(one) # <<>>
        BY <3>3 DEF one
      <4> QED BY <3>1, <4>1, <4>2, <4>3, <4>4
    <3> QED BY <2>2, <3>1, <3>2, <3>3
  <2>5. /\ rows \in Seq(Seq(Seq(Alphabet))) /\ Len(rows) = N
        /\ \A k \in 1 .. N : rows[k] = Chars(result[k])
    <3>1. \A k \in 1 .. Len(result) : Chars(result[k]) # << <<>> >>
      BY <2>4
    <3>2. N \in 0 .. N
      BY <2>2
    <3> QED BY <2>1, <2>3, <3>1, <3>2, AllKept
  <2>6. rows # <<>>
    BY <2>2, <2>5, EmptySeq
  <2>7. ShownHeader = Chars(result[1]) /\ DOMAIN ShownHeader = 1 .. columns
    <3>1. 1 \in 1 .. N
      BY <2>2
    <3> QED BY <2>4, <2>5, <2>6, <3>1 DEF ShownHeader
  <2>8. ASSUME NEW k \in 1 .. N - 1
        PROVE  [c \in 1 .. columns |->
                 IF c \in DOMAIN rows[k + 1] THEN rows[k + 1][c] ELSE <<>>]
                 = Chars(result[k + 1])
    <3>1. k + 1 \in 1 .. N
      BY <2>2
    <3>2. /\ rows[k + 1] = [c \in 1 .. columns |-> result[k + 1][c].chars]
          /\ Chars(result[k + 1]) = rows[k + 1]
      BY <2>4, <2>5, <3>1
    <3>3. DOMAIN rows[k + 1] = 1 .. columns
      BY <3>2
    <3> QED BY <3>2, <3>3
  <2>9. Grid = [k \in 1 .. N - 1 |-> Chars(result[k + 1])]
    <3>1. Grid = [k \in 1 .. N - 1 |->
                   [c \in 1 .. columns |->
                     IF c \in DOMAIN rows[k + 1] THEN rows[k + 1][c] ELSE <<>>]]
      BY <2>5, <2>7 DEF Grid
    <3> QED BY <2>8, <3>1
  <2> QED BY <2>7, <2>9
<1> QED BY <1>1, Invariant, PTL

--------------------------------------------------------------------------------
(* The lines of a text.                                                    *)

\* f has the lines of the prefixes of s.
Opens(f, s) ==
  f = [k \in 0 .. Len(s) |-> IF k = 0 THEN << <<>> >> ELSE Extended(f[k - 1], s[k])]

\* The lines of a prefix extend those of the one before it.
LEMMA OpensAt ==
  ASSUME NEW s, Len(s) \in Nat, NEW f, Opens(f, s)
  PROVE  /\ f[0] = << <<>> >>
         /\ \A k \in 0 .. Len(s) : k < Len(s) => f[k + 1] = Extended(f[k], s[k + 1])
<1> DEFINE Body(h, k) == IF k = 0 THEN << <<>> >> ELSE Extended(h[k - 1], s[k])
<1>1. f = [k \in 0 .. Len(s) |-> Body(f, k)]
  BY DEF Opens
<1> HIDE DEF Body
<1>2. \A k \in 0 .. Len(s) : f[k] = Body(f, k)
  BY <1>1
<1>3. f[0] = << <<>> >>
  BY <1>2 DEF Body
<1>4. ASSUME NEW k \in 0 .. Len(s), k < Len(s) PROVE f[k + 1] = Extended(f[k], s[k + 1])
  <2>1. k + 1 \in 0 .. Len(s) /\ k + 1 # 0 /\ (k + 1) - 1 = k
    BY <1>4
  <2> QED BY <1>2, <2>1 DEF Body
<1> QED BY <1>3, <1>4

\* Every text has the lines of its prefixes.
LEMMA OpensExists ==
  ASSUME NEW s, Len(s) \in Nat
  PROVE  \E f : Opens(f, s)
<1> DEFINE Body(h, k) == IF k = 0 THEN << <<>> >> ELSE Extended(h[k - 1], s[k])
           Through(n, f) == f = [k \in 0 .. n |-> Body(f, k)]
           T == {n \in Nat : \E f : Through(n, f)}
<1>1. 0 \in T
  <2>1. Through(0, [k \in 0 .. 0 |-> << <<>> >>])
    OBVIOUS
  <2> HIDE DEF Through
  <2> QED BY <2>1
<1>2. ASSUME NEW n \in T PROVE n + 1 \in T
  <2>1. PICK f : Through(n, f)
    <3> HIDE DEF Through
    <3> QED OBVIOUS
  <2> DEFINE last == Extended(f[n], s[n + 1])
             g == [k \in 0 .. n + 1 |-> IF k <= n THEN f[k] ELSE last]
  <2>2. ASSUME NEW k \in 0 .. n + 1 PROVE g[k] = Body(g, k)
    <3>1. CASE k <= n
      <4>1. k \in 0 .. n /\ (k # 0 => k - 1 \in 0 .. n)
        BY <3>1
      <4>2. g[k] = f[k] /\ (k # 0 => g[k - 1] = f[k - 1])
        BY <4>1
      <4>3. f[k] = Body(f, k)
        <5> HIDE DEF Body
        <5> QED BY <2>1, <4>1
      <4> HIDE DEF g
      <4> QED BY <4>2, <4>3
    <3>2. CASE ~(k <= n)
      <4>1. k = n + 1 /\ k # 0 /\ k - 1 = n /\ n \in 0 .. n + 1 /\ n <= n
        BY <3>2
      <4>2. g[k] = last /\ g[n] = f[n]
        BY <3>2, <4>1
      <4> HIDE DEF g
      <4> QED BY <4>1, <4>2
    <3> QED BY <3>1, <3>2
  <2> HIDE DEF last
  <2>3. g = [k \in 0 .. n + 1 |-> g[k]]
    OBVIOUS
  <2> HIDE DEF g, Body
  <2>4. Through(n + 1, g)
    BY <2>2, <2>3
  <2> HIDE DEF Through
  <2> QED BY <2>4
<1>3. T = Nat
  <2>1. T \in SUBSET Nat
    OBVIOUS
  <2> HIDE DEF T
  <2> QED BY <1>1, <1>2, <2>1, Induction
<1>4. PICK f : Through(Len(s), f)
  <2> HIDE DEF Through
  <2> QED BY <1>3
<1> QED BY <1>4 DEF Opens

\* Lines chooses the lines of the prefixes and takes the last.
LEMMA LinesChooses ==
  ASSUME NEW s, Len(s) \in Nat
  PROVE  \E f : Lines(s) = f[Len(s)] /\ Opens(f, s)
<1>1. PICK g : Opens(g, s)
  BY OpensExists
<1>2. g = [k \in 0 .. Len(s) |-> IF k = 0 THEN << <<>> >> ELSE Extended(g[k - 1], s[k])]
  BY <1>1 DEF Opens
<1>3. \E f : /\ Lines(s) = f[Len(s)]
             /\ f = [k \in 0 .. Len(s) |->
                        IF k = 0 THEN << <<>> >> ELSE Extended(f[k - 1], s[k])]
  BY <1>2 DEF Lines
<1> QED BY <1>3 DEF Opens

\* What one character does to lines.
LEMMA ExtendedIs ==
  ASSUME NEW S, NEW lines \in Seq(Seq(S)), lines # <<>>, NEW c \in S
  PROVE  LET more == Extended(lines, c)
             n == Len(lines)
         IN  /\ more \in Seq(Seq(S)) /\ n \in Nat \ {0} /\ lines[n] \in Seq(S)
             /\ \A m \in 1 .. n : m # n => more[m] = lines[m]
             /\ c = LF => Len(more) = n + 1 /\ more[n] = lines[n] /\ more[n + 1] = <<>>
             /\ c # LF => Len(more) = n /\ more[n] = Append(lines[n], c)
<1> DEFINE n == Len(lines)
           front == Front(lines)
           x == Append(lines[n], c)
<1>1. n \in Nat \ {0}
  BY LenProperties, EmptySeq
<1>2. lines[n] \in Seq(S) /\ <<>> \in Seq(S)
  BY <1>1, ElementOfSeq, EmptySeq
<1>3. CASE c = LF
  <2>1. Extended(lines, c) = Append(lines, <<>>)
    BY <1>3 DEF Extended
  <2>2. /\ Append(lines, <<>>) \in Seq(Seq(S)) /\ Len(Append(lines, <<>>)) = n + 1
        /\ \A m \in 1 .. n : Append(lines, <<>>)[m] = lines[m]
        /\ Append(lines, <<>>)[n + 1] = <<>>
    BY <1>2, AppendProperties
  <2>3. n \in 1 .. n
    BY <1>1
  <2> QED BY <1>1, <1>2, <1>3, <2>1, <2>2, <2>3
<1>4. CASE c # LF
  <2>1. front = SubSeq(lines, 1, n - 1)
    BY DEF Front
  <2>2. /\ front \in Seq(Seq(S)) /\ Len(front) = n - 1
        /\ \A m \in 1 .. n - 1 : front[m] = lines[m]
    <3>1. \A m \in 1 .. n - 1 : lines[m] \in Seq(S)
      BY <1>1, ElementOfSeq
    <3>2. 1 \in Int /\ n - 1 \in Int
      BY <1>1
    <3>3. /\ SubSeq(lines, 1, n - 1) \in Seq(Seq(S))
          /\ Len(SubSeq(lines, 1, n - 1)) = IF 1 <= n - 1 THEN (n - 1) - 1 + 1 ELSE 0
          /\ \A m \in 1 .. (n - 1) - 1 + 1 : SubSeq(lines, 1, n - 1)[m] = lines[1 + m - 1]
      BY <3>1, <3>2, SubSeqProperties
    <3>4. /\ \A a \in Nat \ {0} : /\ (IF 1 <= a - 1 THEN (a - 1) - 1 + 1 ELSE 0) = a - 1
                                 /\ (a - 1) - 1 + 1 = a - 1
          /\ \A m \in Nat : 1 + m - 1 = m
      OBVIOUS
    <3> HIDE DEF front, n
    <3>5. Len(front) = n - 1 /\ \A m \in 1 .. n - 1 : front[m] = lines[1 + m - 1] /\ m \in Nat
      BY <1>1, <2>1, <3>3, <3>4
    <3> QED BY <2>1, <3>3, <3>4, <3>5
  <2> HIDE DEF front
  <2>3. x \in Seq(S)
    BY <1>2, AppendProperties
  <2> HIDE DEF x
  <2>4. Extended(lines, c) = Append(front, x)
    BY <1>4 DEF Extended, Last, front, x
  <2>5. /\ Append(front, x) \in Seq(Seq(S)) /\ Len(Append(front, x)) = Len(front) + 1
        /\ \A m \in 1 .. Len(front) : Append(front, x)[m] = front[m]
        /\ Append(front, x)[Len(front) + 1] = x
    BY <2>2, <2>3, AppendProperties
  <2>6. Len(front) + 1 = n /\ \A m \in 1 .. n : m # n => m \in 1 .. Len(front)
    BY <1>1, <2>2
  <2>7. /\ Len(Append(front, x)) = n /\ Append(front, x)[n] = x
        /\ \A m \in 1 .. n : m # n => Append(front, x)[m] = lines[m]
    <3> HIDE DEF n
    <3>1. \A m \in 1 .. Len(front) : front[m] = lines[m]
      BY <2>2
    <3> QED BY <2>5, <2>6, <3>1
  <2> QED BY <1>1, <1>2, <1>4, <2>4, <2>5, <2>7 DEF x
<1> QED BY <1>3, <1>4

\* What one character does to lines of which the last is known.
LEMMA ExtendedLast ==
  ASSUME NEW S, NEW done \in Seq(Seq(S)), NEW cur \in Seq(S), NEW c \in S
  PROVE  /\ c = LF => Extended(Append(done, cur), c) = Append(Append(done, cur), <<>>)
         /\ c # LF => Extended(Append(done, cur), c) = Append(done, Append(cur, c))
<1> DEFINE lines == Append(done, cur)
           n == Len(done)
<1>1. /\ lines \in Seq(Seq(S)) /\ Len(lines) = n + 1 /\ n \in Nat
      /\ \A m \in 1 .. n : lines[m] = done[m]
      /\ lines[n + 1] = cur /\ lines # <<>>
  BY AppendProperties, LenProperties, EmptySeq
<1>2. c = LF => Extended(lines, c) = Append(lines, <<>>)
  BY DEF Extended
<1> HIDE DEF lines
<1>3. ASSUME c # LF PROVE Extended(lines, c) = Append(done, Append(cur, c))
  <2> DEFINE x == Append(cur, c)
             more == Extended(lines, c)
  <2>1. x \in Seq(S)
    BY AppendProperties
  <2>2. /\ more \in Seq(Seq(S)) /\ Len(more) = n + 1
        /\ \A m \in 1 .. n + 1 : m # n + 1 => more[m] = lines[m]
        /\ more[n + 1] = x
    <3>1. lines \in Seq(Seq(S)) /\ lines # <<>>
      BY <1>1
    <3> DEFINE N == Len(lines)
    <3>2. /\ more \in Seq(Seq(S)) /\ N \in Nat \ {0} /\ lines[N] \in Seq(S)
          /\ \A m \in 1 .. N : m # N => more[m] = lines[m]
          /\ c = LF => Len(more) = N + 1 /\ more[N] = lines[N] /\ more[N + 1] = <<>>
          /\ c # LF => Len(more) = N /\ more[N] = Append(lines[N], c)
      BY <3>1, ExtendedIs
    <3> HIDE DEF more, n
    <3> QED BY <1>1, <1>3, <3>2
  <2> HIDE DEF x, more
  <2>3. /\ Append(done, x) \in Seq(Seq(S)) /\ Len(Append(done, x)) = n + 1
        /\ \A m \in 1 .. n : Append(done, x)[m] = done[m]
        /\ Append(done, x)[n + 1] = x
    BY <2>1, AppendProperties
  <2>4. ASSUME NEW m \in 1 .. n + 1 PROVE more[m] = Append(done, x)[m]
    <3>1. m = n + 1 \/ (m \in 1 .. n /\ m # n + 1)
      BY <1>1
    <3> QED BY <1>1, <2>2, <2>3, <3>1
  <2>5. more = Append(done, x)
    <3> DEFINE y == Append(done, x)
    <3> HIDE DEF y
    <3>1. more \in Seq(Seq(S)) /\ y \in Seq(Seq(S)) /\ Len(more) = Len(y)
      BY <2>2, <2>3 DEF y
    <3>2. \A m \in 1 .. Len(more) : more[m] = y[m]
      BY <2>2, <2>4 DEF y
    <3> QED BY <3>1, <3>2, SeqEqual DEF y
  <2> QED BY <2>5 DEF x, more
<1> QED BY <1>2, <1>3 DEF lines

\* After a of its characters, with the lines done and an empty one, s goes on with
\* w, which has no line feed.
RunsOn(S, s, f, a, done, w) ==
  /\ s \in Seq(S) /\ Opens(f, s) /\ a \in Nat
  /\ done \in Seq(Seq(S)) /\ f[a] = Append(done, <<>>)
  /\ w \in Seq(S) /\ a + Len(w) <= Len(s)
  /\ \A k \in 1 .. Len(w) : s[a + k] = w[k] /\ w[k] # LF

\* Characters that are no line feeds go to the line that is open.
LEMMA RunIs ==
  ASSUME NEW S, NEW s, NEW f, NEW a, NEW done, NEW w, RunsOn(S, s, f, a, done, w)
  PROVE  \A x \in 0 .. Len(w) : f[a + x] = Append(done, Upto(w, x))
<1> DEFINE n == Len(w)
           N == Len(s)
           T == {x \in Nat : x <= n => f[a + x] = Append(done, Upto(w, x))}
<1>1. /\ n \in Nat /\ N \in Nat /\ a \in Nat /\ a + n <= N
      /\ s \in Seq(S) /\ w \in Seq(S) /\ done \in Seq(Seq(S)) /\ Opens(f, s)
      /\ f[a] = Append(done, <<>>)
  BY LenProperties DEF RunsOn
<1>2. /\ Upto(w, 0) = <<>>
      /\ \A x \in 0 .. n : Upto(w, x) \in Seq(S)
      /\ \A x \in 0 .. n :
           x < n => w[x + 1] \in S /\ Upto(w, x + 1) = Append(Upto(w, x), w[x + 1])
  BY <1>1, UptoIs
<1>3. \A k \in 0 .. N : k < N => f[k + 1] = Extended(f[k], s[k + 1])
  BY <1>1, OpensAt
<1> HIDE DEF n, N
<1>4. 0 \in T
  BY <1>1, <1>2
<1>5. ASSUME NEW x \in T PROVE x + 1 \in T
  <2> SUFFICES ASSUME x + 1 <= n PROVE f[a + (x + 1)] = Append(done, Upto(w, x + 1))
    OBVIOUS
  <2>1. /\ x \in 0 .. n /\ x < n /\ x + 1 \in 1 .. n
        /\ a + x \in 0 .. N /\ a + x < N /\ (a + x) + 1 = a + (x + 1)
    BY <1>1
  <2>2. f[a + x] = Append(done, Upto(w, x))
    BY <2>1
  <2>3. f[a + (x + 1)] = Extended(f[a + x], s[a + (x + 1)])
    BY <1>3, <2>1
  <2>4. s[a + (x + 1)] = w[x + 1] /\ w[x + 1] # LF
    BY <2>1 DEF n, RunsOn
  <2>5. Extended(Append(done, Upto(w, x)), w[x + 1])
          = Append(done, Append(Upto(w, x), w[x + 1]))
    <3> DEFINE cur == Upto(w, x)
               c == w[x + 1]
    <3>1. cur \in Seq(S) /\ c \in S /\ c # LF /\ done \in Seq(Seq(S))
      BY <1>1, <1>2, <2>1, <2>4
    <3> HIDE DEF cur, c, T
    <3>2. Extended(Append(done, cur), c) = Append(done, Append(cur, c))
      BY <3>1, ExtendedLast
    <3> QED BY <3>2 DEF cur, c
  <2>6. Upto(w, x + 1) = Append(Upto(w, x), w[x + 1])
    BY <1>2, <2>1
  <2>7. f[a + (x + 1)] = Append(done, Append(Upto(w, x), w[x + 1]))
    BY <2>2, <2>3, <2>4, <2>5
  <2> QED BY <2>6, <2>7
<1>6. T = Nat
  <2>1. T \in SUBSET Nat
    OBVIOUS
  <2> HIDE DEF T
  <2> QED BY <1>4, <1>5, <2>1, Induction
<1>7. ASSUME NEW x \in 0 .. n PROVE f[a + x] = Append(done, Upto(w, x))
  <2>1. x \in Nat /\ x <= n
    BY <1>1
  <2>2. x \in T
    <3> HIDE DEF T
    <3> QED BY <1>6, <2>1
  <2> QED BY <2>1, <2>2
<1> QED BY <1>7 DEF n

\* lines has the finished lines done, and after them one that begins with cur.
Grown(S, lines, done, cur) ==
  /\ lines \in Seq(Seq(S)) /\ Len(lines) \in Nat /\ Len(lines) > Len(done)
  /\ \A m \in 1 .. Len(done) : lines[m] = done[m]
  /\ Begins(lines[Len(done) + 1], cur)

\* A line that is finished stays as it is, and one that is open only grows.
LEMMA GrownExtended ==
  ASSUME NEW S, NEW lines, NEW done \in Seq(Seq(S)), NEW cur \in Seq(S), NEW c \in S,
         Grown(S, lines, done, cur)
  PROVE  Grown(S, Extended(lines, c), done, cur)
<1> DEFINE more == Extended(lines, c)
           n == Len(lines)
           d == Len(done)
<1>1. /\ lines \in Seq(Seq(S)) /\ n \in Nat /\ d \in Nat /\ n > d
      /\ \A m \in 1 .. d : lines[m] = done[m]
      /\ Begins(lines[d + 1], cur)
  BY LenProperties DEF Grown
<1>2. lines # <<>>
  BY <1>1, EmptySeq
<1>3. /\ more \in Seq(Seq(S)) /\ n \in Nat \ {0} /\ lines[n] \in Seq(S)
      /\ \A m \in 1 .. n : m # n => more[m] = lines[m]
      /\ c = LF => Len(more) = n + 1 /\ more[n] = lines[n] /\ more[n + 1] = <<>>
      /\ c # LF => Len(more) = n /\ more[n] = Append(lines[n], c)
  BY <1>1, <1>2, ExtendedIs
<1> HIDE DEF more, n, d
<1>4. Len(more) \in Nat /\ Len(more) > d
  <2>1. Len(more) = n + 1 \/ Len(more) = n
    BY <1>3
  <2> QED BY <1>1, <2>1
<1>5. ASSUME NEW m \in 1 .. d PROVE more[m] = done[m]
  <2>1. m \in 1 .. n /\ m # n
    BY <1>1
  <2> QED BY <1>1, <1>3, <2>1
<1>6. Begins(more[d + 1], cur)
  <2>1. CASE d + 1 # n
    <3>1. d + 1 \in 1 .. n
      BY <1>1
    <3> QED BY <1>1, <1>3, <2>1, <3>1
  <2>2. CASE d + 1 = n /\ c = LF
    BY <1>1, <1>3, <2>2
  <2>3. CASE d + 1 = n /\ c # LF
    <3> DEFINE old == lines[n]
               new == Append(old, c)
    <3>1. old \in Seq(S) /\ more[d + 1] = new /\ Begins(old, cur)
      BY <1>1, <1>3, <2>3
    <3>2. /\ Len(old) \in Nat /\ Len(new) = Len(old) + 1
          /\ \A k \in 1 .. Len(old) : new[k] = old[k]
      BY <3>1, AppendProperties, LenProperties
    <3> HIDE DEF old, new
    <3> QED BY <3>1, <3>2 DEF Begins
  <2> QED BY <2>1, <2>2, <2>3
<1> QED BY <1>3, <1>4, <1>5, <1>6 DEF Grown, more, d

\* The lines of a prefix are those of the text, but that the last one may grow.
LEMMA GrowIs ==
  ASSUME NEW S, NEW s \in Seq(S), NEW f, Opens(f, s), NEW a \in 0 .. Len(s),
         NEW done \in Seq(Seq(S)), NEW cur \in Seq(S), f[a] = Append(done, cur)
  PROVE  Grown(S, f[Len(s)], done, cur)
<1> DEFINE N == Len(s)
           T == {x \in Nat : a + x <= N => Grown(S, f[a + x], done, cur)}
<1>1. N \in Nat /\ a \in Nat
  BY LenProperties
<1>2. \A k \in 0 .. N : k < N => f[k + 1] = Extended(f[k], s[k + 1])
  BY <1>1, OpensAt
<1>3. \A k \in 0 .. N : k < N => s[k + 1] \in S
  BY ElementOfSeq
<1> HIDE DEF N
<1>4. 0 \in T
  <2> DEFINE new == Append(done, cur)
  <2>1. /\ new \in Seq(Seq(S)) /\ Len(new) = Len(done) + 1 /\ Len(done) \in Nat
        /\ \A m \in 1 .. Len(done) : new[m] = done[m]
        /\ new[Len(done) + 1] = cur /\ Len(cur) \in Nat
    BY AppendProperties, LenProperties
  <2> HIDE DEF new
  <2>2. Begins(cur, cur)
    BY <2>1 DEF Begins
  <2>3. Grown(S, new, done, cur)
    BY <2>1, <2>2 DEF Grown
  <2>4. a + 0 = a
    BY <1>1
  <2> QED BY <2>3, <2>4 DEF new
<1>5. ASSUME NEW x \in T PROVE x + 1 \in T
  <2> SUFFICES ASSUME a + (x + 1) <= N PROVE Grown(S, f[a + (x + 1)], done, cur)
    OBVIOUS
  <2>1. a + x \in 0 .. N /\ a + x < N /\ (a + x) + 1 = a + (x + 1)
    BY <1>1
  <2>2. Grown(S, f[a + x], done, cur)
    BY <2>1
  <2>3. f[a + (x + 1)] = Extended(f[a + x], s[a + (x + 1)]) /\ s[a + (x + 1)] \in S
    BY <1>2, <1>3, <2>1
  <2> QED BY <2>2, <2>3, GrownExtended
<1>6. T = Nat
  <2>1. T \in SUBSET Nat
    OBVIOUS
  <2> HIDE DEF T
  <2> QED BY <1>4, <1>5, <2>1, Induction
<1>7. N - a \in T /\ a + (N - a) = N
  <2>1. N - a \in Nat /\ a + (N - a) = N
    BY <1>1 DEF N
  <2> HIDE DEF T
  <2> QED BY <1>6, <2>1
<1> QED BY <1>1, <1>7 DEF N

--------------------------------------------------------------------------------
(* Trimmed lines, and those that are not empty.                            *)

\* A set of numbers has a least one.
LEMMA LeastIs ==
  ASSUME NEW T \in SUBSET Nat, T # {}
  PROVE  \E x \in T : \A y \in T : x <= y
<1>1. PICK x \in T : \A y \in T : ~(<<y, x>> \in OpToRel(<, Nat))
  BY NatLessThanWellFounded, WFMin
<1>2. \A y, z \in Nat : y < z => <<y, z>> \in OpToRel(<, Nat)
  BY DEF OpToRel
<1>3. \A y \in T : ~(y < x)
  BY <1>1, <1>2
<1> QED BY <1>3

\* A set of numbers with a bound has a greatest one.
LEMMA GreatestIs ==
  ASSUME NEW N \in Nat, NEW T \in SUBSET (1 .. N), T # {}
  PROVE  \E x \in T : \A y \in T : x >= y
<1> DEFINE D == {d \in Nat : \E x \in T : d = N - x}
<1>1. D \in SUBSET Nat /\ D # {}
  <2>1. PICK x \in T : TRUE
    OBVIOUS
  <2>2. N - x \in Nat
    OBVIOUS
  <2> QED BY <2>2
<1>2. \A x \in T : N - x \in D
  OBVIOUS
<1>3. PICK d \in D : \A e \in D : d <= e
  <2> HIDE DEF D
  <2> QED BY <1>1, LeastIs
<1>4. PICK x \in T : d = N - x
  BY <1>3
<1>5. \A y \in T : N - x <= N - y
  BY <1>2, <1>3, <1>4
<1> QED BY <1>5

\* The quote is no white space.
LEMMA QuoteIsSolid == Quote \notin White
BY SpecialIs, FormatAssumption DEF White, Special

\* A text that neither begins nor ends with white space, and is not empty.
Solid(s) == s # <<>> /\ s[1] \notin White /\ s[Len(s)] \notin White

\* Trimmed, a text goes from the first to the last character that is not white
\* space.
LEMMA TrimIs ==
  ASSUME NEW S, NEW s \in Seq(S)
  PROVE  /\ Trim(s) \in Seq(S)
         /\ Trim(s) # <<>> => Solid(Trim(s))
         /\ s # <<>> /\ s[1] \notin White =>
              \E z \in 1 .. Len(s) :
                /\ Len(Trim(s)) = z /\ \A k \in 1 .. z : Trim(s)[k] = s[k]
                /\ s[z] \notin White
                /\ \A k \in 1 .. Len(s) : s[k] \notin White => k <= z
<1> DEFINE solid == {k \in DOMAIN s : s[k] \notin White}
           N == Len(s)
           a == CHOOSE k \in solid : \A m \in solid : k <= m
           z == CHOOSE k \in solid : \A m \in solid : k >= m
<1>1. N \in Nat /\ DOMAIN s = 1 .. N /\ (\A k \in 1 .. N : s[k] \in S) /\ <<>> \in Seq(S)
  BY LenProperties, ElementOfSeq, EmptySeq
<1>2. solid \in SUBSET (1 .. N) /\ solid \in SUBSET Nat
  BY <1>1
<1>3. Trim(s) = IF solid = {} THEN <<>> ELSE SubSeq(s, a, z)
  BY DEF Trim
<1>4. ASSUME solid # {} PROVE /\ a \in solid /\ \A m \in solid : a <= m
                              /\ z \in solid /\ \A m \in solid : z >= m
  <2> HIDE DEF solid
  <2>1. \E k \in solid : \A m \in solid : k <= m
    BY <1>2, <1>4, LeastIs
  <2>2. \E k \in solid : \A m \in solid : k >= m
    BY <1>1, <1>2, <1>4, GreatestIs
  <2> QED BY <2>1, <2>2
<1> HIDE DEF a, z
<1>5. ASSUME solid # {}
      PROVE  /\ Trim(s) \in Seq(S) /\ Len(Trim(s)) = z - a + 1
             /\ \A k \in 1 .. z - a + 1 : Trim(s)[k] = s[a + k - 1]
  <2>1. a \in 1 .. N /\ z \in 1 .. N /\ a <= z
    BY <1>1, <1>4, <1>5
  <2>2. a \in Int /\ z \in Int /\ \A k \in a .. z : s[k] \in S
    BY <1>1, <2>1
  <2> HIDE DEF solid
  <2>3. Trim(s) = SubSeq(s, a, z)
    BY <1>3, <1>5
  <2> QED BY <2>1, <2>2, <2>3, SubSeqProperties
<1>6. Trim(s) \in Seq(S)
  <2> HIDE DEF solid
  <2> QED BY <1>1, <1>3, <1>5
<1>a. ASSUME Trim(s) # <<>> PROVE Solid(Trim(s))
  <2>1. solid # {}
    BY <1>3, <1>a
  <2>2. a \in 1 .. N /\ z \in 1 .. N /\ a <= z /\ s[a] \notin White /\ s[z] \notin White
    BY <1>1, <1>4, <2>1
  <2>3. 1 \in 1 .. z - a + 1 /\ z - a + 1 \in 1 .. z - a + 1
        /\ a + 1 - 1 = a /\ a + (z - a + 1) - 1 = z
    BY <2>2
  <2> HIDE DEF solid
  <2>4. /\ Len(Trim(s)) = z - a + 1
        /\ \A k \in 1 .. z - a + 1 : Trim(s)[k] = s[a + k - 1]
    BY <1>5, <2>1
  <2>5. Trim(s)[1] = s[a] /\ Trim(s)[Len(Trim(s))] = s[z]
    BY <2>3, <2>4
  <2> QED BY <1>a, <2>2, <2>5 DEF Solid
<1>7. ASSUME s # <<>>, s[1] \notin White
      PROVE  /\ z \in 1 .. N /\ s[z] \notin White
             /\ Len(Trim(s)) = z /\ \A k \in 1 .. z : Trim(s)[k] = s[k]
             /\ \A k \in 1 .. N : s[k] \notin White => k <= z
  <2>1. 1 \in solid
    <3>1. N # 0
      BY <1>7, EmptySeq
    <3> QED BY <1>1, <1>7, <3>1
  <2>2. a = 1 /\ z \in 1 .. N /\ s[z] \notin White
    BY <1>1, <1>4, <2>1
  <2>3. \A k \in 1 .. N : s[k] \notin White => k <= z
    BY <1>1, <1>2, <1>4, <2>1, <2>2
  <2>4. Len(Trim(s)) = z /\ \A k \in 1 .. z : Trim(s)[k] = s[k]
    <3>1. /\ Len(Trim(s)) = z - 1 + 1
          /\ \A k \in 1 .. z - 1 + 1 : Trim(s)[k] = s[1 + k - 1]
      BY <1>5, <2>1, <2>2
    <3>2. z - 1 + 1 = z /\ \A k \in 1 .. z : 1 + k - 1 = k
      BY <2>2
    <3> QED BY <3>1, <3>2
  <2> QED BY <2>2, <2>3, <2>4
<1> QED BY <1>6, <1>a, <1>7

\* A name that can be listed has no white space at its ends.
LEMMA ListableIs ==
  ASSUME NEW v \in Seq(Others)
  PROVE  Listable(v) <=> Solid(v)
<1>1. CASE v = <<>>
  BY <1>1 DEF Listable, Solid
<1>2. CASE v # <<>>
  <2>1. Len(v) \in Nat \ {0} /\ \A k \in 1 .. Len(v) : v[k] \in Others
    BY <1>2, LenProperties, EmptySeq, ElementOfSeq
  <2>2. v[1] \in Others /\ v[Len(v)] \in Others
    BY <2>1
  <2>3. v[1] \notin {CR, LF} /\ v[Len(v)] \notin {CR, LF}
    BY <2>2, SpecialIs DEF Special
  <2>4. Head(v) = v[1] /\ Last(v) = v[Len(v)]
    BY DEF Last
  <2> QED BY <1>2, <2>3, <2>4 DEF Listable, Solid, White
<1> QED BY <1>1, <1>2

\* A line is trimmed to the plain text it begins with, if only carriage returns
\* follow.
LEMMA TrimPlain ==
  ASSUME NEW s \in Seq(Alphabet), NEW v \in Seq(Others), Listable(v), Begins(s, v),
         \A k \in 1 .. Len(s) : k > Len(v) => s[k] = CR
  PROVE  Trim(s) = v
<1> DEFINE n == Len(v)
           N == Len(s)
           t == Trim(s)
<1>1. /\ n \in Nat /\ N \in Nat /\ n # 0 /\ n <= N
      /\ \A k \in 1 .. n : s[k] = v[k] /\ v[k] \in Others
  BY LenProperties, EmptySeq, ElementOfSeq DEF Begins, Listable
<1>2. v[1] \notin White /\ v[n] \notin White
  BY ListableIs DEF Solid
<1>3. s # <<>> /\ s[1] \notin White /\ s[n] \notin White
  <2>1. 1 \in 1 .. n /\ n \in 1 .. n
    BY <1>1
  <2> QED BY <1>1, <1>2, <2>1, EmptySeq
<1>4. PICK z \in 1 .. N : /\ Len(t) = z /\ \A k \in 1 .. z : t[k] = s[k]
                          /\ s[z] \notin White
                          /\ \A k \in 1 .. N : s[k] \notin White => k <= z
  BY <1>3, TrimIs
<1>5. t \in Seq(Alphabet)
  BY TrimIs
<1>6. z = n
  <2>1. n <= z
    BY <1>1, <1>3, <1>4
  <2>2. ~(z > n)
    BY <1>4 DEF White
  <2> QED BY <1>1, <2>1, <2>2
<1>7. v \in Seq(Alphabet)
  <2>1. \A k \in 1 .. n : v[k] \in Alphabet
    BY <1>1 DEF Alphabet
  <2>2. v = [k \in 1 .. n |-> v[k]]
    BY LenProperties
  <2> HIDE DEF n
  <2> QED BY <1>1, <2>1, <2>2
<1> HIDE DEF t
<1>8. Len(t) = Len(v) /\ \A k \in 1 .. Len(t) : t[k] = v[k]
  BY <1>1, <1>4, <1>6
<1> QED BY <1>5, <1>7, <1>8, SeqEqual DEF t

\* One line for each that is not empty, none for the others.
Fillings(lines) ==
  [k \in DOMAIN lines |-> IF lines[k] = <<>> THEN <<>> ELSE <<lines[k]>>]

\* What is left of a sequence of lines: only lines that are not empty, and the
\* first k as they are if none of them is empty.
FilledTo(filled, lines, k) ==
  /\ \A p \in 1 .. Len(filled) :
       filled[p] # <<>> /\ \E m \in 1 .. Len(lines) : filled[p] = lines[m]
  /\ (\A m \in 1 .. k : lines[m] # <<>>) =>
       Len(filled) = k /\ \A m \in 1 .. k : filled[m] = lines[m]

\* One more line.
LEMMA FilledStep ==
  ASSUME NEW S, NEW lines \in Seq(Seq(S)), NEW filled \in Seq(Seq(S)),
         NEW k \in Nat, k < Len(lines), FilledTo(filled, lines, k)
  PROVE  FilledTo(filled \o Fillings(lines)[k + 1], lines, k + 1)
<1> DEFINE N == Len(lines)
           n == Len(filled)
           x == lines[k + 1]
           more == filled \o Fillings(lines)[k + 1]
<1>1. /\ N \in Nat /\ n \in Nat /\ k + 1 \in 1 .. N /\ DOMAIN lines = 1 .. N
      /\ k + 1 \in DOMAIN lines
  BY LenProperties
<1>2. x \in Seq(S)
  BY <1>1, ElementOfSeq
<1>3. Fillings(lines)[k + 1] = IF x = <<>> THEN <<>> ELSE <<x>>
  BY <1>1 DEF Fillings
<1>4. CASE x = <<>>
  <2>1. more = filled
    BY <1>3, <1>4, ConcatEmptySeq
  <2>2. ~(\A m \in 1 .. k + 1 : lines[m] # <<>>)
    BY <1>4
  <2> QED BY <2>1, <2>2 DEF FilledTo
<1>5. CASE x # <<>>
  <2>1. more = Append(filled, x)
    BY <1>2, <1>3, <1>5, AppendIsConcat
  <2>2. /\ Len(more) = n + 1 /\ \A m \in 1 .. n : more[m] = filled[m]
        /\ more[n + 1] = x
    BY <1>2, <2>1, AppendProperties
  <2> HIDE DEF more, n, x
  <2>3. ASSUME NEW p \in 1 .. Len(more)
        PROVE  more[p] # <<>> /\ \E m \in 1 .. Len(lines) : more[p] = lines[m]
    <3>1. p \in 1 .. n \/ p = n + 1
      BY <1>1, <2>2
    <3>2. CASE p \in 1 .. n
      BY <2>2, <3>2 DEF FilledTo, n
    <3>3. CASE p = n + 1
      BY <1>1, <1>5, <2>2, <3>3 DEF x
    <3> QED BY <3>1, <3>2, <3>3
  <2>4. ASSUME \A m \in 1 .. k + 1 : lines[m] # <<>>
        PROVE  Len(more) = k + 1 /\ \A m \in 1 .. k + 1 : more[m] = lines[m]
    <3>1. \A m \in 1 .. k : m \in 1 .. k + 1
      OBVIOUS
    <3>2. n = k /\ \A m \in 1 .. k : filled[m] = lines[m]
      BY <2>4, <3>1 DEF FilledTo, n
    <3>3. \A m \in 1 .. k + 1 : m \in 1 .. k \/ m = k + 1
      OBVIOUS
    <3>4. more[k + 1] = lines[k + 1]
      BY <2>2, <3>2 DEF x
    <3> QED BY <2>2, <3>2, <3>3, <3>4
  <2>5. FilledTo(more, lines, k + 1)
    BY <2>3, <2>4 DEF FilledTo
  <2> QED BY <2>5 DEF more
<1> QED BY <1>4, <1>5

\* What Filled leaves of a sequence of lines.
LEMMA FilledIs ==
  ASSUME NEW S, NEW lines \in Seq(Seq(S))
  PROVE  LET filled == Filled(lines)
         IN  /\ filled \in Seq(Seq(S))
             /\ \A p \in 1 .. Len(filled) :
                  filled[p] # <<>> /\ \E m \in 1 .. Len(lines) : filled[p] = lines[m]
             /\ \A k \in 0 .. Len(lines) :
                  (\A m \in 1 .. k : lines[m] # <<>>) =>
                    /\ Len(filled) >= k /\ \A m \in 1 .. k : filled[m] = lines[m]
                    /\ k = Len(lines) => Len(filled) = k
<1> DEFINE N == Len(lines)
           s == Fillings(lines)
           T == {k \in Nat : k <= N => FilledTo(Flat(s, k), lines, k)}
<1>1. N \in Nat /\ DOMAIN lines = 1 .. N /\ \A k \in 1 .. N : lines[k] \in Seq(S)
  BY LenProperties, ElementOfSeq
<1>2. s \in Seq(Seq(Seq(S))) /\ Len(s) = N
  <2>1. <<>> \in Seq(Seq(S))
    BY EmptySeq
  <2>2. \A k \in 1 .. N : <<lines[k]>> \in Seq(Seq(S))
    BY <1>1
  <2>3. s \in [1 .. N -> Seq(Seq(S))]
    BY <1>1, <2>1, <2>2 DEF Fillings
  <2> HIDE DEF s, N
  <2>4. s \in Seq(Seq(Seq(S)))
    BY <1>1, <2>3
  <2>5. Len(s) \in Nat /\ DOMAIN s = 1 .. Len(s) /\ DOMAIN s = 1 .. N
    BY <2>3, <2>4, LenProperties
  <2>6. \A a, b \in Nat : 1 .. a = 1 .. b => a = b
    <3> SUFFICES ASSUME NEW a \in Nat, NEW b \in Nat, 1 .. a = 1 .. b PROVE a = b
      OBVIOUS
    <3>1. (a # 0 => a \in 1 .. b) /\ (b # 0 => b \in 1 .. a)
      OBVIOUS
    <3> QED BY <3>1
  <2> QED BY <1>1, <2>4, <2>5, <2>6
<1> HIDE DEF s
<1>3. /\ Flat(s, 0) = <<>> /\ Flat(s, N) = FlattenSeq(s)
      /\ \A k \in 0 .. N : Flat(s, k) \in Seq(Seq(S))
      /\ \A k \in 0 .. N : k < N => Flat(s, k + 1) = Flat(s, k) \o s[k + 1]
  BY <1>2, FlatIs
<1>4. 0 \in T
  <2>1. Len(<<>>) = 0
    BY EmptySeq
  <2>2. FilledTo(<<>>, lines, 0)
    BY <2>1 DEF FilledTo
  <2> QED BY <1>3, <2>2
<1>5. ASSUME NEW k \in T PROVE k + 1 \in T
  <2> SUFFICES ASSUME k + 1 <= N PROVE FilledTo(Flat(s, k + 1), lines, k + 1)
    OBVIOUS
  <2>1. k \in 0 .. N /\ k < N
    BY <1>1
  <2>2. FilledTo(Flat(s, k), lines, k) /\ Flat(s, k) \in Seq(Seq(S))
    BY <1>3, <2>1
  <2>3. Flat(s, k + 1) = Flat(s, k) \o s[k + 1]
    BY <1>3, <2>1
  <2> QED BY <2>1, <2>2, <2>3, FilledStep DEF s
<1>6. T = Nat
  <2>1. T \in SUBSET Nat
    OBVIOUS
  <2> HIDE DEF T
  <2> QED BY <1>4, <1>5, <2>1, Induction
<1>7. \A k \in 0 .. N : FilledTo(Flat(s, k), lines, k)
  <2> SUFFICES ASSUME NEW k \in 0 .. N PROVE FilledTo(Flat(s, k), lines, k)
    OBVIOUS
  <2>1. k \in T /\ k <= N
    BY <1>1, <1>6
  <2> QED BY <2>1
<1>8. Filled(lines) = Flat(s, N)
  BY <1>3 DEF Filled, s, Fillings
<1> DEFINE filled == Flat(s, N)
<1>9. N \in 0 .. N
  BY <1>1
<1>10. filled \in Seq(Seq(S)) /\ FilledTo(filled, lines, N)
  BY <1>3, <1>7, <1>9
<1>11. ASSUME NEW k \in 0 .. N, \A m \in 1 .. k : lines[m] # <<>>
       PROVE  /\ Len(filled) >= k /\ \A m \in 1 .. k : filled[m] = lines[m]
              /\ k = N => Len(filled) = k
  <2> DEFINE part == Flat(s, k)
  <2>1. Len(part) = k /\ \A m \in 1 .. k : part[m] = lines[m]
    BY <1>7, <1>11 DEF FilledTo
  <2>2. k \in 0 .. Len(s) /\ N \in k .. Len(s)
    BY <1>1, <1>2
  <2>3. Begins(filled, part)
    BY <1>2, <2>2, FlatBegins
  <2> HIDE DEF part
  <2>4. Len(filled) >= k /\ \A m \in 1 .. k : filled[m] = lines[m]
    BY <2>1, <2>3 DEF Begins
  <2>5. ASSUME k = N PROVE Len(filled) = k
    BY <1>10, <1>11, <2>5 DEF FilledTo
  <2> QED BY <2>4, <2>5
<1> HIDE DEF filled, N
<1>12. Filled(lines) = filled
  BY <1>8 DEF filled
<1>13. \A p \in 1 .. Len(filled) :
         filled[p] # <<>> /\ \E m \in 1 .. Len(lines) : filled[p] = lines[m]
  BY <1>10 DEF FilledTo
<1> QED BY <1>10, <1>11, <1>12, <1>13 DEF N

--------------------------------------------------------------------------------
(* The list of tables.                                                     *)

\* A name that is listed as it is.
PlainName(v) == Listable(v.chars)

\* The lines of the first k records, if they are plain.
PlainLines(records, k) == [m \in 1 .. k |-> records[m][1].chars \o <<CR>>]

\* A plain name is written as it is.
LEMMA PlainIs ==
  ASSUME NEW v \in Values, PlainName(v)
  PROVE  /\ WriteValue(v) = v.chars /\ v.chars \in Seq(Alphabet)
         /\ Len(v.chars) \in Nat \ {0}
         /\ \A k \in 1 .. Len(v.chars) : v.chars[k] \in Others /\ v.chars[k] \notin Special
         /\ v.chars \in Seq(Others) /\ Solid(v.chars)
<1>1. /\ v.chars \in Seq(Others) /\ Len(v.chars) \in Nat \ {0}
      /\ DOMAIN v.chars = 1 .. Len(v.chars)
  BY LenProperties, EmptySeq DEF PlainName, Listable
<1>2. \A k \in 1 .. Len(v.chars) : v.chars[k] \in Others /\ v.chars[k] \notin Special
  BY <1>1, ElementOfSeq, SpecialIs
<1>3. ~Quoted(v)
  BY <1>1, <1>2 DEF Quoted
<1>4. Solid(v.chars)
  BY <1>1, ListableIs DEF PlainName
<1> QED BY <1>1, <1>2, <1>3, <1>4, WriteValueIs

\* What is not plain though trim takes nothing from it is in quotes.
LEMMA QuotedUnlessPlain ==
  ASSUME NEW v \in Values, ~PlainName(v), Solid(v.chars)
  PROVE  Quoted(v)
<1>0. v.chars \notin Seq(Others)
  BY ListableIs DEF PlainName
<1>1. v.chars \in Seq(Alphabet)
  BY WriteValueIs
<1>2. Len(v.chars) \in Nat /\ DOMAIN v.chars = 1 .. Len(v.chars)
  BY <1>1, LenProperties
<1>3. v.kind = "bytes"
  <2>1. ASSUME v.kind = "number" PROVE FALSE
    <3>1. v.chars \in BoundedSeq(Others \ Spaces, MaxField)
      BY <2>1 DEF Values
    <3>2. v.chars \in Seq(Others)
      BY <3>1, BoundedIs, SeqMonotonic
    <3> QED BY <1>0, <3>2
  <2>2. v.kind # "null"
    BY DEF Values, Solid
  <2> QED BY <2>1, <2>2 DEF Values
<1>4. ASSUME \A k \in 1 .. Len(v.chars) : v.chars[k] \notin Special PROVE FALSE
  <2>1. \A k \in 1 .. Len(v.chars) : v.chars[k] \in Others
    BY <1>1, <1>4, ElementOfSeq DEF Alphabet
  <2>2. v.chars = [k \in 1 .. Len(v.chars) |-> v.chars[k]]
    BY <1>1, LenProperties
  <2>3. v.chars \in Seq(Others)
    BY <1>2, <2>1, <2>2
  <2> QED BY <1>0, <2>3
<1> QED BY <1>2, <1>3, <1>4 DEF Quoted

\* The text of a record of one field.
LEMMA OneFieldIs ==
  ASSUME NEW record \in [1 .. 1 -> Values]
  PROVE  LET V == WriteValue(record[1])
             W == WriteRecord(record)
         IN  /\ Len(V) \in Nat /\ Len(W) = Len(V) + 2
             /\ \A j \in 1 .. Len(V) : W[j] = V[j]
             /\ W[Len(V) + 1] = CR /\ W[Len(V) + 2] = LF
<1> DEFINE V == WriteValue(record[1])
           W == WriteRecord(record)
           a == FieldStart(record, 1)
<1>1. 1 \in 1 .. 1 /\ 1 \in Nat
  OBVIOUS
<1>2. FitsRecord(record, 1, 1)
  BY <1>1, RecordAt
<1>3. /\ Len(V) \in Nat /\ a = 0
      /\ \A j \in 1 .. Len(V) : W[a + j] = V[j]
      /\ W[a + Len(V) + 1] = CR /\ W[a + Len(V) + 2] = LF
      /\ Len(W) = a + Len(V) + 2
  BY <1>2 DEF FitsRecord
<1> HIDE DEF V, W, a
<1>4. /\ \A j \in 1 .. Len(V) : 0 + j = j
      /\ 0 + Len(V) + 1 = Len(V) + 1 /\ 0 + Len(V) + 2 = Len(V) + 2
  BY <1>3
<1>5. /\ Len(V) \in Nat /\ Len(W) = Len(V) + 2
      /\ \A j \in 1 .. Len(V) : W[j] = V[j]
      /\ W[Len(V) + 1] = CR /\ W[Len(V) + 2] = LF
  BY <1>3, <1>4
<1> QED BY <1>5 DEF V, W

\* Where the text of a record of one field is in the text of all.
LEMMA OneFieldAt ==
  ASSUME NEW records \in Seq([1 .. 1 -> Values]), NEW r \in 0 .. Len(records), r < Len(records)
  PROVE  LET V == WriteValue(records[r + 1][1])
             all == FlattenSeq(Lined(records))
             a == Ends(records, r)
         IN  /\ records[r + 1][1] \in Values
             /\ a \in Nat /\ Len(V) \in Nat /\ Len(all) \in Nat
             /\ Ends(records, r + 1) = a + Len(V) + 2 /\ a + Len(V) + 2 <= Len(all)
             /\ \A j \in 1 .. Len(V) : all[a + j] = V[j]
             /\ all[a + (Len(V) + 1)] = CR /\ all[a + (Len(V) + 2)] = LF
<1> DEFINE record == records[r + 1]
           V == WriteValue(record[1])
           W == WriteRecord(record)
           all == FlattenSeq(Lined(records))
           a == Ends(records, r)
<1>1. 1 \in Nat \ {0}
  OBVIOUS
<1>2. record \in [1 .. 1 -> Values]
  <2>1. Len(records) \in Nat
    BY LenProperties
  <2>2. r + 1 \in 1 .. Len(records)
    BY <2>1
  <2> QED BY <2>2, ElementOfSeq
<1>3. record[1] \in Values
  BY <1>2
<1> HIDE DEF record
<1>4. /\ Len(V) \in Nat /\ Len(W) = Len(V) + 2
      /\ \A j \in 1 .. Len(V) : W[j] = V[j]
      /\ W[Len(V) + 1] = CR /\ W[Len(V) + 2] = LF
  BY <1>2, OneFieldIs
<1>5. /\ a \in Nat /\ Len(W) \in Nat /\ Len(all) \in Nat
      /\ Ends(records, r + 1) = a + Len(W) /\ Ends(records, r + 1) <= Len(all)
      /\ \A j \in 1 .. Len(W) : all[a + j] = W[j]
  BY <1>1, LinedAt DEF record
<1> HIDE DEF V, W, all, a
<1>6. /\ \A j \in 1 .. Len(V) : j \in 1 .. Len(W)
      /\ Len(V) + 1 \in 1 .. Len(W) /\ Len(V) + 2 \in 1 .. Len(W)
      /\ a + Len(W) = a + Len(V) + 2
  BY <1>4, <1>5
<1>7. /\ \A j \in 1 .. Len(V) : all[a + j] = V[j]
      /\ all[a + (Len(V) + 1)] = CR /\ all[a + (Len(V) + 2)] = LF
  BY <1>4, <1>5, <1>6
<1> QED BY <1>3, <1>4, <1>5, <1>6, <1>7 DEF record, V, all, a

\* s is the text of the records or a prefix of it.
PrefixOfAll(s, records) ==
  LET all == FlattenSeq(Lined(records))
  IN  /\ s \in Seq(Alphabet) /\ Len(s) <= Len(all)
      /\ \A j \in 1 .. Len(s) : s[j] = all[j]

\* The lines of plain records, as sequences.
LEMMA PlainLinesIs ==
  ASSUME NEW records \in Seq([1 .. 1 -> Values]), NEW k \in 0 .. Len(records),
         \A m \in 1 .. k : PlainName(records[m][1])
  PROVE  /\ PlainLines(records, k) \in Seq(Seq(Alphabet))
         /\ Len(PlainLines(records, k)) = k
         /\ \A m \in 1 .. k : PlainLines(records, k)[m] = records[m][1].chars \o <<CR>>
<1> DEFINE Cell(m) == records[m][1].chars \o <<CR>>
           s == [m \in 1 .. k |-> Cell(m)]
<1>1. Len(records) \in Nat /\ k \in Nat
  BY LenProperties
<1>2. ASSUME NEW m \in 1 .. k PROVE Cell(m) \in Seq(Alphabet)
  <2>1. records[m] \in [1 .. 1 -> Values]
    <3>1. m \in 1 .. Len(records)
      BY <1>1
    <3> QED BY <3>1, ElementOfSeq
  <2>2. records[m][1] \in Values
    BY <2>1
  <2>3. records[m][1].chars \in Seq(Alphabet)
    BY <2>2, WriteValueIs
  <2>4. <<CR>> \in Seq(Alphabet)
    BY DEF Alphabet, Special
  <2> QED BY <2>3, <2>4, ConcatProperties
<1> HIDE DEF Cell
<1>3. s \in Seq(Seq(Alphabet)) /\ Len(s) = k /\ \A m \in 1 .. k : s[m] = Cell(m)
  BY <1>1, <1>2
<1> QED BY <1>3 DEF PlainLines, Cell

\* A plain record more is a line more.
LEMMA OneLineMore ==
  ASSUME NEW records \in Seq([1 .. 1 -> Values]), NEW k \in 0 .. Len(records),
         k < Len(records), \A m \in 1 .. k + 1 : PlainName(records[m][1]),
         NEW s, PrefixOfAll(s, records), NEW f, Opens(f, s),
         f[Ends(records, k)] = Append(PlainLines(records, k), <<>>),
         Ends(records, k + 1) <= Len(s)
  PROVE  f[Ends(records, k + 1)] = Append(PlainLines(records, k + 1), <<>>)
<1> DEFINE v == records[k + 1][1]
           chars == v.chars
           n == Len(chars)
           a == Ends(records, k)
           all == FlattenSeq(Lined(records))
           w == chars \o <<CR>>
           done == PlainLines(records, k)
           more == PlainLines(records, k + 1)
           N == Len(s)
<1>1. /\ v \in Values /\ a \in Nat /\ Len(WriteValue(v)) \in Nat
      /\ Ends(records, k + 1) = a + Len(WriteValue(v)) + 2
      /\ \A j \in 1 .. Len(WriteValue(v)) : all[a + j] = WriteValue(v)[j]
      /\ all[a + (Len(WriteValue(v)) + 1)] = CR /\ all[a + (Len(WriteValue(v)) + 2)] = LF
  BY OneFieldAt
<1>2. Len(records) \in Nat /\ k \in Nat /\ k + 1 \in 1 .. k + 1 /\ k + 1 \in 0 .. Len(records)
  BY LenProperties
<1>3. PlainName(v)
  BY <1>2
<1>4. /\ WriteValue(v) = chars /\ chars \in Seq(Alphabet) /\ n \in Nat \ {0}
      /\ \A j \in 1 .. n : chars[j] \notin Special
  BY <1>1, <1>3, PlainIs
<1>5. /\ s \in Seq(Alphabet) /\ N \in Nat /\ a + n + 2 <= N
      /\ \A j \in 1 .. N : s[j] = all[j]
  BY <1>1, <1>4, LenProperties DEF PrefixOfAll
<1>6. /\ \A j \in 1 .. n : all[a + j] = chars[j]
      /\ all[a + (n + 1)] = CR /\ all[a + (n + 2)] = LF
  <2> HIDE DEF v, chars, a, all
  <2> QED BY <1>1, <1>4
<1> HIDE DEF v, chars, n, a, all, N
<1>7. <<CR>> \in Seq(Alphabet) /\ Len(<<CR>>) = 1 /\ <<CR>>[1] = CR /\ LF \in Alphabet
  BY DEF Alphabet, Special
<1>8. /\ w \in Seq(Alphabet) /\ Len(w) = n + 1
      /\ \A j \in 1 .. n + 1 : w[j] = IF j <= n THEN chars[j] ELSE CR
  <2> DEFINE last == <<CR>>
  <2> HIDE DEF last
  <2>1. /\ chars \o last \in Seq(Alphabet) /\ Len(chars \o last) = Len(chars) + Len(last)
        /\ \A j \in 1 .. Len(chars) + Len(last) :
             (chars \o last)[j] = IF j <= Len(chars) THEN chars[j] ELSE last[j - Len(chars)]
    BY <1>4, <1>7, ConcatProperties DEF last
  <2>2. n = Len(chars) /\ Len(last) = 1 /\ last[1] = CR /\ w = chars \o last
    BY <1>7 DEF n, last
  <2> HIDE DEF w
  <2>3. \A j \in 1 .. n + 1 : ~(j <= n) => j - n = 1
    BY <1>4
  <2> QED BY <2>1, <2>2, <2>3
<1> HIDE DEF w
<1>9. \A j \in 1 .. n + 1 : s[a + j] = w[j] /\ w[j] # LF
  <2> SUFFICES ASSUME NEW j \in 1 .. n + 1 PROVE s[a + j] = w[j] /\ w[j] # LF
    OBVIOUS
  <2>1. a + j \in 1 .. N
    <3>1. a \in Nat /\ n \in Nat /\ N \in Nat /\ a + n + 2 <= N
      BY <1>1, <1>4, <1>5
    <3> QED BY <3>1
  <2>2. s[a + j] = all[a + j]
    BY <1>5, <2>1
  <2>3. CASE j <= n
    <3>1. j \in 1 .. n
      BY <1>4, <2>3
    <3>2. LF \in Special
      BY DEF Special
    <3>3. all[a + j] = chars[j] /\ w[j] = chars[j] /\ chars[j] \notin Special
      BY <1>4, <1>8, <1>6, <2>3, <3>1
    <3> QED BY <2>2, <3>2, <3>3
  <2>4. CASE ~(j <= n)
    <3>1. j = n + 1
      BY <1>4, <2>4
    <3>2. w[j] = CR
      BY <1>8, <2>4
    <3>3. all[a + (n + 1)] = CR
      BY <1>6
    <3>4. CR # LF
      BY SpecialIs
    <3> QED BY <2>2, <3>1, <3>2, <3>3, <3>4
  <2> QED BY <2>3, <2>4
<1>10. /\ done \in Seq(Seq(Alphabet)) /\ Len(done) = k
      /\ \A m \in 1 .. k : done[m] = records[m][1].chars \o <<CR>>
  <2>1. \A m \in 1 .. k : PlainName(records[m][1])
    BY <1>2
  <2> QED BY <2>1, PlainLinesIs
<1>11. /\ more \in Seq(Seq(Alphabet)) /\ Len(more) = k + 1
       /\ \A m \in 1 .. k + 1 : more[m] = records[m][1].chars \o <<CR>>
  BY <1>2, PlainLinesIs
<1> HIDE DEF done, more
<1>12. f[a + Len(w)] = Append(done, Upto(w, Len(w)))
  <2>1. a + Len(w) <= Len(s)
    BY <1>1, <1>4, <1>5, <1>8 DEF N
  <2>2. \A j \in 1 .. Len(w) : s[a + j] = w[j] /\ w[j] # LF
    BY <1>8, <1>9
  <2>3. f[a] = Append(done, <<>>)
    BY DEF a, done
  <2>4. a \in Nat /\ Len(w) \in 0 .. Len(w)
    BY <1>1, <1>4, <1>8
  <2>5. s \in Seq(Alphabet) /\ w \in Seq(Alphabet) /\ done \in Seq(Seq(Alphabet))
    BY <1>5, <1>8, <1>10
  <2>6. \A x \in 0 .. Len(w) : f[a + x] = Append(done, Upto(w, x))
    <3>1. RunsOn(Alphabet, s, f, a, done, w)
      BY <2>1, <2>2, <2>3, <2>4, <2>5 DEF RunsOn
    <3> QED BY <3>1, RunIs
  <2> QED BY <2>4, <2>6
<1>13. f[a + (n + 1)] = Append(done, w)
  <2>1. Upto(w, Len(w)) = w
    BY <1>8, UptoIs
  <2> QED BY <1>8, <1>12, <2>1
<1>14. f[a + n + 2] = Append(Append(done, w), <<>>)
  <2>1. /\ a + (n + 1) \in 0 .. N /\ a + (n + 1) < N /\ (a + (n + 1)) + 1 = a + n + 2
        /\ a + n + 2 \in 1 .. N /\ a + (n + 2) = a + n + 2
    <3>1. a \in Nat /\ n \in Nat /\ N \in Nat /\ a + n + 2 <= N
      BY <1>1, <1>4, <1>5
    <3> QED BY <3>1
  <2>2. f[a + n + 2] = Extended(f[a + (n + 1)], s[a + n + 2])
    <3>1. Len(s) \in Nat
      BY <1>5 DEF N
    <3>2. \A j \in 0 .. Len(s) : j < Len(s) => f[j + 1] = Extended(f[j], s[j + 1])
      BY <3>1, OpensAt
    <3> QED BY <2>1, <3>2 DEF N
  <2>3. s[a + n + 2] = LF
    <3>1. all[a + (n + 2)] = LF
      BY <1>6
    <3> QED BY <1>5, <2>1, <3>1
  <2>4. Extended(Append(done, w), LF) = Append(Append(done, w), <<>>)
    BY <1>7, <1>8, <1>10, ExtendedLast
  <2> QED BY <1>13, <2>2, <2>3, <2>4
<1>15. Append(done, w) = more
  <2> DEFINE x == Append(done, w)
  <2>1. /\ x \in Seq(Seq(Alphabet)) /\ Len(x) = k + 1
        /\ \A m \in 1 .. k : x[m] = done[m]
        /\ x[k + 1] = w
    BY <1>8, <1>10, AppendProperties
  <2> HIDE DEF x
  <2>2. \A m \in 1 .. k + 1 : x[m] = more[m]
    <3>1. \A m \in 1 .. k + 1 : m \in 1 .. k \/ m = k + 1
      BY <1>2
    <3>2. more[k + 1] = w
      BY <1>2, <1>11 DEF w, chars, v
    <3>3. \A m \in 1 .. k : m \in 1 .. k + 1
      BY <1>2
    <3>4. \A m \in 1 .. k : x[m] = more[m]
      BY <1>10, <1>11, <2>1, <3>3
    <3> QED BY <2>1, <3>1, <3>2, <3>4
  <2>3. Len(x) = Len(more) /\ \A m \in 1 .. Len(x) : x[m] = more[m]
    BY <1>11, <2>1, <2>2
  <2> QED BY <1>11, <2>1, <2>3, SeqEqual DEF x
<1>16. Ends(records, k + 1) = a + n + 2
  BY <1>1, <1>4 DEF n, v, chars, a
<1> QED BY <1>14, <1>15, <1>16 DEF more

\* Plain records are lines of their own.
LEMMA SeveralIs ==
  ASSUME NEW records \in Seq([1 .. 1 -> Values]), NEW K \in 0 .. Len(records),
         \A m \in 1 .. K : PlainName(records[m][1]),
         NEW s, PrefixOfAll(s, records), NEW f, Opens(f, s),
         Ends(records, K) <= Len(s)
  PROVE  f[Ends(records, K)] = Append(PlainLines(records, K), <<>>)
<1> DEFINE T == {k \in Nat : k <= K =>
                   f[Ends(records, k)] = Append(PlainLines(records, k), <<>>)}
<1>1. Len(records) \in Nat /\ K \in Nat /\ Len(s) \in Nat /\ 1 \in Nat \ {0}
  BY LenProperties DEF PrefixOfAll
<1>2. 0 \in T
  <2>1. Ends(records, 0) = 0
    <3>1. Lined(records) \in Seq(Seq(Alphabet))
      BY <1>1, LinedIs
    <3>2. Flat(Lined(records), 0) = <<>>
      BY <3>1, FlatIs
    <3> QED BY <3>2, EmptySeq DEF Ends
  <2>2. f[0] = << <<>> >>
    BY <1>1, OpensAt
  <2>3. PlainLines(records, 0) = <<>>
    <3>1. 0 \in 0 .. Len(records) /\ \A m \in 1 .. 0 : PlainName(records[m][1])
      BY <1>1
    <3>2. PlainLines(records, 0) \in Seq(Seq(Alphabet)) /\ Len(PlainLines(records, 0)) = 0
      BY <3>1, PlainLinesIs
    <3> QED BY <3>2, EmptySeq
  <2>4. Append(<<>>, <<>>) = << <<>> >>
    OBVIOUS
  <2> QED BY <2>1, <2>2, <2>3, <2>4
<1>3. ASSUME NEW k \in T PROVE k + 1 \in T
  <2> SUFFICES ASSUME k + 1 <= K
               PROVE  f[Ends(records, k + 1)] = Append(PlainLines(records, k + 1), <<>>)
    OBVIOUS
  <2>1. /\ k \in 0 .. Len(records) /\ k < Len(records) /\ k <= K
        /\ k + 1 \in 0 .. Len(records) /\ K \in k + 1 .. Len(records)
        /\ \A m \in 1 .. k + 1 : m \in 1 .. K
    BY <1>1
  <2>2. f[Ends(records, k)] = Append(PlainLines(records, k), <<>>)
    BY <2>1
  <2>3. Ends(records, k + 1) <= Len(s)
    <3>1. /\ Ends(records, k + 1) \in Nat /\ Ends(records, K) \in Nat
          /\ Ends(records, k + 1) <= Ends(records, K)
      BY <1>1, <2>1, EndsGrow
    <3> QED BY <1>1, <3>1
  <2>4. \A m \in 1 .. k + 1 : PlainName(records[m][1])
    BY <2>1
  <2> HIDE DEF T
  <2> QED BY <2>1, <2>2, <2>3, <2>4, OneLineMore
<1>4. T = Nat
  <2>1. T \in SUBSET Nat
    OBVIOUS
  <2> HIDE DEF T
  <2> QED BY <1>2, <1>3, <2>1, Induction
<1>5. K \in T /\ K <= K
  BY <1>1, <1>4
<1> QED BY <1>5

\* Where a field begins with k quotes, its text does with 2 * k + 1.
LEMMA LeadingQuotes ==
  ASSUME NEW v \in Values, Quoted(v), NEW K \in 0 .. Len(v.chars),
         \A k \in 1 .. K : v.chars[k] = Quote
  PROVE  /\ K + K + 1 <= Len(WriteValue(v))
         /\ \A j \in 1 .. K + K + 1 : WriteValue(v)[j] = Quote
<1> DEFINE n == Len(v.chars)
           V == WriteValue(v)
           In(x) == Inner(v, x)
           T == {x \in Nat : x <= K => /\ In(x) = x + x
                                       /\ \A j \in 1 .. x + x + 1 : V[j] = Quote}
<1>1. /\ n \in Nat /\ (\A x \in 0 .. n : In(x) \in Nat) /\ In(0) = 0
      /\ Len(V) = In(n) + 2 /\ V[1] = Quote
  BY QuotedIs
<1>2. ASSUME NEW x \in 0 .. n, x < n, v.chars[x + 1] = Quote
      PROVE  In(x + 1) = In(x) + 2 /\ V[In(x) + 2] = Quote /\ V[In(x) + 3] = Quote
             /\ In(x + 1) <= In(n)
  BY <1>2, QuotedAt
<1>3. K \in Nat /\ K <= n
  BY <1>1
<1> HIDE DEF n, V, In
<1>4. 0 \in T
  <2>1. \A j \in 1 .. 0 + 0 + 1 : j = 1
    OBVIOUS
  <2> QED BY <1>1, <2>1
<1>5. ASSUME NEW x \in T PROVE x + 1 \in T
  <2> SUFFICES ASSUME x + 1 <= K
               PROVE  /\ In(x + 1) = (x + 1) + (x + 1)
                      /\ \A j \in 1 .. (x + 1) + (x + 1) + 1 : V[j] = Quote
    OBVIOUS
  <2>1. x \in 0 .. n /\ x < n /\ x + 1 \in 1 .. K /\ x <= K
    <3>1. x \in Nat /\ n \in Nat /\ K \in Nat /\ K <= n
      BY <1>1, <1>3
    <3> QED BY <3>1
  <2>2. In(x) = x + x /\ \A j \in 1 .. x + x + 1 : V[j] = Quote
    BY <2>1
  <2>3. In(x + 1) = In(x) + 2 /\ V[In(x) + 2] = Quote /\ V[In(x) + 3] = Quote
    BY <1>2, <2>1
  <2>4. In(x + 1) = (x + 1) + (x + 1)
    BY <2>2, <2>3
  <2>5. ASSUME NEW j \in 1 .. (x + 1) + (x + 1) + 1 PROVE V[j] = Quote
    <3>1. j \in 1 .. x + x + 1 \/ j = (x + x) + 2 \/ j = (x + x) + 3
      OBVIOUS
    <3> QED BY <2>2, <2>3, <3>1
  <2> QED BY <2>4, <2>5
<1>6. T = Nat
  <2>1. T \in SUBSET Nat
    OBVIOUS
  <2> HIDE DEF T
  <2> QED BY <1>4, <1>5, <2>1, Induction
<1>7. In(K) = K + K /\ \A j \in 1 .. K + K + 1 : V[j] = Quote
  <2>1. K \in T
    <3> HIDE DEF T
    <3> QED BY <1>3, <1>6
  <2> QED BY <1>3, <2>1
<1>8. In(K) <= In(n)
  <2>1. CASE K = 0
    <3>1. n \in 0 .. n
      BY <1>1
    <3>2. In(n) \in Nat
      BY <1>1, <3>1
    <3> QED BY <1>1, <2>1, <3>2
  <2>2. CASE K # 0
    <3>1. K - 1 \in 0 .. n /\ K - 1 < n /\ (K - 1) + 1 = K /\ K \in 1 .. K
      BY <1>1, <1>3, <2>2
    <3>2. v.chars[(K - 1) + 1] = Quote
      BY <3>1
    <3>3. In((K - 1) + 1) <= In(n)
      BY <1>2, <3>1, <3>2
    <3> QED BY <3>1, <3>3
  <2> QED BY <2>1, <2>2
<1>9. K + K + 1 <= Len(V)
  <2>1. n \in 0 .. n
    BY <1>1
  <2>2. In(n) \in Nat
    BY <1>1, <2>1
  <2> QED BY <1>1, <1>3, <1>7, <1>8, <2>2
<1> QED BY <1>7, <1>9 DEF V

\* The text of the records that loadTables takes the lines of: it ends where the
\* last white space begins.
ListText(records) == Trim(FlattenSeq(Lined(records)))

\* Where the first name is plain the text begins with the first record.
LEMMA ListTextIs ==
  ASSUME NEW records \in Seq([1 .. 1 -> Values]), records # <<>>, PlainName(records[1][1])
  PROVE  LET all == FlattenSeq(Lined(records))
             z == Len(ListText(records))
         IN  /\ PrefixOfAll(ListText(records), records)
             /\ z \in Nat \ {0} /\ z <= Len(all) /\ all[z] \notin White
             /\ \A k \in 1 .. Len(all) : all[k] \notin White => k <= z
<1> DEFINE all == FlattenSeq(Lined(records))
           v == records[1][1]
           N == Len(records)
<1>1. 1 \in Nat \ {0}
  OBVIOUS
<1>2. N \in Nat /\ N # 0 /\ 0 \in 0 .. N /\ 0 < N
  BY LenProperties, EmptySeq
<1>3. Lined(records) \in Seq(Seq(Alphabet))
  BY <1>1, LinedIs
<1>4. all \in Seq(Alphabet) /\ Len(all) \in Nat
  <2>1. Flat(Lined(records), Len(Lined(records))) = all /\ Len(Lined(records)) \in Nat
    BY <1>3, FlatIs
  <2>2. all \in Seq(Alphabet)
    BY <1>3, <2>1, FlatIs
  <2> QED BY <2>2, LenProperties
<1>5. Ends(records, 0) = 0
  <2>1. Flat(Lined(records), 0) = <<>>
    BY <1>3, FlatIs
  <2> QED BY <2>1, EmptySeq DEF Ends
<1>6. /\ records[0 + 1][1] \in Values /\ Len(WriteValue(records[0 + 1][1])) \in Nat
      /\ 0 + Len(WriteValue(records[0 + 1][1])) + 2 <= Len(all)
      /\ \A j \in 1 .. Len(WriteValue(records[0 + 1][1])) :
           all[0 + j] = WriteValue(records[0 + 1][1])[j]
  BY <1>2, <1>5, OneFieldAt
<1>7. v \in Values
  BY <1>6
<1>8. WriteValue(v) = v.chars /\ Len(v.chars) \in Nat \ {0} /\ v.chars[1] \notin White
  BY <1>7, PlainIs DEF Solid
<1>9. all # <<>> /\ all[1] \notin White
  <2> DEFINE n == Len(v.chars)
  <2>1. n \in Nat \ {0} /\ 0 + n + 2 <= Len(all) /\ \A j \in 1 .. n : all[0 + j] = v.chars[j]
    BY <1>6, <1>8
  <2> HIDE DEF n, all, v
  <2>2. 1 \in 1 .. n /\ 0 + 1 = 1 /\ Len(all) # 0
    BY <1>4, <2>1
  <2>3. all[1] = v.chars[1] /\ v.chars[1] \notin White
    BY <1>8, <2>1, <2>2 DEF n
  <2> QED BY <1>4, <2>2, <2>3, EmptySeq
<1> HIDE DEF all
<1>10. /\ Trim(all) \in Seq(Alphabet)
       /\ \E z \in 1 .. Len(all) :
            /\ Len(Trim(all)) = z /\ \A k \in 1 .. z : Trim(all)[k] = all[k]
            /\ all[z] \notin White
            /\ \A k \in 1 .. Len(all) : all[k] \notin White => k <= z
  BY <1>4, <1>9, TrimIs
<1>11. ListText(records) = Trim(all)
  BY DEF ListText, all
<1>12. PICK z \in 1 .. Len(all) :
            /\ Len(ListText(records)) = z /\ \A k \in 1 .. z : ListText(records)[k] = all[k]
            /\ all[z] \notin White
            /\ \A k \in 1 .. Len(all) : all[k] \notin White => k <= z
  BY <1>10, <1>11
<1>13. z \in Nat \ {0} /\ z <= Len(all)
  BY <1>4, <1>12
<1>14. PrefixOfAll(ListText(records), records)
  BY <1>10, <1>11, <1>12, <1>13 DEF PrefixOfAll, all
<1> QED BY <1>12, <1>13, <1>14 DEF all

\* Plain names only: the lines of the list are the names.
LEMMA PlainText ==
  ASSUME NEW records \in Seq([1 .. 1 -> Values]), NEW K \in Nat, Len(records) = K + 1,
         \A m \in 1 .. K + 1 : PlainName(records[m][1])
  PROVE  Lines(ListText(records)) = Append(PlainLines(records, K), records[K + 1][1].chars)
<1> DEFINE all == FlattenSeq(Lined(records))
           U == ListText(records)
           z == Len(U)
           v == records[K + 1][1]
           w == v.chars
           n == Len(w)
           a == Ends(records, K)
           done == PlainLines(records, K)
<1>1. 1 \in Nat \ {0} /\ 1 \in 1 .. K + 1 /\ K + 1 \in 1 .. K + 1 /\ K + 1 # 0
      /\ \A m \in 1 .. K : m \in 1 .. K + 1
  OBVIOUS
<1>2. records # <<>> /\ K \in 0 .. Len(records) /\ K < Len(records)
  BY <1>1, EmptySeq
<1>3. /\ PrefixOfAll(U, records)
      /\ z \in Nat \ {0} /\ z <= Len(all) /\ all[z] \notin White
      /\ \A k \in 1 .. Len(all) : all[k] \notin White => k <= z
  BY <1>1, <1>2, ListTextIs
<1>4. /\ v \in Values /\ a \in Nat
      /\ Ends(records, K + 1) = a + Len(WriteValue(v)) + 2
      /\ \A j \in 1 .. Len(WriteValue(v)) : all[a + j] = WriteValue(v)[j]
      /\ all[a + (Len(WriteValue(v)) + 1)] = CR /\ all[a + (Len(WriteValue(v)) + 2)] = LF
  BY <1>2, OneFieldAt
<1>5. /\ WriteValue(v) = w /\ w \in Seq(Alphabet) /\ n \in Nat \ {0}
      /\ \A j \in 1 .. n : w[j] \notin Special
      /\ w[n] \notin White
  BY <1>1, <1>4, PlainIs DEF Solid
<1>6. Ends(records, K + 1) = Len(all)
  <2>1. Lined(records) \in Seq(Seq(Alphabet)) /\ Len(Lined(records)) = K + 1
    BY <1>1, LinedIs
  <2>2. Flat(Lined(records), K + 1) = all
    BY <2>1, FlatIs
  <2> QED BY <2>2 DEF Ends
<1>7. /\ Len(all) = a + n + 2
      /\ \A j \in 1 .. n : all[a + j] = w[j]
      /\ all[a + (n + 1)] = CR /\ all[a + (n + 2)] = LF
  BY <1>4, <1>5, <1>6
<1> HIDE DEF all, U, z, v, w, n, a, done
<1>8. z = a + n
  <2>1. a + n \in 1 .. Len(all) /\ n \in 1 .. n
    BY <1>4, <1>5, <1>7
  <2>2. all[a + n] \notin White
    BY <1>5, <1>7, <2>1
  <2>3. a + n <= z
    BY <1>3, <2>1, <2>2
  <2>4. z = a + n \/ z = a + (n + 1) \/ z = a + (n + 2)
    <3>1. z \in Nat /\ a \in Nat /\ n \in Nat
      BY <1>3, <1>4, <1>5
    <3>2. z <= a + n + 2
      BY <1>3, <1>7
    <3> QED BY <2>3, <3>1, <3>2
  <2> QED BY <1>3, <1>7, <2>4 DEF White
<1>9. U \in Seq(Alphabet) /\ \A j \in 1 .. z : U[j] = all[j]
  BY <1>3 DEF PrefixOfAll, z, all
<1>10. PICK f : Lines(U) = f[z] /\ Opens(f, U)
  <2>1. Len(U) \in Nat
    BY <1>3 DEF z
  <2> QED BY <2>1, LinesChooses DEF z
<1>11. f[a] = Append(done, <<>>)
  <2>1. a <= Len(U)
    BY <1>3, <1>4, <1>5, <1>8 DEF z
  <2>2. \A m \in 1 .. K : PlainName(records[m][1])
    BY <1>1
  <2> QED BY <1>2, <1>3, <1>10, <2>1, <2>2, SeveralIs DEF a, done
<1>12. done \in Seq(Seq(Alphabet))
  <2>1. \A m \in 1 .. K : PlainName(records[m][1])
    BY <1>1
  <2> QED BY <1>2, <2>1, PlainLinesIs DEF done
<1>13. \A k \in 1 .. n : U[a + k] = w[k] /\ w[k] # LF
  <2> SUFFICES ASSUME NEW k \in 1 .. n PROVE U[a + k] = w[k] /\ w[k] # LF
    OBVIOUS
  <2>1. a + k \in 1 .. z
    BY <1>4, <1>5, <1>8
  <2>2. U[a + k] = all[a + k] /\ all[a + k] = w[k]
    BY <1>7, <1>9, <2>1
  <2> QED BY <1>5, <2>2 DEF Special
<1>14. RunsOn(Alphabet, U, f, a, done, w)
  <2>1. a + n <= Len(U)
    BY <1>4, <1>5, <1>8 DEF z
  <2> QED BY <1>4, <1>5, <1>9, <1>10, <1>11, <1>12, <1>13, <2>1 DEF RunsOn, n
<1>15. f[a + n] = Append(done, Upto(w, n))
  <2>1. n \in 0 .. n
    BY <1>5
  <2>2. \A x \in 0 .. n : f[a + x] = Append(done, Upto(w, x))
    BY <1>14, RunIs DEF n
  <2> QED BY <2>1, <2>2
<1>16. Upto(w, n) = w
  BY <1>5, UptoIs DEF n
<1> QED BY <1>8, <1>10, <1>15, <1>16 DEF U, done, w, v

\* The lines after the first one, trimmed.
Rest(lines) == [k \in DOMAIN Tail(lines) |-> Trim(Tail(lines)[k])]

\* The rest of the lines, as a sequence.
LEMMA RestIs ==
  ASSUME NEW S, NEW lines \in Seq(Seq(S)), NEW K \in Nat, Len(lines) = K + 1
  PROVE  /\ Rest(lines) \in Seq(Seq(S)) /\ Len(Rest(lines)) = K
         /\ \A k \in 1 .. K : Rest(lines)[k] = Trim(lines[k + 1])
<1> DEFINE tail == Tail(lines)
           Cell(k) == Trim(tail[k])
<1>1. lines # <<>>
  <2>1. K + 1 # 0
    OBVIOUS
  <2> QED BY <2>1, EmptySeq
<1>2. tail \in Seq(Seq(S)) /\ Len(tail) = K /\ \A k \in 1 .. K : tail[k] = lines[k + 1]
  <2>1. tail \in Seq(Seq(S)) /\ Len(tail) = (K + 1) - 1
        /\ \A k \in 1 .. Len(tail) : tail[k] = lines[k + 1]
    BY <1>1, HeadTailProperties
  <2> QED BY <2>1
<1> HIDE DEF tail
<1>3. DOMAIN tail = 1 .. K
  BY <1>2, LenProperties
<1>4. ASSUME NEW k \in 1 .. K PROVE Cell(k) \in Seq(S) /\ Cell(k) = Trim(lines[k + 1])
  <2>1. tail[k] \in Seq(S)
    BY <1>2, ElementOfSeq
  <2> QED BY <1>2, <2>1, TrimIs
<1>5. Rest(lines) = [k \in 1 .. K |-> Cell(k)]
  BY <1>3 DEF Rest, tail
<1> HIDE DEF Cell
<1>6. Rest(lines) \in Seq(Seq(S)) /\ Len(Rest(lines)) = K
      /\ \A k \in 1 .. K : Rest(lines)[k] = Cell(k)
  BY <1>4, <1>5
<1> QED BY <1>4, <1>6

\* The names the list should have.
TableNames(records) == [k \in 1 .. Len(records) - 1 |-> records[k + 1][1].chars]

\* The names of the records, as a sequence.
LEMMA TableNamesIs ==
  ASSUME NEW records \in Seq([1 .. 1 -> Values]), NEW K \in Nat, Len(records) = K + 1
  PROVE  /\ TableNames(records) \in Seq(Seq(Alphabet)) /\ Len(TableNames(records)) = K
         /\ DOMAIN TableNames(records) = 1 .. K
         /\ \A k \in 1 .. K : /\ records[k + 1][1] \in Values
                              /\ TableNames(records)[k] = records[k + 1][1].chars
<1> DEFINE Cell(k) == records[k + 1][1].chars
           s == [k \in 1 .. K |-> Cell(k)]
<1>1. ASSUME NEW k \in 1 .. K PROVE records[k + 1][1] \in Values /\ Cell(k) \in Seq(Alphabet)
  <2>1. k + 1 \in 1 .. Len(records)
    OBVIOUS
  <2>2. records[k + 1] \in [1 .. 1 -> Values]
    BY <2>1, ElementOfSeq
  <2>3. records[k + 1][1] \in Values
    BY <2>2
  <2> QED BY <2>3, WriteValueIs
<1>2. TableNames(records) = s
  <2>1. Len(records) - 1 = K
    OBVIOUS
  <2> QED BY <2>1 DEF TableNames
<1> HIDE DEF Cell
<1>3. s \in Seq(Seq(Alphabet)) /\ Len(s) = K /\ DOMAIN s = 1 .. K
      /\ \A k \in 1 .. K : s[k] = Cell(k)
  BY <1>1
<1> HIDE DEF s
<1> QED BY <1>1, <1>2, <1>3 DEF Cell

\* A list of plain names is as it should be.
LEMMA PlainList ==
  ASSUME NEW records \in Seq([1 .. 1 -> Values]), NEW K \in Nat, Len(records) = K + 1,
         \A m \in 1 .. K + 1 : PlainName(records[m][1])
  PROVE  TableList(FlattenSeq(Lined(records))) = TableNames(records)
<1> DEFINE done == PlainLines(records, K)
           lines == Append(done, records[K + 1][1].chars)
           names == TableNames(records)
           rest == Rest(lines)
<1>1. Lines(ListText(records)) = lines
  BY PlainText
<1>2. TableList(FlattenSeq(Lined(records))) = Filled(rest)
  BY <1>1 DEF TableList, Rest, ListText
<1>3. /\ names \in Seq(Seq(Alphabet)) /\ Len(names) = K
      /\ \A k \in 1 .. K : /\ records[k + 1][1] \in Values
                           /\ names[k] = records[k + 1][1].chars
  BY TableNamesIs
<1>4. /\ done \in Seq(Seq(Alphabet)) /\ Len(done) = K
      /\ \A m \in 1 .. K : done[m] = records[m][1].chars \o <<CR>>
  <2>1. K \in 0 .. Len(records) /\ \A m \in 1 .. K : PlainName(records[m][1])
    OBVIOUS
  <2> QED BY <2>1, PlainLinesIs
<1>5. records[K + 1][1].chars \in Seq(Alphabet)
  <2>1. K + 1 \in 1 .. Len(records)
    OBVIOUS
  <2>2. records[K + 1] \in [1 .. 1 -> Values]
    BY <2>1, ElementOfSeq
  <2>3. records[K + 1][1] \in Values
    BY <2>2
  <2> QED BY <2>3, WriteValueIs
<1> HIDE DEF done
<1>6. /\ lines \in Seq(Seq(Alphabet)) /\ Len(lines) = K + 1
      /\ \A m \in 1 .. K : lines[m] = done[m]
      /\ lines[K + 1] = records[K + 1][1].chars
  BY <1>4, <1>5, AppendProperties
<1> HIDE DEF lines, names
<1>7. /\ rest \in Seq(Seq(Alphabet)) /\ Len(rest) = K
      /\ \A k \in 1 .. K : rest[k] = Trim(lines[k + 1])
  BY <1>6, RestIs
<1>8. ASSUME NEW k \in 1 .. K PROVE Trim(lines[k + 1]) = names[k] /\ names[k] # <<>>
  <2> DEFINE v == records[k + 1][1]
             w == v.chars
             n == Len(w)
             line == lines[k + 1]
  <2>1. v \in Values /\ names[k] = w
    BY <1>3
  <2>2. PlainName(v)
    <3>1. k + 1 \in 1 .. K + 1
      OBVIOUS
    <3> QED BY <3>1
  <2>3. w \in Seq(Others) /\ Listable(w) /\ w # <<>> /\ w \in Seq(Alphabet) /\ n \in Nat
    BY <2>1, <2>2, PlainIs DEF PlainName, Solid
  <2>4. CASE k < K
    <3>1. k + 1 \in 1 .. K
      BY <2>4
    <3>2. line = w \o <<CR>>
      BY <1>4, <1>6, <3>1
    <3> DEFINE last == <<CR>>
    <3>3. last \in Seq(Alphabet) /\ Len(last) = 1 /\ last[1] = CR
      BY DEF Alphabet, Special
    <3> HIDE DEF last, w
    <3>4. /\ w \o last \in Seq(Alphabet) /\ Len(w \o last) = Len(w) + Len(last)
          /\ \A j \in 1 .. Len(w) + Len(last) :
               (w \o last)[j] = IF j <= Len(w) THEN w[j] ELSE last[j - Len(w)]
      BY <2>3, <3>3, ConcatProperties
    <3>5. line = w \o last
      BY <3>2 DEF last, w
    <3> HIDE DEF line, v
    <3>6. line \in Seq(Alphabet) /\ Len(line) = n + 1
          /\ \A j \in 1 .. n + 1 : line[j] = IF j <= n THEN w[j] ELSE last[j - n]
      BY <3>3, <3>4, <3>5
    <3> HIDE DEF n
    <3>7. \A j \in 1 .. n + 1 : j > n => line[j] = CR
      <4>1. \A j \in 1 .. n + 1 : j > n => ~(j <= n) /\ j - n = 1
        BY <2>3
      <4> QED BY <3>3, <3>6, <4>1
    <3>8. Begins(line, w)
      <4>1. \A j \in 1 .. n : j \in 1 .. n + 1 /\ j <= n
        BY <2>3
      <4> QED BY <2>3, <3>6, <4>1 DEF Begins, n
    <3>9. Trim(line) = w
      <4>1. \A j \in 1 .. Len(line) : j > Len(w) => line[j] = CR
        BY <3>6, <3>7 DEF n
      <4> QED BY <2>3, <3>6, <3>8, <4>1, TrimPlain
    <3> QED BY <2>1, <2>3, <3>9 DEF line, w
  <2>5. CASE ~(k < K)
    <3>1. k = K
      BY <2>5
    <3>2. line = w
      BY <1>6, <3>1
    <3>3. Begins(w, w) /\ \A j \in 1 .. Len(w) : j > Len(w) => w[j] = CR
      BY <2>3 DEF Begins
    <3>4. Trim(w) = w
      BY <2>3, <3>3, TrimPlain
    <3> QED BY <2>1, <2>3, <3>2, <3>4
  <2> QED BY <2>4, <2>5
<1> HIDE DEF rest
<1>9. /\ Filled(rest) \in Seq(Seq(Alphabet)) /\ Len(Filled(rest)) = K
      /\ \A m \in 1 .. K : Filled(rest)[m] = rest[m]
  <2>1. K \in 0 .. Len(rest) /\ K = Len(rest)
    BY <1>7
  <2>2. \A m \in 1 .. K : rest[m] # <<>>
    BY <1>7, <1>8
  <2> QED BY <1>7, <2>1, <2>2, FilledIs
<1>10. Filled(rest) = names
  <2> DEFINE x == Filled(rest)
  <2>1. \A m \in 1 .. K : x[m] = names[m]
    BY <1>7, <1>8, <1>9
  <2>2. /\ x \in Seq(Seq(Alphabet)) /\ Len(x) = Len(names)
        /\ \A m \in 1 .. Len(x) : x[m] = names[m]
    BY <1>3, <1>9, <2>1
  <2> HIDE DEF x
  <2>3. x = names
    BY <1>3, <2>2, SeqEqual
  <2> QED BY <2>3 DEF x
<1> QED BY <1>2, <1>10 DEF names

Quotes(n) == [j \in 1 .. n |-> Quote]

\* The first r names are plain and the next one is not: it begins with P quotes.
QuotedAfter(records, r, P) ==
  LET chars == records[r + 1][1].chars
  IN  /\ r \in Nat \ {0} /\ r < Len(records)
      /\ \A m \in 1 .. r : PlainName(records[m][1])
      /\ Quoted(records[r + 1][1]) /\ P \in 0 .. Len(chars)
      /\ \A k \in 1 .. P : chars[k] = Quote

\* The line of the first name that is not plain begins with the quotes that the
\* name does, twice, and one more.
LEMMA QuotedLine ==
  ASSUME NEW records \in Seq([1 .. 1 -> Values]), NEW r, NEW P \in Nat,
         QuotedAfter(records, r, P)
  PROVE  Grown(Alphabet, Lines(ListText(records)), PlainLines(records, r), Quotes(P + P + 1))
<1> DEFINE all == FlattenSeq(Lined(records))
           U == ListText(records)
           z == Len(U)
           v == records[r + 1][1]
           V == WriteValue(v)
           M == P + P + 1
           w == Quotes(M)
           a == Ends(records, r)
           done == PlainLines(records, r)
<1>1. /\ r \in Nat \ {0} /\ r < Len(records)
      /\ \A m \in 1 .. r : PlainName(records[m][1])
      /\ Quoted(v) /\ P \in 0 .. Len(v.chars)
      /\ \A k \in 1 .. P : v.chars[k] = Quote
  BY DEF QuotedAfter
<1>2. /\ 1 \in Nat \ {0} /\ Len(records) \in Nat /\ r \in 0 .. Len(records) /\ 1 \in 1 .. r
      /\ records # <<>>
  <2>1. Len(records) \in Nat
    BY LenProperties
  <2> QED BY <1>1, <2>1, EmptySeq
<1>3. /\ v \in Values /\ a \in Nat /\ Len(V) \in Nat /\ Len(all) \in Nat
      /\ a + Len(V) + 2 <= Len(all)
      /\ \A j \in 1 .. Len(V) : all[a + j] = V[j]
  BY <1>1, <1>2, OneFieldAt
<1>4. v.chars \in Seq(Alphabet) /\ Len(v.chars) \in Nat
  BY <1>3, WriteValueIs, LenProperties
<1>5. M <= Len(V) /\ (\A j \in 1 .. M : V[j] = Quote) /\ M \in Nat \ {0}
  <2>1. P \in Nat
    BY <1>1, <1>4
  <2>2. P + P + 1 <= Len(V) /\ \A j \in 1 .. P + P + 1 : V[j] = Quote
    BY <1>1, <1>3, LeadingQuotes
  <2> QED BY <2>1, <2>2
<1>6. /\ PrefixOfAll(U, records)
      /\ z \in Nat \ {0} /\ z <= Len(all)
      /\ \A k \in 1 .. Len(all) : all[k] \notin White => k <= z
  BY <1>1, <1>2, ListTextIs
<1>7. Quote \notin White /\ Quote \in Alphabet /\ Quote # LF
  BY QuoteIsSolid, SpecialIs DEF Alphabet, Special
<1> HIDE DEF all, U, z, v, V, M, a, done
<1>8. w \in Seq(Alphabet) /\ Len(w) = M /\ \A j \in 1 .. M : w[j] = Quote
  BY <1>5, <1>7 DEF Quotes
<1> HIDE DEF w
<1>9. a + M <= z
  <2>1. a + M \in 1 .. Len(all) /\ M \in 1 .. Len(V)
    BY <1>3, <1>5
  <2>2. all[a + M] = Quote
    <3>1. M \in 1 .. M
      BY <1>5
    <3> QED BY <1>3, <1>5, <2>1, <3>1
  <2> QED BY <1>6, <1>7, <2>1, <2>2
<1>10. U \in Seq(Alphabet) /\ \A j \in 1 .. z : U[j] = all[j]
  BY <1>6 DEF PrefixOfAll, z, all
<1>11. PICK f : Lines(U) = f[z] /\ Opens(f, U)
  <2>1. Len(U) \in Nat
    BY <1>6 DEF z
  <2> QED BY <2>1, LinesChooses DEF z
<1>12. f[a] = Append(done, <<>>)
  <2>1. a <= Len(U)
    BY <1>3, <1>5, <1>6, <1>9 DEF z
  <2> QED BY <1>1, <1>2, <1>6, <1>11, <2>1, SeveralIs DEF a, done
<1>13. done \in Seq(Seq(Alphabet))
  BY <1>1, <1>2, PlainLinesIs DEF done
<1>14. \A k \in 1 .. M : U[a + k] = w[k] /\ w[k] # LF
  <2> SUFFICES ASSUME NEW k \in 1 .. M PROVE U[a + k] = w[k] /\ w[k] # LF
    OBVIOUS
  <2>1. a + k \in 1 .. z /\ k \in 1 .. Len(V)
    BY <1>3, <1>5, <1>6, <1>9
  <2>2. U[a + k] = all[a + k] /\ all[a + k] = V[k] /\ V[k] = Quote
    BY <1>3, <1>5, <1>10, <2>1
  <2> QED BY <1>7, <1>8, <2>2
<1>15. RunsOn(Alphabet, U, f, a, done, w)
  <2>1. a + Len(w) <= Len(U)
    BY <1>8, <1>9 DEF z
  <2> QED BY <1>3, <1>8, <1>10, <1>11, <1>12, <1>13, <1>14, <2>1 DEF RunsOn
<1>16. f[a + M] = Append(done, w)
  <2>1. M \in 0 .. M
    BY <1>5
  <2>2. \A x \in 0 .. M : f[a + x] = Append(done, Upto(w, x))
    BY <1>8, <1>15, RunIs
  <2>3. Upto(w, M) = w
    BY <1>8, UptoIs
  <2> QED BY <2>1, <2>2, <2>3
<1>17. Grown(Alphabet, f[z], done, w)
  <2>1. a + M \in 0 .. Len(U)
    BY <1>3, <1>5, <1>6, <1>9 DEF z
  <2> QED BY <1>8, <1>10, <1>11, <1>13, <1>16, <2>1, GrowIs DEF z
<1> QED BY <1>11, <1>17 DEF U, done, w, M

\* How many quotes a text begins with.
LEMMA QuotesBefore ==
  ASSUME NEW s \in Seq(Alphabet)
  PROVE  \E P \in 0 .. Len(s) : /\ \A k \in 1 .. P : s[k] = Quote
                                /\ P < Len(s) => s[P + 1] # Quote
<1> DEFINE n == Len(s)
           T == {p \in 1 .. n + 1 : p = n + 1 \/ s[p] # Quote}
<1>1. n \in Nat
  BY LenProperties
<1> HIDE DEF n
<1>2. T \in SUBSET Nat /\ T # {}
  <2>1. n + 1 \in T
    BY <1>1
  <2> QED BY <2>1
<1>3. PICK p \in T : \A q \in T : p <= q
  <2> HIDE DEF T
  <2> QED BY <1>2, LeastIs
<1>4. /\ p - 1 \in 0 .. n /\ \A k \in 1 .. p - 1 : k \in 1 .. n + 1 /\ k < p
      /\ p - 1 < n => (p - 1) + 1 = p /\ p # n + 1
  BY <1>1, <1>3
<1>5. \A k \in 1 .. p - 1 : s[k] = Quote
  BY <1>3, <1>4
<1>6. p - 1 < n => s[(p - 1) + 1] # Quote
  BY <1>3, <1>4
<1> QED BY <1>4, <1>5, <1>6 DEF n

\* Trimmed, a line keeps the quotes it begins with.
LEMMA TrimQuotes ==
  ASSUME NEW s \in Seq(Alphabet), NEW M \in Nat \ {0}, Begins(s, Quotes(M))
  PROVE  Trim(s) # <<>> /\ Len(Trim(s)) \in Nat /\ M <= Len(Trim(s))
         /\ \A k \in 1 .. M : Trim(s)[k] = Quote
<1>1. Len(Quotes(M)) = M /\ \A k \in 1 .. M : Quotes(M)[k] = Quote
  BY DEF Quotes
<1>2. Len(s) \in Nat /\ M <= Len(s) /\ \A k \in 1 .. M : s[k] = Quote
  BY <1>1, LenProperties DEF Begins
<1>3. 1 \in 1 .. M /\ M \in 1 .. M /\ M \in 1 .. Len(s) /\ Len(s) # 0
  BY <1>2
<1>4. Quote \notin White /\ s # <<>>
  BY <1>3, QuoteIsSolid, EmptySeq
<1>5. s[1] \notin White /\ s[M] \notin White
  BY <1>2, <1>3, <1>4
<1>6. PICK z \in 1 .. Len(s) :
        /\ Len(Trim(s)) = z /\ \A k \in 1 .. z : Trim(s)[k] = s[k]
        /\ \A k \in 1 .. Len(s) : s[k] \notin White => k <= z
  BY <1>4, <1>5, TrimIs
<1>7. M <= z /\ z \in Nat /\ z # 0
  BY <1>2, <1>3, <1>5, <1>6
<1>8. Trim(s) # <<>>
  BY <1>6, <1>7, EmptySeq
<1>9. \A k \in 1 .. M : k \in 1 .. z
  BY <1>7
<1> QED BY <1>2, <1>6, <1>7, <1>8, <1>9

\* The line of a plain name is not empty when it is trimmed.
LEMMA TrimNotEmpty ==
  ASSUME NEW v \in Values, PlainName(v)
  PROVE  Trim(v.chars \o <<CR>>) = v.chars /\ v.chars # <<>>
<1> DEFINE w == v.chars
           n == Len(w)
           last == <<CR>>
           line == w \o last
<1>1. w \in Seq(Others) /\ Listable(w) /\ w # <<>> /\ w \in Seq(Alphabet) /\ n \in Nat
  BY PlainIs DEF PlainName, Solid
<1>2. last \in Seq(Alphabet) /\ Len(last) = 1 /\ last[1] = CR
  BY DEF Alphabet, Special
<1> HIDE DEF last, w
<1>3. line \in Seq(Alphabet) /\ Len(line) = n + 1
      /\ \A j \in 1 .. n + 1 : line[j] = IF j <= n THEN w[j] ELSE last[j - n]
  <2>1. /\ w \o last \in Seq(Alphabet) /\ Len(w \o last) = Len(w) + Len(last)
        /\ \A j \in 1 .. Len(w) + Len(last) :
             (w \o last)[j] = IF j <= Len(w) THEN w[j] ELSE last[j - Len(w)]
    BY <1>1, <1>2, ConcatProperties
  <2> QED BY <1>2, <2>1
<1> HIDE DEF line, n
<1>4. \A j \in 1 .. n + 1 : j > n => ~(j <= n) /\ j - n = 1
  BY <1>1
<1>5. \A j \in 1 .. n : j \in 1 .. n + 1 /\ j <= n
  BY <1>1
<1>6. Begins(line, w)
  BY <1>1, <1>3, <1>5 DEF Begins, n
<1>7. \A j \in 1 .. Len(line) : j > Len(w) => line[j] = CR
  BY <1>2, <1>3, <1>4 DEF n
<1>8. Trim(line) = w
  BY <1>1, <1>3, <1>6, <1>7, TrimPlain
<1> QED BY <1>1, <1>8 DEF line, last, w

\* A name in quotes is not in the list as it is.
LEMMA QuotedList ==
  ASSUME NEW records \in Seq([1 .. 1 -> Values]), NEW r, NEW P \in Nat,
         QuotedAfter(records, r, P),
         P < Len(records[r + 1][1].chars) => records[r + 1][1].chars[P + 1] # Quote,
         TableList(FlattenSeq(Lined(records))) = TableNames(records)
  PROVE  FALSE
<1> DEFINE M == P + P + 1
           w == Quotes(M)
           lines == Lines(ListText(records))
           done == PlainLines(records, r)
           rest == Rest(lines)
           chars == records[r + 1][1].chars
<1>1. /\ r \in Nat \ {0} /\ r < Len(records)
      /\ \A m \in 1 .. r : PlainName(records[m][1])
      /\ \A k \in 1 .. P : chars[k] = Quote
  BY DEF QuotedAfter
<1>2. /\ Len(records) \in Nat /\ r \in Nat /\ r # 0 /\ r \in 0 .. Len(records)
      /\ r \in 1 .. r /\ r + 1 \in 1 .. Len(records)
  <2>1. Len(records) \in Nat
    BY LenProperties
  <2> QED BY <1>1, <2>1
<1>3. \A m \in 1 .. r : records[m][1] \in Values
  <2>1. \A m \in 1 .. r : m \in 1 .. Len(records)
    BY <1>1, <1>2
  <2>2. \A m \in 1 .. r : records[m] \in [1 .. 1 -> Values]
    BY <2>1, ElementOfSeq
  <2> QED BY <2>2
<1>4. chars \in Seq(Alphabet) /\ Len(chars) \in Nat
  <2>1. records[r + 1] \in [1 .. 1 -> Values]
    BY <1>2, ElementOfSeq
  <2>2. records[r + 1][1] \in Values
    BY <2>1
  <2> QED BY <2>2, WriteValueIs, LenProperties
<1>5. Grown(Alphabet, lines, done, w)
  BY QuotedLine
<1>6. /\ done \in Seq(Seq(Alphabet)) /\ Len(done) = r
      /\ \A m \in 1 .. r : done[m] = records[m][1].chars \o <<CR>>
  BY <1>1, <1>2, PlainLinesIs
<1> HIDE DEF done, lines, w
<1>7. /\ lines \in Seq(Seq(Alphabet)) /\ Len(lines) \in Nat /\ Len(lines) > r
      /\ \A m \in 1 .. r : lines[m] = done[m]
      /\ Begins(lines[r + 1], w)
  BY <1>5, <1>6 DEF Grown
<1>8. PICK K \in Nat : Len(lines) = K + 1
  <2>1. Len(lines) - 1 \in Nat /\ Len(lines) = (Len(lines) - 1) + 1
    BY <1>2, <1>7
  <2> QED BY <2>1
<1>9. /\ rest \in Seq(Seq(Alphabet)) /\ Len(rest) = K
      /\ \A k \in 1 .. K : rest[k] = Trim(lines[k + 1])
  BY <1>7, <1>8, RestIs
<1>10. r \in 0 .. K /\ \A m \in 1 .. r : m \in 1 .. K
  BY <1>2, <1>7, <1>8
<1> HIDE DEF rest
<1>11. /\ rest[r] # <<>> /\ Len(rest[r]) \in Nat /\ M <= Len(rest[r])
       /\ \A k \in 1 .. M : rest[r][k] = Quote
  <2>1. rest[r] = Trim(lines[r + 1])
    BY <1>2, <1>9, <1>10
  <2>2. lines[r + 1] \in Seq(Alphabet)
    <3>1. r + 1 \in 1 .. Len(lines)
      BY <1>2, <1>7
    <3> QED BY <1>7, <3>1, ElementOfSeq
  <2>3. M \in Nat \ {0}
    OBVIOUS
  <2>4. Begins(lines[r + 1], Quotes(M))
    BY <1>7 DEF w
  <2> HIDE DEF M
  <2> QED BY <2>1, <2>2, <2>3, <2>4, TrimQuotes
<1>12. ASSUME NEW m \in 1 .. r PROVE rest[m] # <<>>
  <2>1. CASE m = r
    BY <1>11, <2>1
  <2>2. CASE m # r
    <3>1. m + 1 \in 1 .. r
      BY <1>2, <2>2
    <3>2. rest[m] = Trim(records[m + 1][1].chars \o <<CR>>)
      BY <1>6, <1>7, <1>9, <1>10, <3>1
    <3>3. records[m + 1][1] \in Values /\ PlainName(records[m + 1][1])
      BY <1>1, <1>3, <3>1
    <3> QED BY <3>2, <3>3, TrimNotEmpty
  <2> QED BY <2>1, <2>2
<1>13. Filled(rest) = TableNames(records)
  BY DEF TableList, Rest, ListText, rest, lines
<1>14. /\ \A p \in 1 .. Len(Filled(rest)) : Filled(rest)[p] # <<>>
       /\ Len(Filled(rest)) >= r /\ \A m \in 1 .. r : Filled(rest)[m] = rest[m]
  BY <1>9, <1>10, <1>12, FilledIs
<1>15. TableNames(records)[r] = chars
  <2>1. Len(records) - 1 \in Nat /\ Len(records) = (Len(records) - 1) + 1
        /\ r \in 1 .. Len(records) - 1
    BY <1>1, <1>2
  <2> QED BY <2>1, TableNamesIs
<1>16. rest[r] = chars
  BY <1>2, <1>13, <1>14, <1>15
<1>17. P + 1 \in 1 .. M /\ \A n \in Nat : M <= n => P < n
  OBVIOUS
<1> HIDE DEF M, chars
<1>18. P < Len(chars) /\ chars[P + 1] = Quote
  BY <1>11, <1>16, <1>17
<1> QED BY <1>18 DEF chars

\* No name in the list is empty, or begins or ends with white space.
LEMMA ListSolid ==
  ASSUME NEW records \in Seq([1 .. 1 -> Values]), records # <<>>, PlainName(records[1][1])
  PROVE  LET list == TableList(FlattenSeq(Lined(records)))
         IN  \A p \in 1 .. Len(list) : Solid(list[p])
<1> DEFINE U == ListText(records)
           lines == Lines(U)
           rest == Rest(lines)
           none == <<>>
<1>1. U \in Seq(Alphabet) /\ Len(U) \in Nat
  BY ListTextIs DEF PrefixOfAll
<1>2. PICK f : lines = f[Len(U)] /\ Opens(f, U)
  BY <1>1, LinesChooses
<1>3. none \in Seq(Seq(Alphabet)) /\ none \in Seq(Alphabet) /\ Len(none) = 0
      /\ Append(none, none) = << <<>> >>
  OBVIOUS
<1>4. f[0] = Append(none, none) /\ 0 \in 0 .. Len(U)
  BY <1>1, <1>2, <1>3, OpensAt
<1> HIDE DEF U, lines, none, rest
<1>5. Grown(Alphabet, lines, none, none)
  BY <1>1, <1>2, <1>3, <1>4, GrowIs
<1>6. lines \in Seq(Seq(Alphabet)) /\ Len(lines) \in Nat /\ Len(lines) > 0
  BY <1>3, <1>5 DEF Grown
<1>7. PICK K \in Nat : Len(lines) = K + 1
  <2>1. Len(lines) - 1 \in Nat /\ Len(lines) = (Len(lines) - 1) + 1
    BY <1>6
  <2> QED BY <2>1
<1>8. /\ rest \in Seq(Seq(Alphabet)) /\ Len(rest) = K
      /\ \A k \in 1 .. K : rest[k] = Trim(lines[k + 1])
  BY <1>6, <1>7, RestIs DEF rest
<1>9. TableList(FlattenSeq(Lined(records))) = Filled(rest)
  BY DEF TableList, Rest, ListText, rest, lines, U
<1>10. ASSUME NEW k \in 1 .. K, rest[k] # <<>> PROVE Solid(rest[k])
  <2>1. k + 1 \in 1 .. Len(lines)
    BY <1>7
  <2>2. lines[k + 1] \in Seq(Alphabet)
    BY <1>6, <2>1, ElementOfSeq
  <2> QED BY <1>8, <1>10, <2>2, TrimIs
<1>11. \A p \in 1 .. Len(Filled(rest)) :
         Filled(rest)[p] # <<>> /\ \E m \in 1 .. Len(rest) : Filled(rest)[p] = rest[m]
  BY <1>8, FilledIs
<1>12. \A p \in 1 .. Len(Filled(rest)) : Solid(Filled(rest)[p])
  BY <1>8, <1>10, <1>11
<1> QED BY <1>9, <1>12

\* A list is as it should be only if every name is plain.
LEMMA OnlyPlainList ==
  ASSUME NEW records \in Seq([1 .. 1 -> Values]), NEW K \in Nat, Len(records) = K + 1,
         PlainName(records[1][1]),
         TableList(FlattenSeq(Lined(records))) = TableNames(records)
  PROVE  \A m \in 1 .. K + 1 : PlainName(records[m][1])
<1> DEFINE Bad == {m \in 1 .. K + 1 : ~PlainName(records[m][1])}
<1> SUFFICES ASSUME Bad # {} PROVE FALSE
  OBVIOUS
<1>1. PICK b \in Bad : \A m \in Bad : b <= m
  <2>1. Bad \in SUBSET Nat
    OBVIOUS
  <2> HIDE DEF Bad
  <2> QED BY <2>1, LeastIs
<1>2. b \in 1 .. K + 1 /\ b # 1 /\ ~PlainName(records[b][1])
  BY <1>1
<1>3. PICK r \in Nat \ {0} : r + 1 = b
  <2>1. b - 1 \in Nat \ {0} /\ (b - 1) + 1 = b
    BY <1>2
  <2> QED BY <2>1
<1>4. r \in 1 .. K /\ r < Len(records) /\ \A m \in 1 .. r : m \in 1 .. K + 1 /\ ~(b <= m)
  BY <1>2, <1>3
<1>5. \A m \in 1 .. r : PlainName(records[m][1])
  BY <1>1, <1>4
<1> DEFINE v == records[r + 1][1]
           names == TableNames(records)
<1>6. ~PlainName(v)
  BY <1>2, <1>3
<1>7. v \in Values /\ names[r] = v.chars /\ Len(names) = K
  BY <1>4, TableNamesIs
<1>8. Solid(v.chars)
  <2>1. records # <<>>
    <3>1. K + 1 # 0
      OBVIOUS
    <3> QED BY <3>1, EmptySeq
  <2>2. \A p \in 1 .. Len(names) : Solid(names[p])
    <3> HIDE DEF names
    <3> QED BY <2>1, ListSolid DEF names
  <2> HIDE DEF names
  <2> QED BY <1>4, <1>7, <2>2
<1>9. v.chars \in Seq(Alphabet) /\ Len(v.chars) \in Nat
  BY <1>7, WriteValueIs, LenProperties
<1>10. PICK P \in 0 .. Len(v.chars) : /\ \A k \in 1 .. P : v.chars[k] = Quote
                                      /\ P < Len(v.chars) => v.chars[P + 1] # Quote
  BY <1>9, QuotesBefore
<1>11. P \in Nat
  BY <1>9
<1>12. Quoted(v)
  BY <1>6, <1>7, <1>8, QuotedUnlessPlain
<1>13. QuotedAfter(records, r, P)
  BY <1>3, <1>4, <1>5, <1>10, <1>12 DEF QuotedAfter
<1> HIDE DEF Bad, names
<1>14. P < Len(records[r + 1][1].chars) => records[r + 1][1].chars[P + 1] # Quote
  BY <1>10
<1> QED BY <1>11, <1>13, <1>14, QuotedList

\* loadTables takes the names from the lines as they are if and only if no name is
\* empty, needs quotes, or begins or ends with white space, for any names and any
\* number of them; what HTML makes of a name is not part of it (index.html,
\* loadTables, against csv.rs, write_escaped_field).
THEOREM TableShows == Spec => []TableListIsExact
<1>1. IInv => TableListIsExact
  <2> DEFINE names == [k \in 1 .. Len(result) - 1 |-> result[k + 1][1].chars]
             AllPlain == \A k \in DOMAIN names : Listable(names[k])
  <2> SUFFICES ASSUME IInv, stage = "shown", columns = 1, PlainName(result[1][1])
               PROVE  TableList(text) = names <=> AllPlain
    BY DEF TableListIsExact, PlainName
  <2>1. /\ result \in Seq([1 .. 1 -> Values]) /\ result # <<>>
        /\ text = FlattenSeq(Lined(result))
    BY DEF IInv, Written, Width
  <2>2. PICK K \in Nat : Len(result) = K + 1
    <3>1. Len(result) \in Nat /\ Len(result) # 0
      BY <2>1, LenProperties, EmptySeq
    <3>2. Len(result) - 1 \in Nat /\ Len(result) = (Len(result) - 1) + 1
      BY <3>1
    <3> QED BY <3>2
  <2>3. names = TableNames(result)
    BY DEF TableNames
  <2> HIDE DEF names
  <2>4. DOMAIN names = 1 .. K /\ \A k \in 1 .. K : names[k] = result[k + 1][1].chars
    BY <2>1, <2>2, <2>3, TableNamesIs
  <2>5. AllPlain <=> \A k \in 1 .. K : PlainName(result[k + 1][1])
    BY <2>4 DEF PlainName
  <2>6. AllPlain <=> \A m \in 1 .. K + 1 : PlainName(result[m][1])
    <3>1. \A m \in 1 .. K + 1 : m = 1 \/ (m - 1 \in 1 .. K /\ (m - 1) + 1 = m)
      OBVIOUS
    <3>2. \A k \in 1 .. K : k + 1 \in 1 .. K + 1
      OBVIOUS
    <3> HIDE DEF AllPlain
    <3> QED BY <2>5, <3>1, <3>2
  <2> HIDE DEF AllPlain
  <2>7. ASSUME AllPlain PROVE TableList(text) = names
    BY <2>1, <2>2, <2>3, <2>6, <2>7, PlainList
  <2>8. ASSUME TableList(text) = names PROVE AllPlain
    <3>1. TableList(FlattenSeq(Lined(result))) = TableNames(result)
      BY <2>1, <2>3, <2>8
    <3> QED BY <2>1, <2>2, <2>6, <3>1, OnlyPlainList
  <2> QED BY <2>7, <2>8
<1> QED BY <1>1, Invariant, PTL

--------------------------------------------------------------------------------
(* A column of a Parquet result: values and their cells.                   *)

\* What a value can be.
LEMMA ColumnValueIs ==
  ASSUME NEW v \in SqlValues
  PROVE  \/ v = Null /\ v.class = "null" /\ v.form = "null"
         \/ /\ v # Null
            /\ \/ v.class = "integer" /\ v.form \in {"bit", "small", "large"}
               \/ v.class = "real" /\ v.form \in {"whole", "fraction", "fine", "long", "huge"}
               \/ /\ v.class = "text"
                  /\ v.form \in {"bit", "small", "large", "decimal", "padded", "truth",
                                  "infinite", "prefix", "word", "invalid"}
               \/ v.class = "blob" /\ v.form \in {"utf8", "binary"}
<1>1. Null.class = "null" /\ Null.form = "null"
  BY DEF Null
<1> QED BY <1>1 DEF SqlValues

\* Every value has a cell in every column, which is NULL for NULL alone.
LEMMA RawCellIs ==
  ASSUME NEW t \in Types, NEW v \in SqlValues
  PROVE  RawCell(t, v) \in Cells /\ (RawCell(t, v) = "null" <=> v = Null)
<1>1. CASE v = Null
  BY <1>1 DEF RawCell, Cells
<1>2. CASE v # Null
  <2>1. ColumnInt64(v) \in Cells \ {"null"}
    BY <1>2, ColumnValueIs DEF ColumnInt64, Cells, Wordy
  <2>2. ColumnDouble(v) \in Cells \ {"null"}
    BY <1>2, ColumnValueIs DEF ColumnDouble, Cells, Wordy
  <2>3. ColumnTruth(v) \in Cells \ {"null"}
    BY <1>2, <2>1, ColumnValueIs DEF ColumnTruth, Cells, Wordy
  <2>4. ColumnText(v) \in Cells \ {"null"}
    BY DEF ColumnText, ColumnBlob, Cells
  <2>5. ColumnBlob(v) \in Cells \ {"null"}
    BY DEF ColumnBlob, Cells
  <2> QED BY <1>2, <2>1, <2>2, <2>3, <2>4, <2>5 DEF RawCell, Types
<1> QED BY <1>1, <1>2

\* What each type of column keeps of a number.
LEMMA NumberCellIs ==
  ASSUME NEW v \in SqlValues, v.class \in {"integer", "real"}
  PROVE  /\ v.class = "integer" => RawCell("Int64", v) = "kept"
         /\ v.class = "real" => RawCell("Float64", v) = "kept"
         /\ RawCell("Float64", v) = "kept" \/ v.form = "large"
         /\ RawCell("Boolean", v) = "kept" \/ v.form # "bit"
         /\ RawCell("Utf8", v) = "kept" \/ v.form \in Respelled
         /\ RawCell("Binary", v) = "kept" \/ v.form \in Respelled
<1>1. /\ v # Null
      /\ v.form \notin {"invalid", "binary"}
      /\ v.class = "integer" => v.form \in {"bit", "small", "large"}
      /\ v.class = "real" => v.form \in {"whole", "fraction", "fine", "long", "huge"}
      /\ v.class \in {"integer", "real"}
  BY ColumnValueIs
<1>2. v.class = "integer" => RawCell("Int64", v) = "kept"
  BY <1>1 DEF RawCell, ColumnInt64, Wordy
<1>3. v.class = "real" => RawCell("Float64", v) = "kept"
  BY <1>1 DEF RawCell, ColumnDouble, Wordy
<1>4. RawCell("Float64", v) = "kept" \/ v.form = "large"
  BY <1>1 DEF RawCell, ColumnDouble, Wordy
<1>5. RawCell("Boolean", v) = "kept" \/ v.form # "bit"
  BY <1>1 DEF RawCell, ColumnTruth, Wordy
<1>6. ColumnBlob(v) = "kept" \/ v.form \in Respelled
  BY DEF ColumnBlob
<1>7. RawCell("Utf8", v) = "kept" \/ v.form \in Respelled
  BY <1>1, <1>6 DEF RawCell, ColumnText
<1>8. RawCell("Binary", v) = "kept" \/ v.form \in Respelled
  BY <1>1, <1>6 DEF RawCell
<1> QED BY <1>2, <1>3, <1>4, <1>5, <1>7, <1>8

\* What each type of column keeps of a text or a blob.
LEMMA TextCellIs ==
  ASSUME NEW v \in SqlValues, v.class \in {"text", "blob"}
  PROVE  /\ RawCell("Binary", v) = "kept"
         /\ RawCell("Utf8", v) = "kept" \/ v.form \in {"invalid", "binary"}
<1>1. v # Null /\ v.form \notin Respelled
  BY ColumnValueIs DEF Respelled
<1>2. ColumnBlob(v) = "kept"
  BY <1>1 DEF ColumnBlob
<1>3. RawCell("Binary", v) = "kept"
  BY <1>1, <1>2 DEF RawCell
<1>4. RawCell("Utf8", v) = "kept" \/ v.form \in {"invalid", "binary"}
  BY <1>1, <1>2 DEF RawCell, ColumnText
<1> QED BY <1>3, <1>4

\* Every declaration and every first row have a type.
LEMMA InferTypeIs ==
  ASSUME NEW d \in Declarations, NEW sample, sample # <<>> => sample[1] \in SqlValues
  PROVE  InferType(d, sample) \in Types
<1>1. InferArrowType(d) \in Types
  BY DEF InferArrowType, Types
<1>2. ASSUME NEW v \in SqlValues PROVE SampleDataType(v) \in Types
  BY ColumnValueIs DEF SampleDataType, Types
<1>3. "Utf8" \in Types
  BY DEF Types
<1> QED BY <1>1, <1>2, <1>3 DEF InferType

--------------------------------------------------------------------------------
(* The loop.                                                               *)

ColumnTypes ==
  /\ pc \in {"start", "append", "step", "end", "done"}
  /\ declared \in Declarations
  /\ fetched \in Seq(SqlValues)
  /\ builder \in Seq(Cells) /\ batches \in Seq(Seq(Cells))

\* The type is inferred once, from the declaration and the first row.
TypeInferred ==
  /\ pc = "start" => fetched = <<>>
  /\ pc \in {"append", "step"} => fetched # <<>>
  /\ pc # "start" =>
       type = InferType(declared, IF fetched = <<>> THEN <<>> ELSE <<fetched[1]>>)

CellsPlaced ==
  /\ count = Len(builder)
  /\ Column \in Seq(Cells)
  /\ Len(Column) = Len(fetched) - (IF pc = "append" THEN 1 ELSE 0)
  /\ \A k \in 1 .. Len(Column) : Column[k] = RawCell(type, fetched[k])

ColumnInv == ColumnTypes /\ TypeInferred /\ CellsPlaced

\* A batch that is sent holds what it held in the accumulator.
LEMMA SendKeepsColumn ==
  ASSUME batches \in Seq(Seq(Cells)), NEW cells \in Seq(Cells),
         FinishBatch(cells)
  PROVE  /\ Column' = FlattenSeq(batches) \o cells
         /\ batches' \in Seq(Seq(Cells)) /\ builder' = <<>> /\ count' = Len(builder')
<1>1. batches' = Append(batches, cells) /\ builder' = <<>> /\ count' = 0
  BY DEF FinishBatch
<1>2. /\ FlattenSeq(batches) \in Seq(Cells)
      /\ FlattenSeq(batches') = FlattenSeq(batches) \o cells
  BY <1>1, FlattenAppend
<1>3. FlattenSeq(batches) \o cells \in Seq(Cells)
  BY <1>2, ConcatProperties
<1>4. Column' = (FlattenSeq(batches) \o cells) \o <<>>
  BY <1>1, <1>2 DEF Column
<1>5. (FlattenSeq(batches) \o cells) \o <<>> = FlattenSeq(batches) \o cells
  BY <1>3, ConcatEmptySeq
<1>6. batches' \in Seq(Seq(Cells)) /\ Len(<<>>) = 0
  BY <1>1, AppendProperties, EmptySeq
<1> QED BY <1>1, <1>4, <1>5, <1>6

\* A cell at the end of the appender is at the end of the column.
LEMMA AppendKeepsColumn ==
  ASSUME batches \in Seq(Seq(Cells)), builder \in Seq(Cells), NEW x \in Cells
  PROVE  FlattenSeq(batches) \o Append(builder, x) = Append(Column, x)
<1>1. FlattenSeq(batches) \in Seq(Cells)
  <2>1. <<>> \in Seq(Cells)
    BY EmptySeq
  <2> QED BY <2>1, FlattenAppend
<1>2. <<x>> \in Seq(Cells)
  OBVIOUS
<1>3. Append(builder, x) = builder \o <<x>>
  BY AppendIsConcat
<1>4. Column \in Seq(Cells)
  BY <1>1, ConcatProperties DEF Column
<1>5. Append(Column, x) = Column \o <<x>>
  BY <1>4, AppendIsConcat
<1>6. FlattenSeq(batches) \o (builder \o <<x>>) = (FlattenSeq(batches) \o builder) \o <<x>>
  BY <1>1, <1>2, ConcatAssociative
<1> QED BY <1>3, <1>5, <1>6 DEF Column

\* The invariant holds at the start.
LEMMA InitColumnInv == ColumnInit => ColumnInv
<1> SUFFICES ASSUME ColumnInit PROVE ColumnInv
  OBVIOUS
<1>1. /\ <<>> \in Seq(SqlValues) /\ <<>> \in Seq(Cells)
      /\ <<>> \in Seq(Seq(Cells)) /\ Len(<<>>) = 0
  BY EmptySeq
<1>2. Column = <<>>
  <2>1. FlattenSeq(<<>>) = <<>>
    BY <1>1 DEF FlattenSeq
  <2>2. <<>> \o <<>> = <<>>
    BY <1>1, ConcatEmptySeq
  <2> QED BY <2>1, <2>2 DEF ColumnInit, Column
<1>3. ColumnTypes /\ TypeInferred
  BY <1>1 DEF ColumnInit, ColumnTypes, TypeInferred
<1>4. CellsPlaced
  BY <1>1, <1>2 DEF ColumnInit, CellsPlaced
<1> QED BY <1>3, <1>4 DEF ColumnInv

\* Every step keeps the invariant.
LEMMA StepColumnInv == ColumnInv /\ [ColumnNext]_columnVars => ColumnInv'
<1> SUFFICES ASSUME ColumnInv, [ColumnNext]_columnVars PROVE ColumnInv'
  OBVIOUS
<1> USE DEF ColumnInv
<1>0. /\ fetched \in Seq(SqlValues) /\ builder \in Seq(Cells)
      /\ batches \in Seq(Seq(Cells))
      /\ Len(fetched) \in Nat /\ Column \in Seq(Cells) /\ Len(Column) \in Nat
      /\ declared \in Declarations
  BY LenProperties DEF ColumnTypes, CellsPlaced
<1>1. ASSUME FirstStep PROVE ColumnInv'
  <2>1. /\ pc = "start" /\ fetched = <<>> /\ UNCHANGED <<declared, builder, count, batches>>
        /\ type' = InferType(declared, fetched')
    BY <1>1 DEF FirstStep, TypeInferred
  <2>2. \/ /\ pc' = "append" /\ fetched' # <<>> /\ fetched' \in Seq(SqlValues)
           /\ fetched' = <<fetched'[1]>> /\ Len(fetched') = 1
        \/ pc' = "end" /\ fetched' = <<>>
    <3>1. ASSUME NEW v \in SqlValues, fetched' = <<v>>
          PROVE  /\ fetched' # <<>> /\ fetched' \in Seq(SqlValues)
                 /\ fetched' = <<fetched'[1]>> /\ Len(fetched') = 1
      <4>1. <<v>> \in Seq(SqlValues) /\ <<v>>[1] = v /\ Len(<<v>>) = 1 /\ <<v>> # <<>>
        OBVIOUS
      <4> QED BY <3>1, <4>1
    <3> QED BY <1>1, <2>1, <3>1 DEF FirstStep
  <2>3. ColumnTypes'
    BY <1>0, <2>1, <2>2 DEF ColumnTypes
  <2>4. TypeInferred'
    BY <2>1, <2>2 DEF TypeInferred
  <2>5. Len(fetched) = 0 /\ Len(Column) = 0
    <3>1. Len(fetched) = 0
      BY <2>1
    <3> QED BY <1>0, <2>1, <3>1 DEF CellsPlaced
  <2>6. Column' = Column
    BY <2>1 DEF Column
  <2>7. CellsPlaced'
    <3>1. count' = Len(builder') /\ Column' \in Seq(Cells) /\ Len(Column') = 0
      BY <2>1, <2>5, <2>6 DEF CellsPlaced
    <3>2. Len(fetched') - (IF pc' = "append" THEN 1 ELSE 0) = 0
      BY <2>2
    <3>3. \A k \in 1 .. Len(Column') :
               Column'[k] = RawCell(type', fetched'[k])
      BY <3>1
    <3> QED BY <3>1, <3>2, <3>3 DEF CellsPlaced
  <2> QED BY <2>3, <2>4, <2>7
<1>2. ASSUME AppendRow PROVE ColumnInv'
  <2> DEFINE cell == RawCell(type, Last(fetched))
             cells == Append(builder, cell)
  <2>1. pc = "append" /\ pc' = "step" /\ UNCHANGED <<declared, fetched, type>>
    BY <1>2 DEF AppendRow
  <2>2. /\ fetched # <<>> /\ Len(fetched) \in Nat \ {0}
        /\ Last(fetched) = fetched[Len(fetched)]
    BY <1>0, <2>1, EmptySeq DEF TypeInferred, Last
  <2>3. cell \in Cells
    <3>1. fetched[Len(fetched)] \in SqlValues /\ fetched[1] \in SqlValues
      BY <1>0, <2>2, ElementOfSeq
    <3>2. type \in Types
      BY <1>0, <2>1, <2>2, <3>1, InferTypeIs DEF TypeInferred
    <3> QED BY <2>2, <3>1, <3>2, RawCellIs
  <2>4. cell = RawCell(type, fetched[Len(fetched)])
    BY <2>2
  <2>5. \/ FinishBatch(cells)
        \/ builder' = cells /\ count' = count + 1 /\ UNCHANGED batches
    BY <1>2 DEF AppendRow
  <2> HIDE DEF cell
  <2>6. cells \in Seq(Cells) /\ Len(cells) = Len(builder) + 1
    BY <1>0, <2>3, AppendProperties
  <2>7. FlattenSeq(batches) \o cells = Append(Column, cell)
    BY <1>0, <2>3, AppendKeepsColumn
  <2>8. Column' = Append(Column, cell) /\ builder' \in Seq(Cells)
        /\ batches' \in Seq(Seq(Cells)) /\ count' = Len(builder')
    <3>1. CASE FinishBatch(cells)
      <4>1. <<>> \in Seq(Cells)
        BY EmptySeq
      <4> HIDE DEF cells
      <4> QED BY <1>0, <2>6, <2>7, <3>1, <4>1, SendKeepsColumn
    <3>2. CASE builder' = cells /\ count' = count + 1 /\ UNCHANGED batches
      BY <1>0, <2>6, <2>7, <3>2 DEF Column, CellsPlaced
    <3> QED BY <2>5, <3>1, <3>2
  <2>9. /\ Column' \in Seq(Cells) /\ Len(Column') = Len(Column) + 1
        /\ \A k \in 1 .. Len(Column) : Column'[k] = Column[k]
        /\ Column'[Len(Column) + 1] = cell
    BY <1>0, <2>3, <2>8, AppendProperties
  <2>10. Len(Column) = Len(fetched) - 1
    BY <2>1 DEF CellsPlaced
  <2>11. ColumnTypes'
    BY <1>0, <2>1, <2>8 DEF ColumnTypes
  <2>12. TypeInferred'
    BY <2>1 DEF TypeInferred
  <2>13. ASSUME NEW k \in 1 .. Len(Column')
         PROVE Column'[k] = RawCell(type, fetched[k])
    <3>1. k \in 1 .. Len(Column) \/ (k = Len(Column) + 1 /\ k = Len(fetched))
      BY <1>0, <2>9, <2>10
    <3>2. CASE k \in 1 .. Len(Column)
      BY <2>9, <3>2 DEF CellsPlaced
    <3>3. CASE k = Len(Column) + 1 /\ k = Len(fetched)
      BY <2>4, <2>9, <3>3
    <3> QED BY <3>1, <3>2, <3>3
  <2>14. Len(Column') = Len(fetched) - 0
    BY <1>0, <2>9, <2>10
  <2>15. CellsPlaced'
    BY <2>1, <2>8, <2>9, <2>13, <2>14 DEF CellsPlaced
  <2> QED BY <2>11, <2>12, <2>15
<1>3. ASSUME Step PROVE ColumnInv'
  <2>1. pc = "step" /\ fetched # <<>> /\ UNCHANGED <<declared, type, builder, count, batches>>
    BY <1>3 DEF Step, TypeInferred
  <2>2. Column' = Column
    BY <2>1 DEF Column
  <2>3. Len(Column) = Len(fetched)
    BY <1>0, <2>1 DEF CellsPlaced
  <2>4. CASE pc' = "end" /\ UNCHANGED fetched
    BY <1>0, <2>1, <2>2, <2>3, <2>4 DEF ColumnTypes, TypeInferred, CellsPlaced
  <2>5. ASSUME NEW v \in SqlValues, pc' = "append", fetched' = Append(fetched, v)
        PROVE ColumnInv'
    <3>1. /\ fetched' \in Seq(SqlValues) /\ Len(fetched') = Len(fetched) + 1
          /\ \A k \in 1 .. Len(fetched) : fetched'[k] = fetched[k]
          /\ fetched' # <<>>
      BY <1>0, <2>5, AppendProperties
    <3>2. fetched'[1] = fetched[1]
      BY <1>0, <2>1, <3>1, EmptySeq
    <3>3. ColumnTypes'
      BY <1>0, <2>1, <2>5, <3>1 DEF ColumnTypes
    <3>4. TypeInferred'
      BY <2>1, <2>5, <3>1, <3>2 DEF TypeInferred
    <3>5. Len(Column') = Len(fetched') - 1
      BY <1>0, <2>2, <2>3, <3>1
    <3>6. \A k \in 1 .. Len(Column') :
               Column'[k] = RawCell(type', fetched'[k])
      BY <2>1, <2>2, <2>3, <3>1 DEF CellsPlaced
    <3>7. CellsPlaced'
      BY <2>1, <2>2, <2>5, <3>5, <3>6 DEF CellsPlaced
    <3> QED BY <3>3, <3>4, <3>7
  <2> QED BY <1>3, <2>4, <2>5 DEF Step
<1>4. ASSUME LastBatch PROVE ColumnInv'
  <2>1. pc = "end" /\ pc' = "done" /\ UNCHANGED <<declared, fetched, type>>
    BY <1>4 DEF LastBatch
  <2>2. \/ FinishBatch(builder)
        \/ UNCHANGED <<builder, count, batches>>
    BY <1>4 DEF LastBatch
  <2>3. /\ Column' = Column /\ builder' \in Seq(Cells)
        /\ batches' \in Seq(Seq(Cells)) /\ count' = Len(builder')
    <3>1. CASE FinishBatch(builder)
      <4>1. <<>> \in Seq(Cells)
        BY EmptySeq
      <4> QED BY <1>0, <3>1, <4>1, SendKeepsColumn DEF Column
    <3>2. CASE UNCHANGED <<builder, count, batches>>
      BY <1>0, <3>2 DEF Column, CellsPlaced
    <3> QED BY <2>2, <3>1, <3>2
  <2> QED BY <1>0, <2>1, <2>3 DEF ColumnTypes, TypeInferred, CellsPlaced
<1>5. ASSUME UNCHANGED columnVars PROVE ColumnInv'
  <2>1. Column' = Column
    BY <1>5 DEF columnVars, Column
  <2> QED BY <1>5, <2>1 DEF columnVars, ColumnTypes, TypeInferred, CellsPlaced
<1> QED BY <1>1, <1>2, <1>3, <1>4, <1>5 DEF ColumnNext, ColumnDone

\* The invariant, for the theorems.
LEMMA ColumnInvariant == ColumnSpec => []ColumnInv
BY InitColumnInv, StepColumnInv, PTL DEF ColumnSpec

\* A cell of the column, its value and the type.
LEMMA CellOf ==
  ASSUME ColumnInv, NEW k \in DOMAIN Column
  PROVE  /\ fetched[k] \in SqlValues /\ fetched[1] \in SqlValues
         /\ type \in Types /\ type = InferType(declared, <<fetched[1]>>)
         /\ declared \in Declarations
         /\ Column[k] = RawCell(type, fetched[k])
<1>1. /\ Column \in Seq(Cells) /\ Len(Column) \in Nat
      /\ k \in 1 .. Len(Column)
      /\ fetched \in Seq(SqlValues) /\ Len(fetched) \in Nat
  BY LenProperties DEF ColumnInv, CellsPlaced, ColumnTypes
<1>2. k \in 1 .. Len(fetched) /\ 1 \in 1 .. Len(fetched)
  BY <1>1 DEF ColumnInv, CellsPlaced
<1>3. fetched[k] \in SqlValues /\ fetched[1] \in SqlValues
  BY <1>1, <1>2, ElementOfSeq
<1>4. fetched # <<>> /\ pc # "start"
  BY <1>1, <1>2, EmptySeq DEF ColumnInv, TypeInferred
<1>5. type = InferType(declared, <<fetched[1]>>) /\ declared \in Declarations
  BY <1>4 DEF ColumnInv, TypeInferred, ColumnTypes
<1>6. type \in Types
  BY <1>3, <1>5, InferTypeIs
<1> QED BY <1>1, <1>3, <1>5, <1>6 DEF ColumnInv, CellsPlaced

\* Each row has its cell at its place over the batches, and is NULL there if and
\* only if its value is (parquet_format.rs, append_raw_row, finish_batch).
THEOREM EveryRow == ColumnSpec => []RowsKeepTheirPlace
<1>1. ColumnInv => RowsKeepTheirPlace
  <2> SUFFICES ASSUME ColumnInv PROVE RowsKeepTheirPlace
    OBVIOUS
  <2>1. ASSUME NEW k \in DOMAIN Column
        PROVE  /\ Column[k] = "null" <=> fetched[k] = Null
               /\ Column[k] = RawCell(type, fetched[k])
    BY CellOf, RawCellIs
  <2> QED BY <2>1 DEF RowsKeepTheirPlace, ColumnInv, CellsPlaced
<1> QED BY <1>1, ColumnInvariant, PTL

\* A value of the class that SQLite favours for an unambiguous declaration is
\* kept, with the exceptions the property names (parquet_format.rs,
\* infer_arrow_type).
THEOREM DeclaredColumn == ColumnSpec => []DeclaredTypeKeeps
<1>1. ColumnInv => DeclaredTypeKeeps
  <2> SUFFICES ASSUME ColumnInv, declared # Undeclared, Unambiguous(declared),
                      NEW k \in DOMAIN Column, fetched[k].class \in Favoured(declared)
               PROVE  \/ Column[k] = "kept"
                      \/ type = "Float64" /\ fetched[k].form = "large"
                      \/ type = "Boolean" /\ fetched[k].form # "bit"
                      \/ fetched[k].form = "invalid"
                      \/ type \in {"Utf8", "Binary"} /\ fetched[k].form \in Respelled
    BY DEF DeclaredTypeKeeps
  <2>1. /\ fetched[k] \in SqlValues
        /\ type = InferArrowType(declared) /\ Column[k] = RawCell(type, fetched[k])
    BY CellOf DEF InferType
  <2> DEFINE v == fetched[k]
             d == declared
  <2>2. v # Null
    BY <2>1, ColumnValueIs DEF Favoured
  <2>3. CASE "INT" \in d
    <3>1. type = "Int64" /\ v.class = "integer"
      BY <2>1, <2>3 DEF InferArrowType, Favoured
    <3> QED BY <2>1, <3>1, NumberCellIs
  <2>4. CASE "INT" \notin d
    <3>1. CASE d \subseteq {"REAL", "FLOA", "DOUB", "NUM", "DEC"}
      <4>1. v.class \in {"integer", "real"}
        BY <2>4, <3>1 DEF Favoured
      <4>2. type \in {"Float64", "Utf8"}
        BY <2>1, <2>4, <3>1 DEF InferArrowType
      <4> QED BY <2>1, <4>1, <4>2, NumberCellIs
    <3>2. CASE d \subseteq {"BOOL"}
      <4>1. v.class \in {"integer", "real"}
        BY <2>4, <3>2 DEF Favoured
      <4>2. type \in {"Boolean", "Utf8"}
        BY <2>1, <2>4, <3>2 DEF InferArrowType
      <4> QED BY <2>1, <4>1, <4>2, NumberCellIs
    <3>3. CASE d \subseteq {"BLOB", "BINARY"}
      <4>1. type = "Binary" \/ d = {}
        BY <2>1, <2>4, <3>3 DEF InferArrowType
      <4>2. v.class \in {"integer", "real", "text", "blob"}
        BY <2>1, <2>2, ColumnValueIs
      <4> QED BY <2>1, <3>1, <4>1, <4>2, NumberCellIs, TextCellIs
    <3>4. CASE d \subseteq {"CHAR", "CLOB", "TEXT"}
      <4>1. type = "Utf8"
        BY <2>1, <2>4, <3>4 DEF InferArrowType
      <4>2. v.class = "text" \/ d = {}
        BY <2>4, <3>4 DEF Favoured
      <4>3. v.class = "text" => v.form # "binary"
        BY <2>1, ColumnValueIs
      <4> QED BY <2>1, <3>1, <4>1, <4>2, <4>3, TextCellIs
    <3> QED BY <2>4, <3>1, <3>2, <3>3, <3>4 DEF Unambiguous
  <2> QED BY <2>3, <2>4
<1> QED BY <1>1, ColumnInvariant, PTL

\* Without a declaration, values of the class of the first row's are kept, and
\* after a first NULL every value that can be a text is (parquet_format.rs,
\* infer_schema_from_statement; raw_statement.rs, sample_data_type).
THEOREM SampledColumn == ColumnSpec => []SampledTypeKeeps
<1>1. ColumnInv => SampledTypeKeeps
  <2> SUFFICES ASSUME ColumnInv, declared = Undeclared, NEW k \in DOMAIN Column,
                      fetched[1] = Null \/ fetched[k].class = fetched[1].class
               PROVE  \/ Column[k] = "kept" \/ fetched[k] = Null
                      \/ fetched[k].form \in {"invalid", "binary"}
                      \/ fetched[1] = Null /\ fetched[k].form \in Respelled
    BY DEF SampledTypeKeeps
  <2>1. /\ fetched[k] \in SqlValues /\ fetched[1] \in SqlValues
        /\ type = InferType(declared, <<fetched[1]>>)
        /\ Column[k] = RawCell(type, fetched[k])
    BY CellOf
  <2>2. type = SampleDataType(fetched[1])
    BY <2>1 DEF InferType
  <2> DEFINE v == fetched[k]
             w == fetched[1]
  <2>3. CASE w = Null \/ w.class = "text"
    <3>1. type = "Utf8"
      BY <2>1, <2>2, <2>3, ColumnValueIs DEF SampleDataType
    <3>2. fetched[1] = Null \/ v.class = "text"
      BY <2>3
    <3>3. v = Null \/ v.class \in {"integer", "real", "text", "blob"}
      BY <2>1, ColumnValueIs
    <3> QED BY <2>1, <3>1, <3>2, <3>3, NumberCellIs, TextCellIs
  <2>4. CASE w.class = "integer"
    <3>1. type = "Int64" /\ v.class = "integer"
      BY <2>1, <2>2, <2>4, ColumnValueIs DEF SampleDataType
    <3> QED BY <2>1, <3>1, NumberCellIs
  <2>5. CASE w.class = "real"
    <3>1. type = "Float64" /\ v.class = "real"
      BY <2>1, <2>2, <2>5, ColumnValueIs DEF SampleDataType
    <3> QED BY <2>1, <3>1, NumberCellIs
  <2>6. CASE w.class = "blob"
    <3>1. type = "Binary"
      BY <2>1, <2>2, <2>6 DEF SampleDataType
    <3>2. v.class = "blob"
      BY <2>1, <2>6, ColumnValueIs
    <3> QED BY <2>1, <3>1, <3>2, TextCellIs
  <2> QED BY <2>1, <2>3, <2>4, <2>5, <2>6, ColumnValueIs
<1> QED BY <1>1, ColumnInvariant, PTL

\* The two appenders differ only where append_value has no conversion, in columns
\* of booleans, for "inf" and "nan", and in how they write a real as a text
\* (parquet_format.rs, append_raw_row, append_value).
THEOREM TwoAppenders == ColumnSpec => []AppendersAgree
<1>1. ASSUME NEW t \in Types, NEW v \in SqlValues
      PROVE  \/ RawCell(t, v) = RowCell(t, v)
             \/ RowCell(t, v) \in {"null", "described"} /\ RawCell(t, v) # "null"
             \/ t = "Boolean" /\ v.form \in {"truth", "fraction", "fine"}
             \/ t = "Float64" /\ v.form = "infinite"
             \/ t = "Utf8" /\ v.form \in Respelled
  <2>1. CASE v = Null
    BY <2>1, ColumnValueIs DEF RawCell, RowCell, Types
  <2>2. CASE v # Null
    <3>1. RawCell(t, v) # "null"
      BY <2>2, RawCellIs
    <3>2. CASE t = "Int64"
      BY <2>2, <3>1, <3>2, ColumnValueIs
         DEF RawCell, RowCell, ColumnInt64, Wordy
    <3>3. CASE t = "Float64"
      BY <2>2, <3>1, <3>3, ColumnValueIs
         DEF RawCell, RowCell, ColumnDouble, Wordy
    <3>4. CASE t = "Boolean"
      BY <2>2, <3>1, <3>4, ColumnValueIs
         DEF RawCell, RowCell, ColumnTruth, ColumnInt64, Wordy
    <3>5. CASE t = "Binary"
      BY <2>2, <3>1, <3>5, ColumnValueIs DEF RawCell, RowCell, ColumnBlob, Respelled
    <3>6. CASE t = "Utf8"
      BY <2>2, <3>1, <3>6, ColumnValueIs
         DEF RawCell, RowCell, ColumnText, ColumnBlob, Respelled
    <3> QED BY <3>2, <3>3, <3>4, <3>5, <3>6 DEF Types
  <2> QED BY <2>1, <2>2
<1>2. ColumnInv => AppendersAgree
  <2> SUFFICES ASSUME ColumnInv, NEW k \in DOMAIN Column
               PROVE  \/ Column[k] = RowCell(type, fetched[k])
                      \/ /\ RowCell(type, fetched[k]) \in {"null", "described"}
                         /\ Column[k] # "null"
                      \/ type = "Boolean" /\ fetched[k].form \in {"truth", "fraction", "fine"}
                      \/ type = "Float64" /\ fetched[k].form = "infinite"
                      \/ type = "Utf8" /\ fetched[k].form \in Respelled
    BY DEF AppendersAgree
  <2>1. /\ fetched[k] \in SqlValues /\ type \in Types
        /\ Column[k] = RawCell(type, fetched[k])
    BY CellOf
  <2> QED BY <1>1, <2>1
<1> QED BY <1>2, ColumnInvariant, PTL

--------------------------------------------------------------------------------
(* The log of queries: a text and its line, and what the two mean.         *)

\* f has the lines of the prefixes of s.
LoggedOpens(f, s) ==
  f = [k \in 0 .. Len(s) |-> IF k = 0 THEN <<>> ELSE Joined(f[k - 1], s[k])]

\* Every text has the lines of its prefixes.
LEMMA LoggedExists ==
  ASSUME NEW s, Len(s) \in Nat
  PROVE  \E f : LoggedOpens(f, s)
<1> DEFINE Body(h, k) == IF k = 0 THEN <<>> ELSE Joined(h[k - 1], s[k])
           Through(n, f) == f = [k \in 0 .. n |-> Body(f, k)]
           T == {n \in Nat : \E f : Through(n, f)}
<1>1. 0 \in T
  <2>1. Through(0, [k \in 0 .. 0 |-> <<>>])
    OBVIOUS
  <2> HIDE DEF Through
  <2> QED BY <2>1
<1>2. ASSUME NEW n \in T PROVE n + 1 \in T
  <2>1. PICK f : Through(n, f)
    <3> HIDE DEF Through
    <3> QED OBVIOUS
  <2> DEFINE last == Joined(f[n], s[n + 1])
             g == [k \in 0 .. n + 1 |-> IF k <= n THEN f[k] ELSE last]
  <2>2. ASSUME NEW k \in 0 .. n + 1 PROVE g[k] = Body(g, k)
    <3>1. CASE k <= n
      <4>1. k \in 0 .. n /\ (k # 0 => k - 1 \in 0 .. n)
        BY <3>1
      <4>2. g[k] = f[k] /\ (k # 0 => g[k - 1] = f[k - 1])
        BY <4>1
      <4>3. f[k] = Body(f, k)
        <5> HIDE DEF Body
        <5> QED BY <2>1, <4>1
      <4> HIDE DEF g
      <4> QED BY <4>2, <4>3
    <3>2. CASE ~(k <= n)
      <4>1. k = n + 1 /\ k # 0 /\ k - 1 = n /\ n \in 0 .. n + 1 /\ n <= n
        BY <3>2
      <4>2. g[k] = last /\ g[n] = f[n]
        BY <3>2, <4>1
      <4> HIDE DEF g
      <4> QED BY <4>1, <4>2
    <3> QED BY <3>1, <3>2
  <2> HIDE DEF last
  <2>3. g = [k \in 0 .. n + 1 |-> g[k]]
    OBVIOUS
  <2> HIDE DEF g, Body
  <2>4. Through(n + 1, g)
    BY <2>2, <2>3
  <2> HIDE DEF Through
  <2> QED BY <2>4
<1>3. T = Nat
  <2>1. T \in SUBSET Nat
    OBVIOUS
  <2> HIDE DEF T
  <2> QED BY <1>1, <1>2, <2>1, Induction
<1>4. PICK f : Through(Len(s), f)
  <2> HIDE DEF Through
  <2> QED BY <1>3
<1> QED BY <1>4 DEF LoggedOpens

\* FormatQueryForLogging takes the last of them.
LEMMA LoggedChooses ==
  ASSUME NEW s, Len(s) \in Nat
  PROVE  \E f : /\ FormatQueryForLogging(s) = f[Len(s)] /\ f[0] = <<>>
                /\ \A k \in 0 .. Len(s) : k < Len(s) => f[k + 1] = Joined(f[k], s[k + 1])
<1>1. PICK g : LoggedOpens(g, s)
  BY LoggedExists
<1> DEFINE Body(h, k) == IF k = 0 THEN <<>> ELSE Joined(h[k - 1], s[k])
<1>2. g = [k \in 0 .. Len(s) |-> IF k = 0 THEN <<>> ELSE Joined(g[k - 1], s[k])]
  BY <1>1 DEF LoggedOpens
<1>3. PICK f : /\ FormatQueryForLogging(s) = f[Len(s)]
               /\ f = [k \in 0 .. Len(s) |->
                        IF k = 0 THEN <<>> ELSE Joined(f[k - 1], s[k])]
  BY <1>2 DEF FormatQueryForLogging
<1>4. f = [k \in 0 .. Len(s) |-> Body(f, k)]
  BY <1>3
<1> HIDE DEF Body
<1>5. \A k \in 0 .. Len(s) : f[k] = Body(f, k)
  BY <1>4
<1>6. f[0] = <<>>
  BY <1>5 DEF Body
<1>7. ASSUME NEW k \in 0 .. Len(s), k < Len(s) PROVE f[k + 1] = Joined(f[k], s[k + 1])
  <2>1. k + 1 \in 0 .. Len(s) /\ k + 1 # 0 /\ (k + 1) - 1 = k
    BY <1>7
  <2> QED BY <1>5, <2>1 DEF Body
<1> QED BY <1>3, <1>6, <1>7

\* One character more.
LEMMA LoggedIs ==
  /\ FormatQueryForLogging(<<>>) = <<>>
  /\ \A s \in Seq(Characters) : \A c \in Characters :
       FormatQueryForLogging(Append(s, c)) = Joined(FormatQueryForLogging(s), c)
<1> DEFINE none == <<>>
<1>1. FormatQueryForLogging(none) = <<>>
  <2>1. Len(none) = 0
    OBVIOUS
  <2> HIDE DEF none
  <2> QED BY <2>1, LoggedChooses
<1>2. ASSUME NEW s \in Seq(Characters), NEW c \in Characters
      PROVE  FormatQueryForLogging(Append(s, c)) = Joined(FormatQueryForLogging(s), c)
  <2> DEFINE n == Len(s)
             t == Append(s, c)
  <2>1. /\ n \in Nat /\ Len(t) = n + 1 /\ Len(t) \in Nat
        /\ \A k \in 1 .. n : t[k] = s[k]
        /\ t[n + 1] = c
    BY AppendProperties, LenProperties
  <2> HIDE DEF n, t
  <2>2. PICK f : /\ FormatQueryForLogging(s) = f[n] /\ f[0] = <<>>
                 /\ \A k \in 0 .. n : k < n => f[k + 1] = Joined(f[k], s[k + 1])
    BY <2>1, LoggedChooses DEF n
  <2>3. PICK g : /\ FormatQueryForLogging(t) = g[Len(t)] /\ g[0] = <<>>
                 /\ \A k \in 0 .. Len(t) : k < Len(t) => g[k + 1] = Joined(g[k], t[k + 1])
    BY <2>1, LoggedChooses
  <2> DEFINE T == {k \in Nat : k <= n => f[k] = g[k]}
  <2>4. 0 \in T
    BY <2>2, <2>3
  <2>5. ASSUME NEW k \in T PROVE k + 1 \in T
    <3> SUFFICES ASSUME k + 1 <= n PROVE f[k + 1] = g[k + 1]
      OBVIOUS
    <3>1. k \in 0 .. n /\ k < n /\ k \in 0 .. Len(t) /\ k < Len(t) /\ k + 1 \in 1 .. n
      BY <2>1
    <3>2. f[k] = g[k] /\ t[k + 1] = s[k + 1]
      BY <2>1, <3>1
    <3> QED BY <2>2, <2>3, <3>1, <3>2
  <2>6. T = Nat
    <3>1. T \in SUBSET Nat
      OBVIOUS
    <3> HIDE DEF T
    <3> QED BY <2>4, <2>5, <3>1, Induction
  <2>7. f[n] = g[n]
    <3>1. n \in T /\ n <= n
      <4>1. n <= n
        BY <2>1
      <4> HIDE DEF T
      <4> QED BY <2>1, <2>6, <4>1
    <3> QED BY <3>1
  <2>8. g[n + 1] = Joined(g[n], c)
    <3>1. n \in 0 .. Len(t) /\ n < Len(t)
      BY <2>1
    <3> QED BY <2>1, <2>3, <3>1
  <2>9. FormatQueryForLogging(t) = Joined(FormatQueryForLogging(s), c)
    BY <2>1, <2>2, <2>3, <2>7, <2>8
  <2> QED BY <2>9 DEF t
<1>3. FormatQueryForLogging(<<>>) = <<>>
  BY <1>1
<1> QED BY <1>2, <1>3

\* f has the readings of the prefixes of s.
ReadingOpens(f, s) ==
  f = [k \in 0 .. Len(s) |->
         IF k = 0 THEN [mode |-> "code", out |-> <<>>] ELSE After(f[k - 1], s[k])]

\* Every text has the readings of its prefixes.
LEMMA ReadingExists ==
  ASSUME NEW s, Len(s) \in Nat
  PROVE  \E f : ReadingOpens(f, s)
<1> DEFINE Body(h, k) ==
             IF k = 0 THEN [mode |-> "code", out |-> <<>>] ELSE After(h[k - 1], s[k])
           Through(n, f) == f = [k \in 0 .. n |-> Body(f, k)]
           T == {n \in Nat : \E f : Through(n, f)}
<1>1. 0 \in T
  <2>1. Through(0, [k \in 0 .. 0 |-> [mode |-> "code", out |-> <<>>]])
    OBVIOUS
  <2> HIDE DEF Through
  <2> QED BY <2>1
<1>2. ASSUME NEW n \in T PROVE n + 1 \in T
  <2>1. PICK f : Through(n, f)
    <3> HIDE DEF Through
    <3> QED OBVIOUS
  <2> DEFINE last == After(f[n], s[n + 1])
             g == [k \in 0 .. n + 1 |-> IF k <= n THEN f[k] ELSE last]
  <2>2. ASSUME NEW k \in 0 .. n + 1 PROVE g[k] = Body(g, k)
    <3>1. CASE k <= n
      <4>1. k \in 0 .. n /\ (k # 0 => k - 1 \in 0 .. n)
        BY <3>1
      <4>2. g[k] = f[k] /\ (k # 0 => g[k - 1] = f[k - 1])
        BY <4>1
      <4>3. f[k] = Body(f, k)
        <5> HIDE DEF Body
        <5> QED BY <2>1, <4>1
      <4> HIDE DEF g
      <4> QED BY <4>2, <4>3
    <3>2. CASE ~(k <= n)
      <4>1. k = n + 1 /\ k # 0 /\ k - 1 = n /\ n \in 0 .. n + 1 /\ n <= n
        BY <3>2
      <4>2. g[k] = last /\ g[n] = f[n]
        BY <3>2, <4>1
      <4> HIDE DEF g
      <4> QED BY <4>1, <4>2
    <3> QED BY <3>1, <3>2
  <2> HIDE DEF last
  <2>3. g = [k \in 0 .. n + 1 |-> g[k]]
    OBVIOUS
  <2> HIDE DEF g, Body
  <2>4. Through(n + 1, g)
    BY <2>2, <2>3
  <2> HIDE DEF Through
  <2> QED BY <2>4
<1>3. T = Nat
  <2>1. T \in SUBSET Nat
    OBVIOUS
  <2> HIDE DEF T
  <2> QED BY <1>1, <1>2, <2>1, Induction
<1>4. PICK f : Through(Len(s), f)
  <2> HIDE DEF Through
  <2> QED BY <1>3
<1> QED BY <1>4 DEF ReadingOpens

\* Read takes the last of them.
LEMMA ReadingChooses ==
  ASSUME NEW s, Len(s) \in Nat
  PROVE  \E f : /\ Read(s) = f[Len(s)] /\ f[0] = [mode |-> "code", out |-> <<>>]
                /\ \A k \in 0 .. Len(s) : k < Len(s) => f[k + 1] = After(f[k], s[k + 1])
<1>1. PICK g : ReadingOpens(g, s)
  BY ReadingExists
<1> DEFINE Body(h, k) ==
             IF k = 0 THEN [mode |-> "code", out |-> <<>>] ELSE After(h[k - 1], s[k])
<1>2. g = [k \in 0 .. Len(s) |->
              IF k = 0 THEN [mode |-> "code", out |-> <<>>] ELSE After(g[k - 1], s[k])]
  BY <1>1 DEF ReadingOpens
<1>3. PICK f : /\ Read(s) = f[Len(s)]
               /\ f = [k \in 0 .. Len(s) |->
                    IF k = 0 THEN [mode |-> "code", out |-> <<>>] ELSE After(f[k - 1], s[k])]
  BY <1>2 DEF Read
<1>4. f = [k \in 0 .. Len(s) |-> Body(f, k)]
  BY <1>3
<1> HIDE DEF Body
<1>5. \A k \in 0 .. Len(s) : f[k] = Body(f, k)
  BY <1>4
<1>6. f[0] = [mode |-> "code", out |-> <<>>]
  BY <1>5 DEF Body
<1>7. ASSUME NEW k \in 0 .. Len(s), k < Len(s) PROVE f[k + 1] = After(f[k], s[k + 1])
  <2>1. k + 1 \in 0 .. Len(s) /\ k + 1 # 0 /\ (k + 1) - 1 = k
    BY <1>7
  <2> QED BY <1>5, <2>1 DEF Body
<1> QED BY <1>3, <1>6, <1>7

\* One character more.
LEMMA ReadingIs ==
  /\ Read(<<>>) = [mode |-> "code", out |-> <<>>]
  /\ \A s \in Seq(Characters) : \A c \in Characters :
       Read(Append(s, c)) = After(Read(s), c)
<1> DEFINE none == <<>>
<1>1. Read(none) = [mode |-> "code", out |-> <<>>]
  <2>1. Len(none) = 0
    OBVIOUS
  <2> HIDE DEF none
  <2> QED BY <2>1, ReadingChooses
<1>2. ASSUME NEW s \in Seq(Characters), NEW c \in Characters
      PROVE  Read(Append(s, c)) = After(Read(s), c)
  <2> DEFINE n == Len(s)
             t == Append(s, c)
  <2>1. /\ n \in Nat /\ Len(t) = n + 1 /\ Len(t) \in Nat
        /\ \A k \in 1 .. n : t[k] = s[k]
        /\ t[n + 1] = c
    BY AppendProperties, LenProperties
  <2> HIDE DEF n, t
  <2>2. PICK f : /\ Read(s) = f[n] /\ f[0] = [mode |-> "code", out |-> <<>>]
                 /\ \A k \in 0 .. n : k < n => f[k + 1] = After(f[k], s[k + 1])
    BY <2>1, ReadingChooses DEF n
  <2>3. PICK g : /\ Read(t) = g[Len(t)] /\ g[0] = [mode |-> "code", out |-> <<>>]
                 /\ \A k \in 0 .. Len(t) : k < Len(t) => g[k + 1] = After(g[k], t[k + 1])
    BY <2>1, ReadingChooses
  <2> DEFINE T == {k \in Nat : k <= n => f[k] = g[k]}
  <2>4. 0 \in T
    BY <2>2, <2>3
  <2>5. ASSUME NEW k \in T PROVE k + 1 \in T
    <3> SUFFICES ASSUME k + 1 <= n PROVE f[k + 1] = g[k + 1]
      OBVIOUS
    <3>1. k \in 0 .. n /\ k < n /\ k \in 0 .. Len(t) /\ k < Len(t) /\ k + 1 \in 1 .. n
      BY <2>1
    <3>2. f[k] = g[k] /\ t[k + 1] = s[k + 1]
      BY <2>1, <3>1
    <3> QED BY <2>2, <2>3, <3>1, <3>2
  <2>6. T = Nat
    <3>1. T \in SUBSET Nat
      OBVIOUS
    <3> HIDE DEF T
    <3> QED BY <2>4, <2>5, <3>1, Induction
  <2>7. f[n] = g[n]
    <3>1. n \in T /\ n <= n
      <4>1. n <= n
        BY <2>1
      <4> HIDE DEF T
      <4> QED BY <2>1, <2>6, <4>1
    <3> QED BY <3>1
  <2>8. g[n + 1] = After(g[n], c)
    <3>1. n \in 0 .. Len(t) /\ n < Len(t)
      BY <2>1
    <3> QED BY <2>1, <2>3, <3>1
  <2>9. Read(t) = After(Read(s), c)
    BY <2>1, <2>2, <2>3, <2>7, <2>8
  <2> QED BY <2>9 DEF t
<1>3. Read(<<>>) = [mode |-> "code", out |-> <<>>]
  BY <1>1
<1> QED BY <1>2, <1>3

\* What is read: characters and separators.
Marks == Characters \cup {"gap"}
Modes == {"code", "literal", "comment"}

\* What reading a text can lead to.
Readable(at) ==
  /\ at \in [mode : Modes, out : Seq(Marks)]
  /\ at.mode = "literal" => at.out # <<>>
  /\ at.mode = "comment" => Separated(at.out) = at.out
  /\ at.out # <<>> => at.out[1] # "gap"

\* The characters that have a meaning of their own.
LEMMA CharactersAre ==
  /\ Characters = {"space", "break", "word", "quote", "dashes"} /\ Blanks = {"space", "break"}
  /\ "gap" \notin Characters /\ Characters \subseteq Marks /\ "gap" \in Marks
BY DEF Characters, Blanks, Marks

\* A separator, unless there is one.
LEMMA SeparatedIs ==
  ASSUME NEW out \in Seq(Marks)
  PROVE  /\ Separated(out) \in Seq(Marks)
         /\ Begins(Separated(out), out)
         /\ Separated(Separated(out)) = Separated(out)
         /\ out = <<>> => Separated(out) = <<>>
         /\ out # <<>> => Separated(out) # <<>> /\ Separated(out)[1] = out[1]
         /\ Separated(out) = out => out = <<>> \/ Last(out) = "gap"
         /\ Separated(out) = out \/ Separated(out) = Append(out, "gap")
<1> DEFINE n == Len(out)
           more == Append(out, "gap")
<1>1. n \in Nat /\ (out # <<>> => n # 0) /\ "gap" \in Marks
  BY LenProperties, EmptySeq, CharactersAre
<1>2. /\ more \in Seq(Marks) /\ Len(more) = n + 1
      /\ \A k \in 1 .. n : more[k] = out[k]
      /\ more[n + 1] = "gap"
  BY <1>1, AppendProperties
<1>3. more # <<>>
  <2>1. Len(more) # 0
    BY <1>1, <1>2
  <2> QED BY <1>2, <2>1, EmptySeq
<1>4. Separated(out) = IF out = <<>> \/ Last(out) = "gap" THEN out ELSE more
  BY DEF Separated
<1>5. Begins(out, out)
  BY <1>1 DEF Begins
<1> HIDE DEF more
<1>6. CASE out = <<>> \/ Last(out) = "gap"
  BY <1>4, <1>5, <1>6
<1>7. CASE ~(out = <<>> \/ Last(out) = "gap")
  <2>1. Separated(out) = more /\ n # 0
    BY <1>1, <1>4, <1>7
  <2>2. Last(more) = "gap"
    BY <1>2 DEF Last
  <2>3. Separated(more) = more
    BY <2>2 DEF Separated
  <2>4. Begins(more, out) /\ more # out /\ more[1] = out[1]
    <3>1. n <= n + 1 /\ n + 1 # n /\ 1 \in 1 .. n
      BY <1>1, <2>1
    <3> QED BY <1>1, <1>2, <3>1 DEF Begins
  <2>5. more = Append(out, "gap")
    BY DEF more
  <2> QED BY <1>2, <1>3, <1>7, <2>1, <2>3, <2>4, <2>5
<1> QED BY <1>6, <1>7

\* What one character does to a reading.
LEMMA AfterIs ==
  ASSUME NEW at, Readable(at), NEW c \in Characters
  PROVE  LET next == After(at, c)
         IN  /\ at.mode = "literal" =>
                  next = [mode |-> IF c = "quote" THEN "code" ELSE "literal",
                          out |-> Append(at.out, c)]
             /\ at.mode = "comment" =>
                  next = [mode |-> IF c = "break" THEN "code" ELSE "comment", out |-> at.out]
             /\ at.mode = "code" /\ c = "dashes" =>
                  next = [mode |-> "comment", out |-> Separated(at.out)]
             /\ at.mode = "code" /\ c \in Blanks =>
                  next = [mode |-> "code", out |-> Separated(at.out)]
             /\ at.mode = "code" /\ c # "dashes" /\ c \notin Blanks =>
                  next = [mode |-> IF c = "quote" THEN "literal" ELSE "code",
                          out |-> Append(at.out, c)]
<1> DEFINE next == After(at, c)
           mode == at.mode
           out == at.out
<1>1. at \in [mode : Modes, out : Seq(Marks)] /\ mode \in Modes
  BY DEF Readable
<1>2. at = [mode |-> mode, out |-> out]
  BY <1>1
<1>3. CASE mode = "literal"
  BY <1>3 DEF After
<1>4. CASE mode = "comment"
  <2>1. next = [at EXCEPT !.mode = IF c = "break" THEN "code" ELSE @]
    BY <1>4 DEF After
  <2> QED BY <1>1, <1>2, <1>4, <2>1
<1>5. CASE mode = "code"
  <2>1. CASE c = "dashes"
    BY <1>5, <2>1, CharactersAre DEF After
  <2>2. CASE c # "dashes" /\ c \in Blanks
    <3>1. next = [at EXCEPT !.out = Separated(@)]
      BY <1>5, <2>2 DEF After
    <3> QED BY <1>1, <1>2, <1>5, <2>2, <3>1
  <2>3. CASE c # "dashes" /\ c \notin Blanks
    BY <1>5, <2>3 DEF After
  <2> QED BY <2>1, <2>2, <2>3
<1> QED BY <1>1, <1>3, <1>4, <1>5 DEF Modes

\* Reading goes on: what is read stays.
LEMMA AfterKeeps ==
  ASSUME NEW at, Readable(at), NEW c \in Characters
  PROVE  Readable(After(at, c)) /\ Begins(After(at, c).out, at.out)
<1> DEFINE next == After(at, c)
           out == at.out
           more == Append(out, c)
<1>1. /\ at.mode \in Modes /\ out \in Seq(Marks) /\ c \in Marks /\ c # "gap"
      /\ at.mode = "literal" => out # <<>>
      /\ at.mode = "comment" => Separated(out) = out
      /\ out # <<>> => out[1] # "gap"
  BY CharactersAre DEF Readable
<1>2. /\ Separated(out) \in Seq(Marks) /\ Begins(Separated(out), out)
      /\ Separated(Separated(out)) = Separated(out)
      /\ Separated(out) # <<>> => Separated(out)[1] # "gap"
  BY <1>1, SeparatedIs
<1>3. more \in Seq(Marks) /\ Begins(more, out) /\ more # <<>> /\ more[1] # "gap"
  <2>1. /\ more \in Seq(Marks) /\ Len(more) = Len(out) + 1
        /\ \A k \in 1 .. Len(out) : more[k] = out[k]
        /\ more[Len(out) + 1] = c /\ Len(out) \in Nat
    BY <1>1, AppendProperties, LenProperties
  <2> HIDE DEF more
  <2>2. Len(out) = 0 => more[1] = c
    BY <2>1
  <2>3. Len(out) # 0 => more[1] = out[1]
    BY <2>1
  <2>4. Len(out) # 0 => out # <<>>
    BY EmptySeq
  <2>5. Len(more) # 0
    BY <2>1
  <2> QED BY <1>1, <2>1, <2>2, <2>3, <2>4, <2>5, EmptySeq DEF Begins
<1>4. Begins(out, out)
  BY <1>1, LenProperties DEF Begins
<1> HIDE DEF more
<1>5. CASE at.mode = "literal"
  <2>1. next = [mode |-> IF c = "quote" THEN "code" ELSE "literal", out |-> more]
    BY <1>5, AfterIs DEF more
  <2> HIDE DEF next
  <2>2. next.out = more /\ next.mode \in Modes /\ next.mode # "comment"
        /\ next \in [mode : Modes, out : Seq(Marks)]
    BY <1>3, <2>1 DEF Modes
  <2>3. Readable(next) /\ Begins(next.out, out)
    BY <1>3, <2>2 DEF Readable
  <2> QED BY <2>3 DEF next
<1>6. CASE at.mode = "comment"
  <2>1. next = [mode |-> IF c = "break" THEN "code" ELSE "comment", out |-> out]
    BY <1>6, AfterIs
  <2> HIDE DEF next
  <2>2. next.out = out /\ next.mode \in Modes /\ next.mode # "literal"
        /\ next \in [mode : Modes, out : Seq(Marks)]
    BY <1>1, <2>1 DEF Modes
  <2>3. Readable(next) /\ Begins(next.out, out)
    BY <1>1, <1>4, <1>6, <2>2 DEF Readable
  <2> QED BY <2>3 DEF next
<1>7. CASE at.mode = "code" /\ (c = "dashes" \/ c \in Blanks)
  <2>1. next = [mode |-> IF c = "dashes" THEN "comment" ELSE "code", out |-> Separated(out)]
    BY <1>7, AfterIs, CharactersAre
  <2> HIDE DEF next
  <2>2. next.out = Separated(out) /\ next.mode \in Modes /\ next.mode # "literal"
        /\ next \in [mode : Modes, out : Seq(Marks)]
    BY <1>2, <2>1 DEF Modes
  <2>3. Readable(next) /\ Begins(next.out, out)
    BY <1>2, <2>2 DEF Readable
  <2> QED BY <2>3 DEF next
<1>8. CASE at.mode = "code" /\ c # "dashes" /\ c \notin Blanks
  <2>1. next = [mode |-> IF c = "quote" THEN "literal" ELSE "code", out |-> more]
    BY <1>8, AfterIs DEF more
  <2> HIDE DEF next
  <2>2. next.out = more /\ next.mode \in Modes /\ next.mode # "comment"
        /\ next \in [mode : Modes, out : Seq(Marks)]
    BY <1>3, <2>1 DEF Modes
  <2>3. Readable(next) /\ Begins(next.out, out)
    BY <1>3, <2>2 DEF Readable
  <2> QED BY <2>3 DEF next
<1> QED BY <1>1, <1>5, <1>6, <1>7, <1>8 DEF Modes

\* What begins a text begins what the text begins.
LEMMA BeginsOn ==
  ASSUME NEW s, NEW t, NEW u, Begins(t, s), Begins(u, t)
  PROVE  Begins(u, s)
<1>1. Len(s) <= Len(t) /\ Len(t) <= Len(u) /\ \A k \in 1 .. Len(s) : k \in 1 .. Len(t)
  BY DEF Begins
<1> QED BY <1>1 DEF Begins

\* The readings of the prefixes of a text, and their lines.
LEMMA PrefixesAre ==
  ASSUME NEW s \in Seq(Characters)
  PROVE  /\ Upto(s, 0) = <<>> /\ Upto(s, Len(s)) = s /\ Len(s) \in Nat
         /\ Read(Upto(s, 0)) = [mode |-> "code", out |-> <<>>]
         /\ FormatQueryForLogging(Upto(s, 0)) = <<>>
         /\ \A k \in 0 .. Len(s) : Upto(s, k) \in Seq(Characters)
         /\ \A k \in 0 .. Len(s) : k < Len(s) =>
              /\ s[k + 1] \in Characters
              /\ Upto(s, k + 1) = Append(Upto(s, k), s[k + 1])
              /\ Read(Upto(s, k + 1)) = After(Read(Upto(s, k)), s[k + 1])
              /\ FormatQueryForLogging(Upto(s, k + 1))
                   = Joined(FormatQueryForLogging(Upto(s, k)), s[k + 1])
<1>1. Upto(s, 0) = <<>> /\ Upto(s, Len(s)) = s /\ Len(s) \in Nat
  BY UptoIs, LenProperties
<1>2. /\ Read(Upto(s, 0)) = [mode |-> "code", out |-> <<>>]
      /\ FormatQueryForLogging(Upto(s, 0)) = <<>>
  BY <1>1, ReadingIs, LoggedIs
<1>3. \A k \in 0 .. Len(s) : Upto(s, k) \in Seq(Characters)
  BY UptoIs
<1>4. ASSUME NEW k \in 0 .. Len(s), k < Len(s)
      PROVE  /\ s[k + 1] \in Characters
             /\ Upto(s, k + 1) = Append(Upto(s, k), s[k + 1])
             /\ Read(Upto(s, k + 1)) = After(Read(Upto(s, k)), s[k + 1])
             /\ FormatQueryForLogging(Upto(s, k + 1))
                  = Joined(FormatQueryForLogging(Upto(s, k)), s[k + 1])
  <2>1. s[k + 1] \in Characters /\ Upto(s, k + 1) = Append(Upto(s, k), s[k + 1])
    BY <1>4, UptoIs
  <2>2. Upto(s, k) \in Seq(Characters)
    BY <1>3
  <2>3. Read(Upto(s, k + 1)) = After(Read(Upto(s, k)), s[k + 1])
    BY <2>1, <2>2, ReadingIs
  <2>4. FormatQueryForLogging(Upto(s, k + 1))
          = Joined(FormatQueryForLogging(Upto(s, k)), s[k + 1])
    BY <2>1, <2>2, LoggedIs
  <2> QED BY <2>1, <2>3, <2>4
<1> QED BY <1>1, <1>2, <1>3, <1>4

\* The reading of a prefix.
LEMMA ReadTo ==
  ASSUME NEW s \in Seq(Characters), NEW k \in 0 .. Len(s)
  PROVE  Readable(Read(Upto(s, k)))
<1> DEFINE T == {m \in Nat : m <= Len(s) => Readable(Read(Upto(s, m)))}
<1>1. Len(s) \in Nat /\ k \in Nat /\ k <= Len(s)
  BY PrefixesAre
<1>2. 0 \in T
  <2> DEFINE at == [mode |-> "code", out |-> <<>>]
  <2>1. Read(Upto(s, 0)) = at
    BY PrefixesAre
  <2>2. Readable(at)
    <3>1. at.mode = "code" /\ at.out = <<>> /\ at \in [mode : Modes, out : Seq(Marks)]
      BY DEF Modes
    <3> HIDE DEF at
    <3> QED BY <3>1 DEF Readable
  <2> QED BY <2>1, <2>2
<1>3. ASSUME NEW m \in T PROVE m + 1 \in T
  <2> SUFFICES ASSUME m + 1 <= Len(s) PROVE Readable(Read(Upto(s, m + 1)))
    OBVIOUS
  <2>1. m \in 0 .. Len(s) /\ m < Len(s)
    BY <1>1
  <2>2. Readable(Read(Upto(s, m)))
    BY <2>1
  <2>3. s[m + 1] \in Characters /\ Read(Upto(s, m + 1)) = After(Read(Upto(s, m)), s[m + 1])
    BY <2>1, PrefixesAre
  <2> QED BY <2>2, <2>3, AfterKeeps
<1>4. T = Nat
  <2>1. T \in SUBSET Nat
    OBVIOUS
  <2> HIDE DEF T
  <2> QED BY <1>2, <1>3, <2>1, Induction
<1>5. k \in T
  <2> HIDE DEF T
  <2> QED BY <1>1, <1>4
<1> QED BY <1>1, <1>5

\* The reading of a whole text.
LEMMA ReadAll ==
  ASSUME NEW s \in Seq(Characters)
  PROVE  /\ Readable(Read(s)) /\ Read(s).out \in Seq(Marks) /\ Len(Read(s).out) \in Nat
         /\ Begins(Read(s).out, Read(s).out)
<1>1. Len(s) \in 0 .. Len(s) /\ Upto(s, Len(s)) = s
  BY PrefixesAre
<1>2. Readable(Read(s))
  BY <1>1, ReadTo
<1>3. Read(s).out \in Seq(Marks)
  BY <1>2 DEF Readable
<1> QED BY <1>2, <1>3, LenProperties DEF Begins

\* What a prefix reads is the beginning of what the text reads.
LEMMA ReadOn ==
  ASSUME NEW s \in Seq(Characters), NEW k \in 0 .. Len(s), NEW m \in k .. Len(s)
  PROVE  Begins(Read(Upto(s, m)).out, Read(Upto(s, k)).out)
<1> DEFINE Out(j) == Read(Upto(s, j)).out
           T == {j \in Nat : k + j <= Len(s) => Begins(Out(k + j), Out(k))}
<1>1. Len(s) \in Nat /\ k \in Nat /\ m \in Nat /\ k <= m /\ m <= Len(s) /\ m - k \in Nat
  BY PrefixesAre
<1>2. ASSUME NEW j \in 0 .. Len(s) PROVE Begins(Out(j), Out(j))
  <2>1. Upto(s, j) \in Seq(Characters)
    BY PrefixesAre
  <2> QED BY <2>1, ReadAll
<1>3. ASSUME NEW j \in 0 .. Len(s), j < Len(s) PROVE Begins(Out(j + 1), Out(j))
  <2>1. s[j + 1] \in Characters /\ Read(Upto(s, j + 1)) = After(Read(Upto(s, j)), s[j + 1])
    BY <1>3, PrefixesAre
  <2>2. Readable(Read(Upto(s, j)))
    BY ReadTo
  <2> QED BY <2>1, <2>2, AfterKeeps
<1> HIDE DEF Out
<1>4. 0 \in T
  <2>1. k + 0 = k
    BY <1>1
  <2> QED BY <1>2, <2>1
<1>5. ASSUME NEW j \in T PROVE j + 1 \in T
  <2> SUFFICES ASSUME k + (j + 1) <= Len(s) PROVE Begins(Out(k + (j + 1)), Out(k))
    OBVIOUS
  <2>1. /\ k + j \in 0 .. Len(s) /\ k + j < Len(s) /\ (k + j) + 1 = k + (j + 1)
        /\ k + (j + 1) \in 0 .. Len(s)
    BY <1>1
  <2>2. Begins(Out(k + j), Out(k)) /\ Begins(Out(k + (j + 1)), Out(k + j))
    BY <1>3, <2>1
  <2> QED BY <2>2, BeginsOn
<1>6. T = Nat
  <2>1. T \in SUBSET Nat
    OBVIOUS
  <2> HIDE DEF T
  <2> QED BY <1>4, <1>5, <2>1, Induction
<1>7. m - k \in T /\ k + (m - k) = m
  <2> HIDE DEF T
  <2> QED BY <1>1, <1>6
<1>8. Begins(Out(m), Out(k))
  BY <1>1, <1>7
<1> QED BY <1>8 DEF Out

\* A text with no blanks but single spaces, and none at its beginning.
Single(line) ==
  /\ line # <<>> => line[1] \notin Blanks
  /\ \A k \in 1 .. Len(line) : line[k] \in Blanks => line[k] = "space"
  /\ \A k \in 1 .. Len(line) : k > 1 /\ line[k] \in Blanks => line[k - 1] \notin Blanks

\* What one character does to a line.
LEMMA JoinedIs ==
  ASSUME NEW line \in Seq(Characters), Single(line), NEW c \in Characters
  PROVE  LET more == Joined(line, c)
             x == IF c \in Blanks THEN "space" ELSE c
         IN  /\ more \in Seq(Characters) /\ Single(more) /\ x \in Characters
             /\ more = Append(line, x) \/ (more = line /\ c \in Blanks)
             /\ line # <<>> => more # <<>>
             /\ more # <<>> => Last(more) = x
             /\ line # <<>> /\ c \in Blanks /\ Last(line) = "space" => more = line
             /\ c \notin Blanks \/ (line # <<>> /\ Last(line) # "space") =>
                  more = Append(line, x)
<1> DEFINE more == Joined(line, c)
           x == IF c \in Blanks THEN "space" ELSE c
           n == Len(line)
           longer == Append(line, x)
<1>1. n \in Nat /\ (line # <<>> <=> n # 0)
  BY LenProperties, EmptySeq
<1>2. /\ x \in Characters /\ (c \in Blanks => x = "space") /\ (c \notin Blanks => x = c)
      /\ "space" \in Blanks
  BY CharactersAre
<1> HIDE DEF x
<1>3. /\ longer \in Seq(Characters) /\ Len(longer) = n + 1
      /\ \A k \in 1 .. n : longer[k] = line[k]
      /\ longer[n + 1] = x
  <2>1. x \in Characters
    BY <1>2
  <2> QED BY <2>1, AppendProperties
<1> HIDE DEF n
<1>4. longer # <<>> /\ Last(longer) = x
  <2>1. Len(longer) # 0
    BY <1>1, <1>3
  <2> QED BY <1>3, <2>1, EmptySeq DEF Last
<1>5. more = IF c \in Blanks /\ (line = <<>> \/ Last(line) = "space") THEN line ELSE longer
  BY <1>2 DEF Joined, SpaceFor
<1>6. ASSUME c \notin Blanks \/ (line # <<>> /\ Last(line) # "space")
      PROVE  Single(longer)
  <2>1. \A k \in 1 .. n + 1 : k \in 1 .. n \/ k = n + 1
    BY <1>1
  <2>2. longer[1] \notin Blanks
    <3>1. CASE n = 0
      <4>1. line = <<>> /\ longer[1] = x
        BY <1>1, <1>3, <3>1
      <4> QED BY <1>2, <1>6, <4>1
    <3>2. CASE n # 0
      <4>1. 1 \in 1 .. n /\ line # <<>>
        BY <1>1, <3>2
      <4> QED BY <1>3, <4>1 DEF Single
    <3> QED BY <3>1, <3>2
  <2>3. ASSUME NEW k \in 1 .. n + 1, longer[k] \in Blanks PROVE longer[k] = "space"
    <3>1. CASE k \in 1 .. n
      BY <1>3, <2>3, <3>1 DEF Single, n
    <3>2. CASE k = n + 1
      BY <1>2, <1>3, <2>3, <3>2
    <3> QED BY <2>1, <3>1, <3>2
  <2>4. ASSUME NEW k \in 1 .. n + 1, k > 1, longer[k] \in Blanks
        PROVE  longer[k - 1] \notin Blanks
    <3>1. k - 1 \in 1 .. n
      BY <1>1, <2>4
    <3>2. longer[k - 1] = line[k - 1]
      BY <1>3, <3>1
    <3>3. CASE k \in 1 .. n
      BY <1>3, <2>4, <3>2, <3>3 DEF Single, n
    <3>4. CASE k = n + 1
      <4>1. c \in Blanks
        BY <1>2, <1>3, <2>4, <3>4
      <4>2. k - 1 = n /\ n \in 1 .. n
        BY <1>1, <3>1, <3>4
      <4>3. line[n] # "space"
        BY <1>6, <4>1 DEF Last, n
      <4>4. line[n] \notin Blanks
        BY <4>2, <4>3 DEF Single, n
      <4> QED BY <3>2, <4>2, <4>4
    <3> QED BY <2>1, <3>3, <3>4
  <2> QED BY <1>3, <2>2, <2>3, <2>4 DEF Single
<1> HIDE DEF longer, more
<1>7. CASE c \in Blanks /\ (line = <<>> \/ Last(line) = "space")
  <2>1. more = line
    BY <1>5, <1>7
  <2>2. more # <<>> => Last(more) = x
    BY <1>2, <1>7, <2>1
  <2> QED BY <1>2, <1>7, <2>1, <2>2 DEF more, x
<1>8. CASE ~(c \in Blanks /\ (line = <<>> \/ Last(line) = "space"))
  <2>1. more = longer
    BY <1>5, <1>8
  <2>2. Single(more)
    BY <1>6, <1>8, <2>1
  <2>3. more = Append(line, x)
    BY <2>1 DEF longer
  <2> QED BY <1>2, <1>3, <1>4, <1>8, <2>1, <2>2, <2>3 DEF more, x
<1> QED BY <1>7, <1>8

\* The line of a prefix.
LEMMA LineTo ==
  ASSUME NEW s \in Seq(Characters), NEW k \in 0 .. Len(s)
  PROVE  /\ FormatQueryForLogging(Upto(s, k)) \in Seq(Characters)
         /\ Single(FormatQueryForLogging(Upto(s, k)))
<1> DEFINE Good(line) == line \in Seq(Characters) /\ Single(line)
           T == {m \in Nat : m <= Len(s) => Good(FormatQueryForLogging(Upto(s, m)))}
<1>1. Len(s) \in Nat /\ k \in Nat /\ k <= Len(s)
  BY PrefixesAre
<1>2. 0 \in T
  <2>1. FormatQueryForLogging(Upto(s, 0)) = <<>>
    BY PrefixesAre
  <2>2. Good(<<>>)
    BY DEF Single
  <2> HIDE DEF Good
  <2> QED BY <2>1, <2>2
<1>3. ASSUME NEW m \in T PROVE m + 1 \in T
  <2> SUFFICES ASSUME m + 1 <= Len(s) PROVE Good(FormatQueryForLogging(Upto(s, m + 1)))
    OBVIOUS
  <2>1. m \in 0 .. Len(s) /\ m < Len(s)
    BY <1>1
  <2>2. Good(FormatQueryForLogging(Upto(s, m)))
    BY <2>1
  <2>3. /\ s[m + 1] \in Characters
        /\ FormatQueryForLogging(Upto(s, m + 1))
             = Joined(FormatQueryForLogging(Upto(s, m)), s[m + 1])
    BY <2>1, PrefixesAre
  <2> QED BY <2>2, <2>3, JoinedIs
<1>4. T = Nat
  <2>1. T \in SUBSET Nat
    OBVIOUS
  <2> HIDE DEF T
  <2> QED BY <1>2, <1>3, <2>1, Induction
<1>5. k \in T
  <2> HIDE DEF T
  <2> QED BY <1>1, <1>4
<1> QED BY <1>1, <1>5

\* The line of the first k characters.
LineOf(s, k) == FormatQueryForLogging(Upto(s, k))

\* What the line of a prefix reads is the beginning of what the whole line reads.
LEMMA LineOn ==
  ASSUME NEW s \in Seq(Characters), NEW k \in 0 .. Len(s), NEW m \in k .. Len(s)
  PROVE  Begins(Read(LineOf(s, m)).out, Read(LineOf(s, k)).out)
<1> DEFINE Out(j) == Read(LineOf(s, j)).out
           T == {j \in Nat : k + j <= Len(s) => Begins(Out(k + j), Out(k))}
<1>1. Len(s) \in Nat /\ k \in Nat /\ m \in Nat /\ k <= m /\ m <= Len(s) /\ m - k \in Nat
  BY PrefixesAre
<1>2. ASSUME NEW j \in 0 .. Len(s)
      PROVE  LineOf(s, j) \in Seq(Characters) /\ Single(LineOf(s, j))
  BY LineTo DEF LineOf
<1>3. ASSUME NEW j \in 0 .. Len(s) PROVE Begins(Out(j), Out(j))
  BY <1>2, ReadAll
<1>4. ASSUME NEW j \in 0 .. Len(s), j < Len(s) PROVE Begins(Out(j + 1), Out(j))
  <2> DEFINE line == LineOf(s, j)
             x == IF s[j + 1] \in Blanks THEN "space" ELSE s[j + 1]
  <2>1. s[j + 1] \in Characters /\ LineOf(s, j + 1) = Joined(line, s[j + 1])
    BY <1>4, PrefixesAre DEF LineOf
  <2>2. line \in Seq(Characters) /\ Single(line)
    BY <1>2
  <2> HIDE DEF line
  <2>3. x \in Characters /\ (LineOf(s, j + 1) = line \/ LineOf(s, j + 1) = Append(line, x))
    BY <2>1, <2>2, JoinedIs
  <2> HIDE DEF x
  <2>4. Begins(Read(line).out, Read(line).out)
    BY <2>2, ReadAll
  <2>5. Begins(Read(Append(line, x)).out, Read(line).out)
    <3>1. Readable(Read(line)) /\ Read(Append(line, x)) = After(Read(line), x)
      BY <2>2, <2>3, ReadAll, ReadingIs
    <3> QED BY <2>3, <3>1, AfterKeeps
  <2>6. Begins(Read(LineOf(s, j + 1)).out, Read(line).out)
    BY <2>3, <2>4, <2>5
  <2> QED BY <2>6 DEF line
<1> HIDE DEF Out
<1>5. 0 \in T
  <2>1. k + 0 = k
    BY <1>1
  <2> QED BY <1>3, <2>1
<1>6. ASSUME NEW j \in T PROVE j + 1 \in T
  <2> SUFFICES ASSUME k + (j + 1) <= Len(s) PROVE Begins(Out(k + (j + 1)), Out(k))
    OBVIOUS
  <2>1. k + j \in 0 .. Len(s) /\ k + j < Len(s) /\ (k + j) + 1 = k + (j + 1)
    BY <1>1
  <2>2. Begins(Out(k + j), Out(k)) /\ Begins(Out(k + (j + 1)), Out(k + j))
    BY <1>4, <2>1
  <2> QED BY <2>2, BeginsOn
<1>7. T = Nat
  <2>1. T \in SUBSET Nat
    OBVIOUS
  <2> HIDE DEF T
  <2> QED BY <1>5, <1>6, <2>1, Induction
<1>8. m - k \in T /\ k + (m - k) = m
  <2> HIDE DEF T
  <2> QED BY <1>1, <1>7
<1>9. Begins(Out(m), Out(k))
  BY <1>1, <1>8
<1> QED BY <1>9 DEF Out

\* A text of single spaces is logged as it is.
LEMMA LogSingle ==
  ASSUME NEW s \in Seq(Characters), Single(s)
  PROVE  FormatQueryForLogging(s) = s
<1> DEFINE T == {k \in Nat : k <= Len(s) => LineOf(s, k) = Upto(s, k)}
<1>1. Len(s) \in Nat /\ Upto(s, Len(s)) = s
  BY PrefixesAre
<1>2. 0 \in T
  BY PrefixesAre DEF LineOf
<1>3. ASSUME NEW k \in T PROVE k + 1 \in T
  <2> SUFFICES ASSUME k + 1 <= Len(s) PROVE LineOf(s, k + 1) = Upto(s, k + 1)
    OBVIOUS
  <2> DEFINE u == Upto(s, k)
             c == s[k + 1]
  <2>1. k \in 0 .. Len(s) /\ k < Len(s) /\ k + 1 \in 1 .. Len(s)
    BY <1>1
  <2>2. LineOf(s, k) = u
    BY <2>1
  <2>3. /\ u \in Seq(Characters) /\ c \in Characters /\ Upto(s, k + 1) = Append(u, c)
        /\ LineOf(s, k + 1) = Joined(u, c)
    BY <2>1, <2>2, PrefixesAre DEF LineOf
  <2>4. Len(u) = k
    BY <2>1, UptoIs
  <2>5. CASE c \notin Blanks
    BY <2>3, <2>5 DEF Joined
  <2>6. CASE c \in Blanks
    <3>1. c = "space"
      BY <2>1, <2>6 DEF Single
    <3>2. k # 0
      <4>1. s # <<>>
        BY <2>1, EmptySeq
      <4>2. s[1] \notin Blanks
        BY <4>1 DEF Single
      <4>3. k = 0 => k + 1 = 1
        OBVIOUS
      <4> QED BY <2>6, <4>2, <4>3
    <3>3. k + 1 > 1 /\ (k + 1) - 1 = k /\ k \in 1 .. k
      BY <3>2
    <3>4. s[k] \notin Blanks
      BY <2>1, <2>6, <3>3 DEF Single
    <3>5. u[k] = s[k]
      BY <3>3 DEF Upto
    <3>6. Last(u) # "space" /\ u # <<>>
      <4>1. "space" \in Blanks
        BY CharactersAre
      <4> HIDE DEF u
      <4> QED BY <2>4, <3>2, <3>4, <3>5, <4>1, EmptySeq DEF Last
    <3> HIDE DEF u
    <3>7. Joined(u, c) = Append(u, c)
      BY <2>6, <3>1, <3>6 DEF Joined, SpaceFor
    <3> QED BY <2>3, <3>7
  <2> QED BY <2>5, <2>6
<1>4. T = Nat
  <2>1. T \in SUBSET Nat
    OBVIOUS
  <2> HIDE DEF T
  <2> QED BY <1>2, <1>3, <2>1, Induction
<1>5. Len(s) \in T /\ Len(s) <= Len(s)
  <2> HIDE DEF T
  <2> QED BY <1>1, <1>4
<1>6. LineOf(s, Len(s)) = Upto(s, Len(s))
  BY <1>5
<1> QED BY <1>1, <1>6 DEF LineOf

\* What is in the log stays as it is when it is logged again.
LEMMA LogAgain ==
  ASSUME NEW s \in Seq(Characters)
  PROVE  LET line == FormatQueryForLogging(s)
         IN  line \in Seq(Characters) /\ FormatQueryForLogging(line) = line
<1>1. Len(s) \in 0 .. Len(s) /\ Upto(s, Len(s)) = s
  BY PrefixesAre
<1>2. FormatQueryForLogging(s) \in Seq(Characters) /\ Single(FormatQueryForLogging(s))
  BY <1>1, LineTo
<1> QED BY <1>2, LogSingle

\* After k characters of s a comment ends, and the line does not end it.
Breaks(s, k) == Read(Upto(s, k)).mode = "comment" /\ s[k + 1] = "break"

\* After k characters of s there is a blank in a literal that the line does not have.
Blurs(s, k) ==
  /\ Read(Upto(s, k)).mode = "literal" /\ s[k + 1] \in Blanks
  /\ s[k + 1] # "space" \/ s[k] \in Blanks

\* After k characters, a text and its line have been read alike.
InLine(s, k) ==
  LET at == Read(Upto(s, k))
      line == LineOf(s, k)
  IN  /\ Read(line) = at
      /\ k > 0 =>
           /\ line # <<>> /\ (s[k] \in Blanks <=> Last(line) = "space")
           /\ s[k] \in Blanks /\ at.mode = "code" => Separated(at.out) = at.out

\* They are read alike as long as the line has the blanks of the literals and no
\* comment has ended.
LEMMA InLineStep ==
  ASSUME NEW s \in Seq(Characters), s[1] \notin Blanks,
         NEW k \in 0 .. Len(s), k < Len(s), InLine(s, k), ~Breaks(s, k), ~Blurs(s, k)
  PROVE  InLine(s, k + 1)
<1> DEFINE at == Read(Upto(s, k))
           line == LineOf(s, k)
           c == s[k + 1]
           x == IF c \in Blanks THEN "space" ELSE c
           more == LineOf(s, k + 1)
           next == Read(Upto(s, k + 1))
<1>1. Len(s) \in Nat /\ k \in Nat /\ k + 1 \in Nat /\ k + 1 > 0
  BY PrefixesAre
<1>2. /\ c \in Characters /\ next = After(at, c) /\ more = Joined(line, c)
      /\ Readable(at) /\ line \in Seq(Characters) /\ Single(line)
  BY PrefixesAre, ReadTo, LineTo DEF LineOf
<1>3. Read(line) = at
  BY DEF InLine
<1>4. /\ k > 0 => line # <<>> /\ (s[k] \in Blanks <=> Last(line) = "space")
      /\ k > 0 /\ s[k] \in Blanks /\ at.mode = "code" => Separated(at.out) = at.out
  BY DEF InLine
<1>5. at.mode = "comment" => c # "break"
  BY DEF Breaks
<1>6. at.mode = "literal" /\ c \in Blanks => c = "space" /\ s[k] \notin Blanks
  BY DEF Blurs
<1>7. c \in Blanks => k > 0
  <2>1. k = 0 => k + 1 = 1
    OBVIOUS
  <2> QED BY <1>1, <2>1
<1> HIDE DEF at, line, c, x, more, next
<1>8. /\ x \in Characters /\ more # <<>> /\ Last(more) = x
      /\ line # <<>> /\ c \in Blanks /\ Last(line) = "space" => more = line
      /\ c \notin Blanks \/ (line # <<>> /\ Last(line) # "space") => more = Append(line, x)
  <2>1. /\ x \in Characters
        /\ more # <<>> => Last(more) = x
        /\ line # <<>> => more # <<>>
        /\ line # <<>> /\ c \in Blanks /\ Last(line) = "space" => more = line
        /\ c \notin Blanks \/ (line # <<>> /\ Last(line) # "space") => more = Append(line, x)
    BY <1>2, JoinedIs DEF x
  <2>2. Len(Append(line, x)) = Len(line) + 1 /\ Len(line) \in Nat
    BY <1>2, <2>1, AppendProperties, LenProperties
  <2>3. Append(line, x) # <<>>
    <3>1. Len(Append(line, x)) # 0
      BY <2>2
    <3> QED BY <3>1, EmptySeq
  <2> QED BY <1>4, <1>7, <2>1, <2>3
<1>9. Read(Append(line, x)) = After(at, x)
  BY <1>2, <1>3, <1>8, ReadingIs
<1>10. at.out \in Seq(Marks) /\ at = [mode |-> at.mode, out |-> at.out] /\ at.mode \in Modes
  BY <1>2 DEF Readable
<1>11. /\ c \in Blanks => x = "space"
       /\ c \notin Blanks => x = c /\ x # "space"
       /\ "space" \in Characters
  BY CharactersAre DEF x
<1>12. /\ Read(more) = next
       /\ c \in Blanks /\ next.mode = "code" => Separated(next.out) = next.out
  <2>1. CASE c \notin Blanks
    BY <1>2, <1>8, <1>9, <1>11, <2>1
  <2>2. CASE c \in Blanks /\ at.mode = "literal"
    <3>1. c = "space" /\ line # <<>> /\ Last(line) # "space"
      BY <1>4, <1>6, <1>7, <2>2
    <3>2. Read(more) = next
      BY <1>2, <1>8, <1>9, <1>11, <2>2, <3>1
    <3>3. next = [mode |-> "literal", out |-> Append(at.out, c)]
      BY <1>2, <2>2, <3>1, AfterIs
    <3> QED BY <3>2, <3>3
  <2>3. CASE c \in Blanks /\ at.mode = "comment"
    <3>1. c = "space"
      BY <1>5, <2>3, CharactersAre
    <3>2. next = [mode |-> "comment", out |-> at.out] /\ After(at, x) = next
      BY <1>2, <1>11, <2>3, <3>1, AfterIs
    <3>3. next = at /\ next.mode = "comment"
      BY <1>10, <2>3, <3>2
    <3> QED BY <1>3, <1>4, <1>7, <1>8, <1>9, <2>3, <3>2, <3>3
  <2>4. CASE c \in Blanks /\ at.mode = "code"
    <3>1. next = [mode |-> "code", out |-> Separated(at.out)]
      BY <1>2, <2>4, AfterIs
    <3>2. After(at, x) = next
      <4>1. x = "space" /\ x \in Blanks
        BY <1>11, <2>4, CharactersAre
      <4> QED BY <1>2, <1>8, <2>4, <3>1, <4>1, AfterIs
    <3>3. Separated(next.out) = next.out
      BY <1>10, <3>1, SeparatedIs
    <3>4. CASE Last(line) = "space"
      <4>1. more = line /\ Separated(at.out) = at.out
        BY <1>4, <1>7, <1>8, <2>4, <3>4
      <4>2. next = at
        BY <1>10, <2>4, <3>1, <4>1
      <4> QED BY <1>3, <3>3, <4>1, <4>2
    <3>5. CASE Last(line) # "space"
      BY <1>4, <1>7, <1>8, <1>9, <2>4, <3>2, <3>3, <3>5
    <3> QED BY <3>4, <3>5
  <2> QED BY <1>10, <2>1, <2>2, <2>3, <2>4 DEF Modes
<1>13. c \in Blanks <=> Last(more) = "space"
  BY <1>8, <1>11
<1> QED BY <1>8, <1>12, <1>13 DEF InLine, at, line, c, more, next

\* The first k characters have no such place.
Alike(s, k) == \A j \in 0 .. k - 1 : ~Breaks(s, j) /\ ~Blurs(s, j)

\* Without such a place a text and its line are read alike.
LEMMA InLineTo ==
  ASSUME NEW s \in Seq(Characters), s[1] \notin Blanks, NEW k \in 0 .. Len(s), Alike(s, k)
  PROVE  InLine(s, k)
<1> DEFINE T == {j \in Nat : j <= k => InLine(s, j)}
<1>1. Len(s) \in Nat /\ k \in Nat /\ k <= Len(s)
  BY PrefixesAre
<1>2. 0 \in T
  <2> DEFINE none == <<>>
  <2>1. Upto(s, 0) = none /\ LineOf(s, 0) = none
    BY PrefixesAre DEF LineOf
  <2> HIDE DEF none
  <2>2. InLine(s, 0)
    BY <2>1 DEF InLine
  <2> QED BY <2>2
<1>3. ASSUME NEW j \in T PROVE j + 1 \in T
  <2> SUFFICES ASSUME j + 1 <= k PROVE InLine(s, j + 1)
    OBVIOUS
  <2>1. j \in 0 .. Len(s) /\ j < Len(s) /\ j \in 0 .. k - 1 /\ j <= k
    BY <1>1
  <2>2. InLine(s, j)
    BY <2>1
  <2>3. ~Breaks(s, j) /\ ~Blurs(s, j)
    BY <2>1 DEF Alike
  <2> QED BY <2>1, <2>2, <2>3, InLineStep
<1>4. T = Nat
  <2>1. T \in SUBSET Nat
    OBVIOUS
  <2> HIDE DEF T
  <2> QED BY <1>2, <1>3, <2>1, Induction
<1>5. k \in T /\ k <= k
  <2> HIDE DEF T
  <2> QED BY <1>1, <1>4
<1> QED BY <1>5

\* The meaning of a text has all that was read but a separator at the end.
LEMMA MeaningIs ==
  ASSUME NEW s \in Seq(Characters)
  PROVE  LET out == Read(s).out
         IN  /\ Len(Meaning(s)) \in Nat /\ Len(Meaning(s)) <= Len(out)
             /\ \A p \in 1 .. Len(out) :
                  out[p] # "gap" => p <= Len(Meaning(s)) /\ Meaning(s)[p] = out[p]
             /\ Meaning(s) = <<>> <=> out = <<>>
             /\ Separated(out) = out => Meaning(s) = IF out = <<>> THEN out ELSE Front(out)
<1> DEFINE out == Read(s).out
           n == Len(out)
           shorter == Front(out)
<1>1. out \in Seq(Marks) /\ (out # <<>> => out[1] # "gap")
  BY ReadAll DEF Readable
<1>2. n \in Nat /\ (out = <<>> <=> n = 0)
  BY <1>1, LenProperties, EmptySeq
<1>3. Meaning(s) = IF out # <<>> /\ Last(out) = "gap" THEN shorter ELSE out
  BY DEF Meaning
<1>4. Separated(out) = out => out = <<>> \/ Last(out) = "gap"
  BY <1>1, SeparatedIs
<1>5. CASE out # <<>> /\ Last(out) = "gap"
  <2> DEFINE m == n - 1
  <2>1. m \in Nat /\ m + 1 = n /\ 1 \in 1 .. n
    BY <1>2, <1>5
  <2>2. \A k \in 1 .. m : out[k] \in Marks
    <3>1. \A k \in 1 .. m : k \in 1 .. n
      BY <2>1
    <3> QED BY <1>1, <3>1, ElementOfSeq
  <2>3. shorter \in Seq(Marks) /\ Len(shorter) = m /\ \A k \in 1 .. m : shorter[k] = out[k]
    <3> HIDE DEF out
    <3>1. shorter = SubSeq(out, 1, m)
      BY DEF Front
    <3>2. 1 \in Int /\ m \in Int
      BY <2>1
    <3>3. /\ SubSeq(out, 1, m) \in Seq(Marks)
          /\ Len(SubSeq(out, 1, m)) = IF 1 <= m THEN m - 1 + 1 ELSE 0
          /\ \A k \in 1 .. m - 1 + 1 : SubSeq(out, 1, m)[k] = out[1 + k - 1]
      BY <1>1, <2>2, <3>2, SubSeqProperties
    <3>4. /\ (IF 1 <= m THEN m - 1 + 1 ELSE 0) = m
          /\ \A k \in 1 .. m : k \in 1 .. m - 1 + 1 /\ 1 + k - 1 = k
      BY <2>1
    <3> QED BY <3>1, <3>3, <3>4
  <2>4. Meaning(s) = shorter
    BY <1>3, <1>5
  <2>5. out[n] = "gap" /\ out[1] # "gap"
    BY <1>1, <1>5 DEF Last
  <2> HIDE DEF m, n, out, shorter
  <2>6. m # 0
    <3>1. m = 0 => n = 1
      BY <2>1
    <3> QED BY <2>5, <3>1
  <2>7. shorter # <<>>
    BY <2>3, <2>6, EmptySeq
  <2>8. \A p \in 1 .. n : out[p] # "gap" => p \in 1 .. m /\ p <= m
    BY <2>1, <2>5
  <2>9. m <= n
    BY <2>1
  <2> QED BY <1>5, <2>1, <2>3, <2>4, <2>7, <2>8, <2>9 DEF n, out, shorter
<1>6. CASE ~(out # <<>> /\ Last(out) = "gap")
  <2>1. Meaning(s) = out
    BY <1>3, <1>6
  <2>2. Separated(out) = out => out = <<>>
    BY <1>4, <1>6
  <2> HIDE DEF out
  <2>3. n <= n /\ \A p \in 1 .. n : p <= n
    BY <1>2
  <2> QED BY <1>2, <2>1, <2>2, <2>3 DEF out
<1> QED BY <1>5, <1>6

\* After the first k characters there are only blanks, up to the m-th.
BlankTo(s, k, m) == \A j \in 1 .. Len(s) : k < j /\ j <= m => s[j] \in Blanks

\* While blanks follow a space the line stays as it is.
LEMMA LineWaits ==
  ASSUME NEW s \in Seq(Characters), NEW k \in 0 .. Len(s), NEW m \in k .. Len(s),
         LineOf(s, k) # <<>>, Last(LineOf(s, k)) = "space",
         BlankTo(s, k, m)
  PROVE  LineOf(s, m) = LineOf(s, k)
<1> DEFINE line == LineOf(s, k)
           T == {j \in Nat : k + j <= m => LineOf(s, k + j) = line}
<1>1. Len(s) \in Nat /\ k \in Nat /\ m \in Nat /\ k <= m /\ m <= Len(s) /\ m - k \in Nat
  BY PrefixesAre
<1>2. line \in Seq(Characters) /\ Single(line) /\ line # <<>> /\ Last(line) = "space"
  BY LineTo DEF LineOf
<1>3. 0 \in T
  <2>1. k + 0 = k
    BY <1>1
  <2> QED BY <2>1
<1> HIDE DEF line
<1>4. ASSUME NEW j \in T PROVE j + 1 \in T
  <2> SUFFICES ASSUME k + (j + 1) <= m PROVE LineOf(s, k + (j + 1)) = line
    OBVIOUS
  <2>1. /\ k + j \in 0 .. Len(s) /\ k + j < Len(s) /\ (k + j) + 1 = k + (j + 1)
        /\ k + (j + 1) \in 1 .. Len(s) /\ k < k + (j + 1)
    BY <1>1
  <2>2. LineOf(s, k + j) = line
    BY <2>1
  <2>3. s[(k + j) + 1] \in Characters
        /\ LineOf(s, (k + j) + 1) = Joined(line, s[(k + j) + 1])
    BY <2>1, <2>2, PrefixesAre DEF LineOf
  <2>4. s[(k + j) + 1] \in Blanks
    BY <2>1 DEF BlankTo
  <2>5. Joined(line, s[(k + j) + 1]) = line
    BY <1>2, <2>3, <2>4, JoinedIs
  <2> QED BY <2>1, <2>3, <2>5
<1>5. T = Nat
  <2>1. T \in SUBSET Nat
    OBVIOUS
  <2> HIDE DEF T
  <2> QED BY <1>3, <1>4, <2>1, Induction
<1>6. m - k \in T /\ k + (m - k) = m
  <2> HIDE DEF T
  <2> QED BY <1>1, <1>5
<1>7. LineOf(s, m) = line
  BY <1>1, <1>6
<1> QED BY <1>7 DEF line

\* From one place on a text and its line have been read differently.
Differ(s, u, p) ==
  /\ p \in Nat \ {0} /\ p <= Len(Read(s).out) /\ p <= Len(Read(u).out)
  /\ Read(s).out[p] # "gap" /\ Read(u).out[p] # "gap"
  /\ Read(s).out[p] # Read(u).out[p]

\* What differs there means something else.
LEMMA DifferMean ==
  ASSUME NEW s \in Seq(Characters), NEW u \in Seq(Characters), NEW p, Differ(s, u, p)
  PROVE  Meaning(u) # Meaning(s)
<1>1. p \in 1 .. Len(Read(s).out) /\ p \in 1 .. Len(Read(u).out)
  BY ReadAll DEF Differ
<1>2. Meaning(s)[p] = Read(s).out[p] /\ Meaning(u)[p] = Read(u).out[p]
  BY <1>1, MeaningIs DEF Differ
<1> QED BY <1>2 DEF Differ

\* A blank of a literal that the line does not have is a difference for good.
LEMMA Blurred ==
  ASSUME NEW s \in Seq(Characters), s # <<>>, s[1] \notin Blanks, s[Len(s)] \notin Blanks,
         NEW k \in 0 .. Len(s), k < Len(s), Alike(s, k), Blurs(s, k)
  PROVE  Meaning(FormatQueryForLogging(s)) # Meaning(s)
<1> DEFINE N == Len(s)
           at == Read(Upto(s, k))
           line == LineOf(s, k)
           c == s[k + 1]
           O == at.out
           p == Len(O) + 1
           u == FormatQueryForLogging(s)
<1>1. N \in Nat /\ k \in Nat /\ k + 1 \in 0 .. N /\ N \in 0 .. N /\ N \in k + 1 .. N
  BY PrefixesAre
<1>2. /\ c \in Characters /\ Read(Upto(s, k + 1)) = After(at, c)
      /\ Readable(at) /\ line \in Seq(Characters) /\ Single(line)
  BY PrefixesAre, ReadTo, LineTo DEF LineOf
<1>3. at.mode = "literal" /\ c \in Blanks /\ (c # "space" \/ s[k] \in Blanks)
  BY DEF Blurs
<1>4. k > 0
  <2>1. at.mode # "code"
    BY <1>3
  <2>2. Read(Upto(s, 0)).mode = "code"
    BY PrefixesAre
  <2>3. k # 0
    BY <2>1, <2>2
  <2> QED BY <1>1, <2>3
<1>5. /\ Read(line) = at /\ line # <<>> /\ (s[k] \in Blanks <=> Last(line) = "space")
  BY <1>4, InLineTo DEF InLine
<1>6. Upto(s, N) = s /\ LineOf(s, N) = u /\ u \in Seq(Characters)
  <2>1. Upto(s, N) = s
    BY PrefixesAre
  <2> QED BY <1>1, <2>1, LineTo DEF LineOf
<1>7. O \in Seq(Marks) /\ Len(O) \in Nat /\ p \in Nat \ {0}
  <2>1. O \in Seq(Marks)
    BY <1>2 DEF Readable
  <2> QED BY <2>1, LenProperties
<1> HIDE DEF N, at, line, c, O, p, u
<1>8. ASSUME NEW x \in Characters
      PROVE  After(at, x).out = Append(O, x) /\ Len(Append(O, x)) = p /\ Append(O, x)[p] = x
  <2>1. After(at, x) = [mode |-> IF x = "quote" THEN "code" ELSE "literal",
                        out |-> Append(O, x)]
    BY <1>2, <1>3, AfterIs DEF O
  <2>2. x \in Marks
    BY CharactersAre
  <2>3. Len(Append(O, x)) = Len(O) + 1 /\ Append(O, x)[Len(O) + 1] = x
    BY <1>7, <2>2, AppendProperties
  <2> QED BY <2>1, <2>3 DEF p
<1>9. p <= Len(Read(s).out) /\ Read(s).out[p] = c
  <2>1. Begins(Read(Upto(s, N)).out, Read(Upto(s, k + 1)).out)
    BY <1>1, ReadOn DEF N
  <2>2. Read(Upto(s, k + 1)).out = Append(O, c)
    BY <1>2, <1>8
  <2>3. Begins(Read(s).out, Append(O, c))
    BY <1>6, <2>1, <2>2
  <2>4. Len(Append(O, c)) = p /\ Append(O, c)[p] = c /\ p \in 1 .. p
    BY <1>2, <1>7, <1>8
  <2> QED BY <2>3, <2>4 DEF Begins
<1>10. ASSUME NEW m \in 0 .. N, NEW x \in Characters, LineOf(s, m) = Append(line, x)
       PROVE  p <= Len(Read(u).out) /\ Read(u).out[p] = x
  <2>1. Begins(Read(LineOf(s, N)).out, Read(LineOf(s, m)).out)
    <3>1. N \in m .. N
      BY <1>1
    <3> QED BY <3>1, LineOn DEF N
  <2>2. Read(LineOf(s, m)).out = Append(O, x)
    <3>1. Read(Append(line, x)) = After(at, x)
      BY <1>2, <1>5, ReadingIs
    <3> QED BY <1>8, <1>10, <3>1
  <2>3. Begins(Read(u).out, Append(O, x))
    BY <1>6, <2>1, <2>2
  <2>4. Len(Append(O, x)) = p /\ Append(O, x)[p] = x /\ p \in 1 .. p
    BY <1>7, <1>8
  <2> QED BY <2>3, <2>4 DEF Begins
<1>11. \E x \in Characters : x # c /\ p <= Len(Read(u).out) /\ Read(u).out[p] = x
  <2>1. CASE s[k] \notin Blanks
    <3>1. c # "space" /\ Last(line) # "space" /\ "space" \in Characters
      BY <1>3, <1>5, <2>1, CharactersAre
    <3>2. LineOf(s, k + 1) = Joined(line, c)
      <4>1. k < Len(s)
        OBVIOUS
      <4> QED BY <4>1, PrefixesAre DEF LineOf, line, c
    <3>3. Joined(line, c) = Append(line, "space")
      BY <1>2, <1>3, <1>5, <3>1, JoinedIs
    <3> QED BY <1>1, <1>10, <3>1, <3>2, <3>3
  <2>2. CASE s[k] \in Blanks
    <3> DEFINE Dark == {j \in 1 .. N : k < j /\ s[j] \notin Blanks}
    <3>1. Dark \in SUBSET Nat /\ Dark # {}
      <4>1. N \in 1 .. N /\ k < N
        BY <1>1 DEF N
      <4>2. N \in Dark
        BY <4>1 DEF N
      <4> QED BY <4>2
    <3>2. PICK j \in Dark : \A b \in Dark : j <= b
      <4> HIDE DEF Dark
      <4> QED BY <3>1, LeastIs
    <3>3. /\ j \in 1 .. N /\ k < j /\ s[j] \notin Blanks
          /\ \A b \in 1 .. N : k < b /\ b < j => s[b] \in Blanks
      BY <1>1, <3>2
    <3> HIDE DEF Dark
    <3>4. PICK m \in Nat : m + 1 = j
      <4>1. j - 1 \in Nat /\ (j - 1) + 1 = j
        BY <3>3
      <4> QED BY <4>1
    <3>5. /\ m \in k .. N /\ m \in 0 .. N /\ m < N /\ j \in 0 .. N
          /\ \A b \in 1 .. N : b <= m => b < j
      BY <1>1, <3>3, <3>4
    <3>6. BlankTo(s, k, m)
      BY <3>3, <3>5 DEF BlankTo, N
    <3>7. LineOf(s, m) = line
      BY <1>5, <2>2, <3>5, <3>6, LineWaits DEF N, line
    <3>8. s[j] \in Characters /\ LineOf(s, j) = Joined(line, s[j])
      BY <3>4, <3>5, <3>7, PrefixesAre DEF LineOf, N
    <3>9. LineOf(s, j) = Append(line, s[j])
      BY <1>2, <3>3, <3>8, JoinedIs
    <3> QED BY <1>3, <1>10, <3>3, <3>5, <3>8, <3>9
  <2> QED BY <2>1, <2>2
<1>12. Differ(s, u, p)
  <2>1. \A x \in Characters : x # "gap"
    BY CharactersAre
  <2> QED BY <1>2, <1>7, <1>9, <1>11, <2>1 DEF Differ
<1> QED BY <1>6, <1>12, DifferMean DEF u

\* What follows the first k characters.
Suffix(s, k) == SubSeq(s, k + 1, Len(s))

\* A suffix, as a sequence.
LEMMA SuffixIs ==
  ASSUME NEW s \in Seq(Characters), NEW k \in 0 .. Len(s)
  PROVE  /\ Suffix(s, k) \in Seq(Characters) /\ Len(Suffix(s, k)) = Len(s) - k
         /\ \A j \in 1 .. Len(s) - k : Suffix(s, k)[j] = s[k + j]
<1> DEFINE N == Len(s)
           d == N - k
<1>1. N \in Nat /\ k \in Nat /\ k <= N
  BY LenProperties
<1>2. \A j \in k + 1 .. N : s[j] \in Characters
  <2>1. \A j \in k + 1 .. N : j \in 1 .. N
    BY <1>1
  <2> QED BY <2>1, ElementOfSeq
<1> HIDE DEF N
<1>3. k + 1 \in Int /\ N \in Int /\ d \in Nat
  BY <1>1
<1>4. /\ SubSeq(s, k + 1, N) \in Seq(Characters)
      /\ Len(SubSeq(s, k + 1, N)) = IF k + 1 <= N THEN N - (k + 1) + 1 ELSE 0
      /\ \A j \in 1 .. N - (k + 1) + 1 : SubSeq(s, k + 1, N)[j] = s[(k + 1) + j - 1]
  BY <1>2, <1>3, SubSeqProperties
<1>5. /\ (IF k + 1 <= N THEN N - (k + 1) + 1 ELSE 0) = d
      /\ \A j \in 1 .. d : j \in 1 .. N - (k + 1) + 1 /\ (k + 1) + j - 1 = k + j
  BY <1>1
<1> QED BY <1>4, <1>5 DEF Suffix, N

\* One more character, whether or not something has been read before: behind a
\* separator, or at the beginning, a separator is nothing.
LEMMA AfterShift ==
  ASSUME NEW O \in Seq(Marks), Separated(O) = O, NEW x, Readable(x),
         NEW y, Readable(y), y.mode = x.mode, y.out = O \o x.out, NEW c \in Characters
  PROVE  /\ After(y, c).mode = After(x, c).mode
         /\ After(y, c).out = O \o After(x, c).out
<1> DEFINE X == x.out
           Y == y.out
<1>1. /\ X \in Seq(Marks) /\ Y \in Seq(Marks) /\ Y = O \o X /\ x.mode \in Modes
      /\ c \in Marks /\ "gap" \in Marks /\ y.mode = x.mode
  BY CharactersAre DEF Readable
<1> HIDE DEF X, Y
<1>2. ASSUME NEW z \in Marks PROVE Append(Y, z) = O \o Append(X, z)
  <2>1. Append(Y, z) = Y \o <<z>> /\ Append(X, z) = X \o <<z>> /\ <<z>> \in Seq(Marks)
    BY <1>1, AppendIsConcat
  <2>2. (O \o X) \o <<z>> = O \o (X \o <<z>>)
    BY <1>1, <2>1, ConcatAssociative
  <2> QED BY <1>1, <2>1, <2>2
<1>3. Separated(Y) = O \o Separated(X)
  <2>1. CASE X = <<>>
    <3>1. Y = O
      BY <1>1, <2>1, ConcatEmptySeq
    <3>2. Separated(X) = X
      BY <2>1 DEF Separated
    <3> QED BY <1>1, <3>1, <3>2
  <2>2. CASE X # <<>>
    <3> DEFINE a == Len(O)
               n == Len(X)
    <3>1. a \in Nat /\ n \in Nat /\ n # 0
      BY <1>1, <2>2, LenProperties, EmptySeq
    <3>2. /\ Len(Y) = a + n
          /\ \A j \in 1 .. a + n : Y[j] = IF j <= a THEN O[j] ELSE X[j - a]
      BY <1>1, ConcatProperties
    <3> HIDE DEF a, n
    <3>3. a + n \in 1 .. a + n /\ ~(a + n <= a) /\ (a + n) - a = n /\ a + n # 0
      BY <3>1
    <3>4. Last(Y) = Last(X) /\ Y # <<>>
      BY <3>2, <3>3, EmptySeq DEF Last, n
    <3>5. CASE Last(X) = "gap"
      <4>1. Separated(X) = X /\ Separated(Y) = Y
        BY <3>4, <3>5 DEF Separated
      <4> QED BY <1>1, <4>1
    <3>6. CASE Last(X) # "gap"
      <4>1. Separated(X) = Append(X, "gap") /\ Separated(Y) = Append(Y, "gap")
        BY <2>2, <3>4, <3>6 DEF Separated
      <4> QED BY <1>1, <1>2, <4>1
    <3> QED BY <3>5, <3>6
  <2> QED BY <2>1, <2>2
<1>4. CASE x.mode = "literal"
  <2>1. After(x, c) = [mode |-> IF c = "quote" THEN "code" ELSE "literal", out |-> Append(X, c)]
    BY <1>4, AfterIs DEF X
  <2>2. After(y, c) = [mode |-> IF c = "quote" THEN "code" ELSE "literal", out |-> Append(Y, c)]
    BY <1>1, <1>4, AfterIs DEF Y
  <2>3. /\ After(x, c).mode = After(y, c).mode
        /\ After(x, c).out = Append(X, c) /\ After(y, c).out = Append(Y, c)
    BY <2>1, <2>2
  <2>4. Append(Y, c) = O \o Append(X, c)
    BY <1>1, <1>2
  <2> QED BY <2>3, <2>4
<1>5. CASE x.mode = "comment"
  <2>1. After(x, c) = [mode |-> IF c = "break" THEN "code" ELSE "comment", out |-> X]
    BY <1>5, AfterIs DEF X
  <2>2. After(y, c) = [mode |-> IF c = "break" THEN "code" ELSE "comment", out |-> Y]
    BY <1>1, <1>5, AfterIs DEF Y
  <2> QED BY <1>1, <2>1, <2>2
<1>6. CASE x.mode = "code" /\ c = "dashes"
  <2>1. After(x, c) = [mode |-> "comment", out |-> Separated(X)]
    BY <1>6, AfterIs DEF X
  <2>2. After(y, c) = [mode |-> "comment", out |-> Separated(Y)]
    BY <1>1, <1>6, AfterIs DEF Y
  <2> QED BY <1>3, <2>1, <2>2
<1>7. CASE x.mode = "code" /\ c \in Blanks
  <2>1. After(x, c) = [mode |-> "code", out |-> Separated(X)]
    BY <1>7, AfterIs DEF X
  <2>2. After(y, c) = [mode |-> "code", out |-> Separated(Y)]
    BY <1>1, <1>7, AfterIs DEF Y
  <2> QED BY <1>3, <2>1, <2>2
<1>8. CASE x.mode = "code" /\ c # "dashes" /\ c \notin Blanks
  <2>1. After(x, c) = [mode |-> IF c = "quote" THEN "literal" ELSE "code", out |-> Append(X, c)]
    BY <1>8, AfterIs DEF X
  <2>2. After(y, c) = [mode |-> IF c = "quote" THEN "literal" ELSE "code", out |-> Append(Y, c)]
    BY <1>1, <1>8, AfterIs DEF Y
  <2>3. /\ After(x, c).mode = After(y, c).mode
        /\ After(x, c).out = Append(X, c) /\ After(y, c).out = Append(Y, c)
    BY <2>1, <2>2
  <2>4. Append(Y, c) = O \o Append(X, c)
    BY <1>1, <1>2
  <2> QED BY <2>3, <2>4
<1> QED BY <1>1, <1>4, <1>5, <1>6, <1>7, <1>8 DEF Modes

\* After k characters s is outside literals and comments, and a separator changes
\* nothing.
Apart(s, k, O) ==
  /\ O \in Seq(Marks) /\ Separated(O) = O
  /\ Read(Upto(s, k)) = [mode |-> "code", out |-> O]

\* From there on the text is read as if it began there.
LEMMA ReadShift ==
  ASSUME NEW s \in Seq(Characters), NEW k \in 0 .. Len(s), NEW O, Apart(s, k, O),
         NEW m \in 0 .. Len(s) - k
  PROVE  /\ Read(Upto(s, k + m)).mode = Read(Upto(Suffix(s, k), m)).mode
         /\ Read(Upto(s, k + m)).out = O \o Read(Upto(Suffix(s, k), m)).out
<1> DEFINE r == Suffix(s, k)
           Shifted(j) == /\ Read(Upto(s, k + j)).mode = Read(Upto(r, j)).mode
                         /\ Read(Upto(s, k + j)).out = O \o Read(Upto(r, j)).out
           T == {j \in Nat : k + j <= Len(s) => Shifted(j)}
<1>1. Len(s) \in Nat /\ k \in Nat /\ m \in Nat /\ k + m <= Len(s)
  BY PrefixesAre
<1>2. /\ r \in Seq(Characters) /\ Len(r) = Len(s) - k
      /\ \A j \in 1 .. Len(s) - k : r[j] = s[k + j]
  BY SuffixIs
<1>3. O \in Seq(Marks) /\ Separated(O) = O
  BY DEF Apart
<1> HIDE DEF r
<1>4. 0 \in T
  <2> DEFINE none == <<>>
  <2>1. k + 0 = k
    BY <1>1
  <2>2. Read(Upto(s, k)) = [mode |-> "code", out |-> O]
    BY DEF Apart
  <2>3. Read(Upto(r, 0)) = [mode |-> "code", out |-> none]
    BY <1>2, PrefixesAre
  <2>4. O \o none = O
    BY <1>3, ConcatEmptySeq
  <2> HIDE DEF none
  <2>5. Shifted(0)
    BY <2>1, <2>2, <2>3, <2>4
  <2> QED BY <2>5
<1>5. ASSUME NEW j \in T PROVE j + 1 \in T
  <2> SUFFICES ASSUME k + (j + 1) <= Len(s) PROVE Shifted(j + 1)
    OBVIOUS
  <2>1. /\ k + j \in 0 .. Len(s) /\ k + j < Len(s) /\ (k + j) + 1 = k + (j + 1)
        /\ j \in 0 .. Len(s) - k /\ j < Len(s) - k /\ j + 1 \in 1 .. Len(s) - k
    BY <1>1
  <2>2. Shifted(j)
    BY <2>1
  <2>3. /\ s[(k + j) + 1] \in Characters
        /\ Read(Upto(s, (k + j) + 1)) = After(Read(Upto(s, k + j)), s[(k + j) + 1])
        /\ Readable(Read(Upto(s, k + j)))
    BY <2>1, PrefixesAre, ReadTo
  <2>4. /\ Read(Upto(r, j + 1)) = After(Read(Upto(r, j)), r[j + 1])
        /\ Readable(Read(Upto(r, j)))
    BY <1>2, <2>1, PrefixesAre, ReadTo
  <2>5. r[j + 1] = s[(k + j) + 1]
    BY <1>2, <2>1
  <2> DEFINE y == Read(Upto(s, k + j))
             x == Read(Upto(r, j))
  <2>6. y.mode = x.mode /\ y.out = O \o x.out
    BY <2>2
  <2> HIDE DEF x, y
  <2>7. /\ Readable(y) /\ Readable(x)
        /\ Read(Upto(s, k + (j + 1))) = After(y, s[(k + j) + 1])
        /\ Read(Upto(r, j + 1)) = After(x, s[(k + j) + 1])
    BY <2>1, <2>3, <2>4, <2>5 DEF x, y
  <2> DEFINE c == s[(k + j) + 1]
  <2>8. c \in Characters
    BY <2>3
  <2> HIDE DEF c
  <2>9. /\ Read(Upto(s, k + (j + 1))) = After(y, c)
        /\ Read(Upto(r, j + 1)) = After(x, c)
    BY <2>7 DEF c
  <2>10. After(y, c).mode = After(x, c).mode /\ After(y, c).out = O \o After(x, c).out
    BY <1>3, <2>6, <2>7, <2>8, AfterShift
  <2> QED BY <2>9, <2>10
<1>6. T = Nat
  <2>1. T \in SUBSET Nat
    OBVIOUS
  <2> HIDE DEF T
  <2> QED BY <1>4, <1>5, <2>1, Induction
<1>7. m \in T
  <2> HIDE DEF T
  <2> QED BY <1>1, <1>6
<1>8. Shifted(m)
  BY <1>1, <1>7
<1> QED BY <1>8 DEF r

\* A line never ends a comment.
LEMMA LineComments ==
  ASSUME NEW s \in Seq(Characters), NEW k \in 0 .. Len(s), NEW m \in k .. Len(s),
         Read(LineOf(s, k)).mode = "comment"
  PROVE  Read(LineOf(s, m)) = Read(LineOf(s, k))
<1> DEFINE at == Read(LineOf(s, k))
           T == {j \in Nat : k + j <= m => Read(LineOf(s, k + j)) = at}
<1>1. Len(s) \in Nat /\ k \in Nat /\ m \in Nat /\ k <= m /\ m <= Len(s) /\ m - k \in Nat
  BY PrefixesAre
<1>2. Readable(at) /\ at.mode = "comment"
  <2>1. LineOf(s, k) \in Seq(Characters)
    BY LineTo DEF LineOf
  <2> QED BY <2>1, ReadAll
<1>3. 0 \in T
  <2>1. k + 0 = k
    BY <1>1
  <2> QED BY <2>1
<1> HIDE DEF at
<1>4. ASSUME NEW j \in T PROVE j + 1 \in T
  <2> SUFFICES ASSUME k + (j + 1) <= m PROVE Read(LineOf(s, k + (j + 1))) = at
    OBVIOUS
  <2> DEFINE line == LineOf(s, k + j)
             c == s[(k + j) + 1]
             x == IF c \in Blanks THEN "space" ELSE c
  <2>1. k + j \in 0 .. Len(s) /\ k + j < Len(s) /\ (k + j) + 1 = k + (j + 1)
    BY <1>1
  <2>2. Read(line) = at
    BY <2>1
  <2>3. c \in Characters /\ LineOf(s, (k + j) + 1) = Joined(line, c)
    BY <2>1, PrefixesAre DEF LineOf
  <2>4. line \in Seq(Characters) /\ Single(line)
    BY <2>1, LineTo DEF LineOf
  <2> HIDE DEF line, c
  <2>5. x \in Characters /\ (Joined(line, c) = line \/ Joined(line, c) = Append(line, x))
    BY <2>3, <2>4, JoinedIs
  <2>6. x # "break"
    BY CharactersAre
  <2> HIDE DEF x
  <2>7. Read(Append(line, x)) = After(at, x)
    BY <2>2, <2>4, <2>5, ReadingIs
  <2>8. After(at, x) = [mode |-> "comment", out |-> at.out]
    BY <1>2, <2>5, <2>6, AfterIs
  <2>9. at = [mode |-> "comment", out |-> at.out]
    BY <1>2 DEF Readable
  <2> QED BY <2>1, <2>2, <2>3, <2>5, <2>7, <2>8, <2>9
<1>5. T = Nat
  <2>1. T \in SUBSET Nat
    OBVIOUS
  <2> HIDE DEF T
  <2> QED BY <1>3, <1>4, <2>1, Induction
<1>6. m - k \in T /\ k + (m - k) = m
  <2> HIDE DEF T
  <2> QED BY <1>1, <1>5
<1>7. Read(LineOf(s, m)) = at
  BY <1>1, <1>6
<1> QED BY <1>7 DEF at

\* Where a comment ends the text goes on apart.
LEMMA BreaksApart ==
  ASSUME NEW s \in Seq(Characters), NEW k \in 0 .. Len(s), k < Len(s), Breaks(s, k)
  PROVE  Apart(s, k + 1, Read(Upto(s, k)).out)
<1> DEFINE at == Read(Upto(s, k))
           c == s[k + 1]
<1>1. /\ Readable(at) /\ c \in Characters /\ Read(Upto(s, k + 1)) = After(at, c)
  BY PrefixesAre, ReadTo
<1>2. at.mode = "comment" /\ c = "break"
  BY DEF Breaks
<1> HIDE DEF at, c
<1>3. After(at, c) = [mode |-> "code", out |-> at.out]
  BY <1>1, <1>2, AfterIs
<1>4. at.out \in Seq(Marks) /\ Separated(at.out) = at.out
  BY <1>1, <1>2 DEF Readable
<1> QED BY <1>1, <1>3, <1>4 DEF Apart, at

\* The whole text is what was read before and what follows reads.
LEMMA ReadRest ==
  ASSUME NEW s \in Seq(Characters), NEW k \in 0 .. Len(s), NEW O, Apart(s, k, O)
  PROVE  Suffix(s, k) \in Seq(Characters) /\ Read(s).out = O \o Read(Suffix(s, k)).out
<1> DEFINE d == Len(s) - k
<1>1. d \in 0 .. Len(s) - k /\ k + d = Len(s)
  BY PrefixesAre
<1>2. Suffix(s, k) \in Seq(Characters) /\ Len(Suffix(s, k)) = d
  BY SuffixIs
<1> HIDE DEF d
<1>3. Read(Upto(s, k + d)).out = O \o Read(Upto(Suffix(s, k), d)).out
  BY <1>1, ReadShift
<1>4. Upto(s, Len(s)) = s /\ Upto(Suffix(s, k), d) = Suffix(s, k)
  BY <1>2, PrefixesAre
<1> QED BY <1>1, <1>2, <1>3, <1>4

\* A line that is a comment to its end means what the text means when nothing
\* follows that comment in the text.
LEMMA Broken ==
  ASSUME NEW s \in Seq(Characters), s[1] \notin Blanks,
         NEW k \in 0 .. Len(s), k < Len(s), Alike(s, k), Breaks(s, k)
  PROVE  Meaning(FormatQueryForLogging(s)) = Meaning(s) <=> Meaning(Suffix(s, k + 1)) = <<>>
<1> DEFINE N == Len(s)
           O == Read(Upto(s, k)).out
           r == Suffix(s, k + 1)
           R == Read(r).out
           u == FormatQueryForLogging(s)
<1>1. N \in Nat /\ k \in Nat /\ k + 1 \in 0 .. N /\ N \in k .. N
  BY PrefixesAre
<1>2. r \in Seq(Characters)
  BY <1>1, SuffixIs
<1>3. Apart(s, k + 1, O)
  BY BreaksApart
<1>4. O \in Seq(Marks) /\ Separated(O) = O
  BY <1>3 DEF Apart
<1>5. Upto(s, N) = s
  BY PrefixesAre
<1>6. Read(s).out = O \o R
  BY <1>1, <1>3, ReadRest
<1>7. u \in Seq(Characters) /\ Read(u).out = O
  <2>1. LineOf(s, N) = u /\ u \in Seq(Characters)
    BY <1>1, <1>5, LineTo DEF LineOf
  <2>2. Read(LineOf(s, k)) = Read(Upto(s, k))
    BY InLineTo DEF InLine
  <2>3. Read(Upto(s, k)).mode = "comment"
    BY DEF Breaks
  <2>4. Read(LineOf(s, N)) = Read(LineOf(s, k))
    BY <1>1, <2>2, <2>3, LineComments
  <2> QED BY <2>1, <2>2, <2>4
<1>8. /\ R \in Seq(Marks) /\ (R # <<>> => R[1] # "gap") /\ (Meaning(r) = <<>> <=> R = <<>>)
  BY <1>2, ReadAll, MeaningIs DEF Readable
<1> HIDE DEF N, O, r, R, u
<1>9. CASE R = <<>>
  <2>1. Read(s).out = O
    BY <1>4, <1>6, <1>9, ConcatEmptySeq
  <2>2. Meaning(s) = IF O = <<>> THEN O ELSE Front(O)
    BY <1>4, <2>1, MeaningIs
  <2>3. Meaning(u) = IF O = <<>> THEN O ELSE Front(O)
    BY <1>4, <1>7, MeaningIs
  <2> QED BY <1>8, <1>9, <2>2, <2>3 DEF r, u
<1>10. CASE R # <<>>
  <2> DEFINE a == Len(O)
             b == Len(R)
             p == a + 1
             S == Read(s).out
  <2>1. a \in Nat /\ b \in Nat /\ b # 0
    BY <1>4, <1>8, <1>10, LenProperties, EmptySeq
  <2>2. /\ Len(O \o R) = a + b
        /\ \A j \in 1 .. a + b : (O \o R)[j] = IF j <= a THEN O[j] ELSE R[j - a]
    BY <1>4, <1>8, ConcatProperties
  <2>3. Len(S) = a + b /\ \A j \in 1 .. a + b : S[j] = IF j <= a THEN O[j] ELSE R[j - a]
    BY <1>6, <2>2
  <2> HIDE DEF a, b, S
  <2>4. p \in 1 .. a + b /\ ~(p <= a) /\ p - a = 1
    BY <2>1
  <2>5. p \in 1 .. Len(S) /\ S[p] # "gap"
    BY <1>8, <1>10, <2>3, <2>4
  <2>6. p <= Len(Meaning(s)) /\ Len(Meaning(s)) \in Nat
    BY <2>5, MeaningIs DEF S
  <2>7. Len(Meaning(u)) <= a /\ Len(Meaning(u)) \in Nat
    BY <1>7, MeaningIs DEF a
  <2>8. Len(Meaning(u)) # Len(Meaning(s))
    BY <2>1, <2>6, <2>7
  <2> QED BY <1>8, <1>10, <2>8 DEF r, u
<1> QED BY <1>9, <1>10

\* Nothing goes wrong after the first k characters: a literal has its blanks in the
\* line, and after a comment that ends there nothing has a meaning.
Silent(s, k) ==
  /\ ~Blurs(s, k)
  /\ Breaks(s, k) => Meaning(Suffix(s, k + 1)) = <<>>

\* Where nothing follows, nothing goes wrong.
LEMMA RestSilent ==
  ASSUME NEW s \in Seq(Characters), NEW k \in 0 .. Len(s), k < Len(s), Breaks(s, k),
         Meaning(Suffix(s, k + 1)) = <<>>, NEW j \in k + 1 .. Len(s) - 1
  PROVE  Silent(s, j)
<1> DEFINE O == Read(Upto(s, k)).out
           r == Suffix(s, k + 1)
           R == Read(r).out
           m == j - (k + 1)
           at == Read(Upto(r, m))
<1>1. /\ k + 1 \in 0 .. Len(s) /\ m \in 0 .. Len(s) - (k + 1) /\ (k + 1) + m = j
      /\ Len(s) - (k + 1) \in m .. Len(s) - (k + 1)
      /\ j \in 0 .. Len(s) /\ j < Len(s) /\ j + 1 \in 0 .. Len(s)
  BY PrefixesAre
<1>2. r \in Seq(Characters) /\ Len(r) = Len(s) - (k + 1) /\ Upto(r, Len(r)) = r
  BY <1>1, SuffixIs, PrefixesAre
<1>3. Apart(s, k + 1, O) /\ O \in Seq(Marks)
  BY BreaksApart DEF Apart
<1>4. Read(s).out = O \o R
  BY <1>1, <1>3, ReadRest
<1>5. R = <<>>
  BY <1>2, MeaningIs
<1> HIDE DEF O, r, R, m
<1>6. Read(s).out = O
  BY <1>3, <1>4, <1>5, ConcatEmptySeq
<1>7. Readable(at) /\ Begins(R, at.out)
  <2>1. m \in 0 .. Len(r) /\ Len(r) \in m .. Len(r)
    BY <1>1, <1>2
  <2>2. Begins(Read(Upto(r, Len(r))).out, at.out)
    BY <1>2, <2>1, ReadOn
  <2> QED BY <1>2, <2>1, <2>2, ReadTo DEF R
<1>8. at.out = <<>>
  <2>1. at.out \in Seq(Marks)
    BY <1>7 DEF Readable
  <2>2. Len(R) = 0
    BY <1>5
  <2>3. Len(at.out) = 0
    <3> HIDE DEF at
    <3> QED BY <1>7, <2>2, <2>1, LenProperties DEF Begins
  <2> HIDE DEF at
  <2> QED BY <2>1, <2>3, EmptySeq
<1>9. at.mode # "literal"
  BY <1>7, <1>8 DEF Readable
<1>10. Read(Upto(s, j)).mode = at.mode /\ Read(Upto(s, j)).out = O \o at.out
  <2>1. /\ Read(Upto(s, (k + 1) + m)).mode = Read(Upto(Suffix(s, k + 1), m)).mode
        /\ Read(Upto(s, (k + 1) + m)).out = O \o Read(Upto(Suffix(s, k + 1), m)).out
    BY <1>1, <1>3, ReadShift
  <2> QED BY <1>1, <2>1 DEF r
<1> HIDE DEF at
<1>11. ~Blurs(s, j)
  BY <1>9, <1>10 DEF Blurs
<1>12. ASSUME Breaks(s, j) PROVE Meaning(Suffix(s, j + 1)) = <<>>
  <2> DEFINE q == Suffix(s, j + 1)
             Q == Read(q).out
  <2>1. Read(Upto(s, j)).out = O
    BY <1>3, <1>8, <1>10, ConcatEmptySeq
  <2>2. Apart(s, j + 1, O)
    BY <1>1, <1>12, <2>1, BreaksApart
  <2>3. q \in Seq(Characters) /\ Read(s).out = O \o Q
    BY <1>1, <2>2, ReadRest
  <2>4. Q \in Seq(Marks)
    BY <2>3, ReadAll
  <2> HIDE DEF q, Q
  <2>5. Q = <<>>
    BY <1>3, <1>6, <2>3, <2>4, ConcatEqualIffEmpty
  <2>6. Meaning(q) = <<>>
    BY <2>3, <2>5, MeaningIs DEF Q
  <2> QED BY <2>6 DEF q
<1> QED BY <1>11, <1>12 DEF Silent

\* A plain text is one where nothing goes wrong.
LEMMA PlainSilent ==
  ASSUME NEW s \in Seq(Characters)
  PROVE  Plain(s) <=> \A k \in 0 .. Len(s) - 1 : Silent(s, k)
<1> DEFINE Tame(p) ==
             LET mode == Read(SubSeq(s, 1, p - 1)).mode
             IN  /\ mode = "literal" => s[p] = "space" /\ s[p - 1] \notin Blanks
                 /\ mode = "comment" /\ s[p] = "break" =>
                      Meaning(SubSeq(s, p + 1, Len(s))) = <<>>
<1>1. Len(s) \in Nat /\ DOMAIN s = 1 .. Len(s)
  BY LenProperties
<1>2. Plain(s) <=> \A p \in {q \in DOMAIN s : s[q] \in Blanks} : Tame(p)
  BY DEF Plain
<1>3. ASSUME NEW k \in 0 .. Len(s) - 1
      PROVE  Silent(s, k) <=> (s[k + 1] \in Blanks => Tame(k + 1))
  <2>1. k \in Nat /\ k < Len(s) /\ (k + 1) - 1 = k /\ k \in 0 .. Len(s)
    BY <1>1
  <2>2. SubSeq(s, 1, k) = Upto(s, k)
    <3> DEFINE n == Len(s)
    <3>1. \A b \in 1 .. k : s[b] \in Characters /\ b \in 1 .. n
      <4>1. \A b \in 1 .. k : b \in 1 .. n
        BY <1>1, <2>1
      <4> QED BY <4>1, ElementOfSeq
    <3> HIDE DEF n
    <3>2. 1 \in Int /\ k \in Int
      BY <2>1
    <3>3. /\ SubSeq(s, 1, k) \in Seq(Characters)
          /\ Len(SubSeq(s, 1, k)) = IF 1 <= k THEN k - 1 + 1 ELSE 0
          /\ \A b \in 1 .. k - 1 + 1 : SubSeq(s, 1, k)[b] = s[1 + b - 1]
      BY <3>1, <3>2, SubSeqProperties
    <3>4. (IF 1 <= k THEN k - 1 + 1 ELSE 0) = k
          /\ \A b \in 1 .. k : b \in 1 .. k - 1 + 1 /\ 1 + b - 1 = b
      BY <2>1
    <3>5. Upto(s, k) \in Seq(Characters) /\ Len(Upto(s, k)) = k
      BY <2>1, UptoIs
    <3>6. \A b \in 1 .. k : Upto(s, k)[b] = s[b]
      BY DEF Upto
    <3>7. \A b \in 1 .. k : SubSeq(s, 1, k)[b] = Upto(s, k)[b]
      BY <3>3, <3>4, <3>6
    <3>8. Len(SubSeq(s, 1, k)) = k
      BY <3>3, <3>4
    <3> QED BY <3>3, <3>5, <3>7, <3>8, SeqEqual
  <2>3. Suffix(s, k + 1) = SubSeq(s, (k + 1) + 1, Len(s))
    BY DEF Suffix
  <2>4. "break" \in Blanks
    BY CharactersAre
  <2> DEFINE mode == Read(Upto(s, k)).mode
             rest == Meaning(Suffix(s, k + 1))
  <2>5. Tame(k + 1) <=>
          /\ mode = "literal" => s[k + 1] = "space" /\ s[k] \notin Blanks
          /\ mode = "comment" /\ s[k + 1] = "break" => rest = <<>>
    BY <2>1, <2>2, <2>3
  <2>6. Silent(s, k) <=>
          /\ mode = "literal" /\ s[k + 1] \in Blanks => s[k + 1] = "space" /\ s[k] \notin Blanks
          /\ mode = "comment" /\ s[k + 1] = "break" => rest = <<>>
    BY DEF Silent, Blurs, Breaks
  <2> HIDE DEF Tame, mode, rest
  <2> QED BY <2>4, <2>5, <2>6
<1> HIDE DEF Tame
<1>4. \A p \in DOMAIN s : \E k \in 0 .. Len(s) - 1 : p = k + 1
  <2>1. ASSUME NEW p \in 1 .. Len(s) PROVE p - 1 \in 0 .. Len(s) - 1 /\ p = (p - 1) + 1
    BY <1>1
  <2> QED BY <1>1, <2>1
<1>5. \A k \in 0 .. Len(s) - 1 : k + 1 \in DOMAIN s
  BY <1>1
<1>6. ASSUME Plain(s), NEW k \in 0 .. Len(s) - 1 PROVE Silent(s, k)
  <2>1. s[k + 1] \in Blanks => k + 1 \in {q \in DOMAIN s : s[q] \in Blanks}
    BY <1>5
  <2>2. s[k + 1] \in Blanks => Tame(k + 1)
    BY <1>2, <1>6, <2>1
  <2> QED BY <1>3, <2>2
<1>7. ASSUME \A k \in 0 .. Len(s) - 1 : Silent(s, k),
             NEW p \in {q \in DOMAIN s : s[q] \in Blanks}
      PROVE  Tame(p)
  <2>1. PICK k \in 0 .. Len(s) - 1 : p = k + 1
    BY <1>4
  <2>2. s[k + 1] \in Blanks
    BY <2>1
  <2>3. Tame(k + 1)
    BY <1>3, <1>7, <2>2
  <2> QED BY <2>1, <2>3
<1> QED BY <1>2, <1>6, <1>7

\* A logged text means what the text meant if and only if the text is plain.
LEMMA LogMeaning ==
  ASSUME NEW s \in Seq(Characters), s # <<>>, s[1] \notin Blanks, s[Len(s)] \notin Blanks
  PROVE  Meaning(FormatQueryForLogging(s)) = Meaning(s) <=> Plain(s)
<1> DEFINE N == Len(s)
           u == FormatQueryForLogging(s)
           Bad == {k \in 0 .. N - 1 : Breaks(s, k) \/ Blurs(s, k)}
<1>1. N \in Nat /\ N \in 0 .. N /\ \A k \in 0 .. N - 1 : k \in 0 .. N /\ k < N /\ k \in Nat
  BY PrefixesAre
<1>2. CASE Bad = {}
  <2>1. \A k \in 0 .. N - 1 : ~Breaks(s, k) /\ ~Blurs(s, k)
    BY <1>2
  <2>2. Plain(s)
    BY <2>1, PlainSilent DEF Silent
  <2>3. InLine(s, N)
    BY <1>1, <2>1, InLineTo DEF Alike
  <2>4. Upto(s, N) = s /\ LineOf(s, N) = u
    BY PrefixesAre DEF LineOf
  <2>5. Read(u) = Read(s)
    BY <2>3, <2>4 DEF InLine
  <2>6. Meaning(u) = Meaning(s)
    BY <2>5 DEF Meaning
  <2> QED BY <2>2, <2>6
<1>3. CASE Bad # {}
  <2>1. Bad \in SUBSET Nat
    BY <1>1
  <2>2. PICK k \in Bad : \A j \in Bad : k <= j
    <3> HIDE DEF Bad
    <3> QED BY <1>3, <2>1, LeastIs
  <2>3. /\ k \in 0 .. N - 1 /\ k \in 0 .. N /\ k < N
        /\ \A j \in 0 .. k - 1 : j \in 0 .. N - 1 /\ ~(k <= j)
        /\ \A j \in 0 .. N - 1 : j \in 0 .. k - 1 \/ j = k \/ j \in k + 1 .. N - 1
    BY <1>1
  <2>4. Alike(s, k)
    BY <2>2, <2>3 DEF Alike
  <2>5. CASE Blurs(s, k)
    <3>1. Meaning(u) # Meaning(s)
      BY <2>3, <2>4, <2>5, Blurred
    <3>2. ~Silent(s, k)
      BY <2>5 DEF Silent
    <3> QED BY <2>3, <3>1, <3>2, PlainSilent
  <2>6. CASE ~Blurs(s, k)
    <3>1. Breaks(s, k)
      BY <2>2, <2>6
    <3>2. Meaning(u) = Meaning(s) <=> Meaning(Suffix(s, k + 1)) = <<>>
      BY <2>3, <2>4, <3>1, Broken
    <3>3. CASE Meaning(Suffix(s, k + 1)) # <<>>
      <4>1. ~Silent(s, k)
        BY <3>1, <3>3 DEF Silent
      <4> QED BY <2>3, <3>2, <3>3, <4>1, PlainSilent
    <3>4. CASE Meaning(Suffix(s, k + 1)) = <<>>
      <4>1. \A j \in k + 1 .. N - 1 : Silent(s, j)
        BY <2>3, <3>1, <3>4, RestSilent
      <4>2. Silent(s, k)
        BY <2>6, <3>4 DEF Silent
      <4>3. \A j \in 0 .. k - 1 : Silent(s, j)
        BY <2>4 DEF Silent, Alike
      <4>4. \A j \in 0 .. N - 1 : Silent(s, j)
        BY <2>3, <4>1, <4>2, <4>3
      <4> QED BY <3>2, <3>4, <4>4, PlainSilent
    <3> QED BY <3>3, <3>4
  <2> QED BY <2>5, <2>6
<1> QED BY <1>2, <1>3

\* What the texts are, step by step: the logged text is the text or its line.
LogInv ==
  /\ query \in Seq(Characters) /\ log \in Seq(Characters) /\ first \in Seq(Characters)
  /\ step \in {"writing", "ran", "replayed"}
  /\ step = "ran" => query = first
  /\ step = "replayed" => query \in {first, FormatQueryForLogging(first)}
  /\ step # "writing" =>
       /\ first # <<>> /\ first[1] \notin Blanks /\ first[Len(first)] \notin Blanks
       /\ log \in {query, FormatQueryForLogging(query)}

\* A query that is run again from the log means what the first one meant exactly
\* when that one is plain, and the log then keeps the text, whatever the text and
\* however often it is replayed (format_query_for_logging; index.html,
\* loadAndRunQuery).
THEOREM ReplayShows == LogSpec => []ReplayIsExact
<1>1. LogInit => LogInv
  BY DEF LogInit, LogInv
<1>2. LogInv /\ [LogNext]_logVars => LogInv'
  <2> SUFFICES ASSUME LogInv, [LogNext]_logVars PROVE LogInv'
    OBVIOUS
  <2>1. /\ query \in Seq(Characters) /\ FormatQueryForLogging(query) \in Seq(Characters)
        /\ log \in Seq(Characters) /\ FormatQueryForLogging(log) \in Seq(Characters)
        /\ first \in Seq(Characters)
    BY LogAgain DEF LogInv
  <2>2. CASE Write
    <3>1. PICK c \in Characters : query' = Append(query, c)
      BY <2>2 DEF Write
    <3>2. query' \in Seq(Characters)
      BY <2>1, <3>1, AppendProperties
    <3> QED BY <2>1, <2>2, <3>2 DEF Write, LogInv
  <2>3. CASE Run
    <3>1. query # <<>> /\ query[1] \notin Blanks /\ query[Len(query)] \notin Blanks
      <4>1. query # <<>> /\ Head(query) \notin Blanks /\ Last(query) \notin Blanks
        BY <2>3 DEF Run, Trimmed
      <4>2. Head(query) = query[1] /\ Last(query) = query[Len(query)]
        BY <2>1, <4>1 DEF Last
      <4> QED BY <4>1, <4>2
    <3> QED BY <2>1, <2>3, <3>1 DEF Run, LogInv
  <2>4. CASE Replay
    <3>1. log \in {first, FormatQueryForLogging(first)}
      <4>1. query \in {first, FormatQueryForLogging(first)}
        BY <2>4 DEF Replay, LogInv
      <4>2. log \in {query, FormatQueryForLogging(query)}
        BY <2>4 DEF Replay, LogInv
      <4>3. FormatQueryForLogging(FormatQueryForLogging(first)) = FormatQueryForLogging(first)
        BY <2>1, LogAgain
      <4> QED BY <4>1, <4>2, <4>3
    <3>2. first # <<>> /\ first[1] \notin Blanks /\ first[Len(first)] \notin Blanks
      BY <2>4 DEF Replay, LogInv
    <3> QED BY <2>1, <2>4, <3>1, <3>2 DEF Replay, LogInv
  <2>5. CASE UNCHANGED logVars
    BY <2>5 DEF logVars, LogInv
  <2> QED BY <2>2, <2>3, <2>4, <2>5 DEF LogNext
<1>3. LogInv => ReplayIsExact
  <2> SUFFICES ASSUME LogInv, step = "replayed"
               PROVE  /\ Meaning(query) = Meaning(first) <=> query = first \/ Plain(first)
                      /\ query # first => log = query
    BY DEF ReplayIsExact
  <2> DEFINE line == FormatQueryForLogging(first)
  <2>1. /\ first \in Seq(Characters) /\ first # <<>>
        /\ first[1] \notin Blanks /\ first[Len(first)] \notin Blanks
        /\ query \in {first, line} /\ log \in {query, FormatQueryForLogging(query)}
    BY DEF LogInv
  <2>2. Meaning(line) = Meaning(first) <=> Plain(first)
    BY <2>1, LogMeaning
  <2>3. FormatQueryForLogging(line) = line
    BY <2>1, LogAgain
  <2> HIDE DEF line
  <2> QED BY <2>1, <2>2, <2>3
<1> QED BY <1>1, <1>2, <1>3, PTL DEF LogSpec

================================================================================
