----------------------------- MODULE StudioProofs -----------------------------
(***************************************************************************)
(* Proofs about Studio: what a part of the page shows is the newest answer *)
(* unless the calls overlapped, the parts agree when no query is under     *)
(* way, and the history is in the order of the last successes, for any     *)
(* number of calls, copies, texts and reloads.                             *)
(***************************************************************************)
EXTENDS Studio, SequenceTheorems, TLAPS

States == {"waiting", "Success", "Error"}
Call == [kind : Kinds, sql : Texts \cup {NoText}, state : States, during : SUBSET Nat]

Types ==
  /\ calls \in Seq(Call)
  /\ shown \in [Kinds -> Nat]

\* Of two calls of one kind the older was under way when the newer began, or it
\* has ended.
Overlaps ==
  \A c, d \in DOMAIN calls :
    c < d /\ calls[c].kind = calls[d].kind => c \in calls[d].during \/ calls[c].state # "waiting"

\* What is shown is an answer.
Shown ==
  \A kind \in Kinds : shown[kind] # 0 =>
    /\ shown[kind] \in DOMAIN calls
    /\ calls[shown[kind]].kind = kind
    /\ Answered(shown[kind])

IInv == Types /\ Overlaps /\ Shown /\ StaleOnlyByOverlap

--------------------------------------------------------------------------------
\* The invariant holds on a fresh page.
LEMMA FreshIInv == FreshPage => IInv
BY DEF FreshPage, IInv, Types, Overlaps, Shown, StaleOnlyByOverlap, Kinds, Of

\* Calls are numbered from 1.
LEMMA CallNumbers ==
  ASSUME Types
  PROVE  /\ DOMAIN calls = 1 .. Len(calls) /\ Len(calls) \in Nat
         /\ \A c \in DOMAIN calls : c \in Nat \ {0} /\ calls[c] \in Call
BY LenProperties DEF Types

\* A new call waits, and is the last one.
LEMMA BeginCall ==
  ASSUME Types, NEW kind \in Kinds, NEW sql \in Texts \cup {NoText}, Begin(kind, sql)
  PROVE  /\ calls' \in Seq(Call)
         /\ DOMAIN calls' = DOMAIN calls \cup {Len(calls')}
         /\ Len(calls') = Len(calls) + 1
         /\ \A c \in DOMAIN calls : calls'[c] = calls[c]
         /\ calls'[Len(calls')].kind = kind /\ calls'[Len(calls')].state = "waiting"
         /\ calls'[Len(calls')].during = UnderWay(kind)
<1>1. UnderWay(kind) \in SUBSET Nat
  BY CallNumbers DEF UnderWay, Of
<1> DEFINE new == [kind |-> kind, sql |-> sql, state |-> "waiting", during |-> UnderWay(kind)]
<1>2. new \in Call
  BY <1>1 DEF Call, States
<1>3. calls' = Append(calls, new)
  BY DEF Begin
<1>4. new.kind = kind /\ new.state = "waiting" /\ new.during = UnderWay(kind)
  OBVIOUS
<1>5. calls \in Seq(Call)
  BY DEF Types
<1> HIDE DEF new
<1>6. /\ Append(calls, new) \in Seq(Call)
      /\ Len(Append(calls, new)) = Len(calls) + 1
      /\ \A c \in 1 .. Len(calls) : Append(calls, new)[c] = calls[c]
      /\ Append(calls, new)[Len(calls) + 1] = new
  BY <1>2, <1>5, AppendProperties
<1>7. DOMAIN calls' = 1 .. Len(calls) + 1
  BY <1>3, <1>6, LenProperties
<1>8. DOMAIN calls = 1 .. Len(calls) /\ Len(calls) \in Nat
  BY CallNumbers
<1>9. Len(calls') = Len(calls) + 1 /\ calls'[Len(calls')] = new
  BY <1>3, <1>6
<1>10. DOMAIN calls' = DOMAIN calls \cup {Len(calls')}
  BY <1>7, <1>8, <1>9
<1> QED BY <1>3, <1>4, <1>6, <1>8, <1>9, <1>10

\* A new call keeps the invariant, whether the part of the page it is for keeps
\* what it shows or is emptied.
LEMMA BeginKeepsInv ==
  ASSUME IInv, NEW kind \in Kinds, NEW sql \in Texts \cup {NoText}, Begin(kind, sql),
         shown' = shown \/ shown' = [shown EXCEPT ![kind] = 0]
  PROVE  IInv'
<1> USE DEF IInv
<1>1. /\ calls' \in Seq(Call)
      /\ DOMAIN calls' = DOMAIN calls \cup {Len(calls')}
      /\ Len(calls') = Len(calls) + 1
      /\ \A c \in DOMAIN calls : calls'[c] = calls[c]
      /\ calls'[Len(calls')].kind = kind /\ calls'[Len(calls')].state = "waiting"
      /\ calls'[Len(calls')].during = UnderWay(kind)
  BY BeginCall
<1>2. DOMAIN calls = 1 .. Len(calls) /\ Len(calls) \in Nat
  BY CallNumbers
<1>3. shown \in [Kinds -> Nat]
  BY DEF Types
<1>4. Types'
  BY <1>1, <1>3 DEF Types
<1>5. Overlaps'
  BY <1>1, <1>2 DEF Overlaps, UnderWay, Of
<1>6. \A k \in Kinds : shown'[k] \in {shown[k], 0}
  BY <1>3
<1>7. Shown'
  BY <1>1, <1>2, <1>6 DEF Shown, Answered
<1>8. StaleOnlyByOverlap'
  BY <1>1, <1>2, <1>6 DEF StaleOnlyByOverlap, Answered, Of, Shown
<1> QED BY <1>4, <1>5, <1>7, <1>8

\* The end of a call changes its state and its text only.
LEMMA EndCall ==
  ASSUME Types, NEW c \in DOMAIN calls, NEW state \in States, End(c, state)
  PROVE  /\ calls[c].state = "waiting"
         /\ calls' \in Seq(Call)
         /\ DOMAIN calls' = DOMAIN calls
         /\ \A d \in DOMAIN calls :
              /\ calls'[d].kind = calls[d].kind
              /\ calls'[d].during = calls[d].during
              /\ calls'[d].state = IF d = c THEN state ELSE calls[d].state
<1>1. calls[c].state = "waiting"
      /\ calls' = [calls EXCEPT ![c] = [[calls[c] EXCEPT !.state = state] EXCEPT !.sql = NoText]]
  BY DEF End
<1>2. calls[c] \in Call
  BY DEF Types
<1> DEFINE ended == [[calls[c] EXCEPT !.state = state] EXCEPT !.sql = NoText]
<1>3. /\ ended \in Call
      /\ ended.kind = calls[c].kind /\ ended.during = calls[c].during /\ ended.state = state
  BY <1>2 DEF Call
<1> HIDE DEF ended
<1>4. calls' = [calls EXCEPT ![c] = ended]
  BY <1>1 DEF ended
<1> QED BY <1>1, <1>3, <1>4 DEF Types

\* An answer keeps the invariant. Shown in place of a newer answer, it is of a
\* call that was under way when the newer one began.
LEMMA AnswerKeepsInv ==
  ASSUME IInv, NEW c \in DOMAIN calls, NEW state \in States \ {"waiting"}, End(c, state),
         \/ Show(c) /\ (state = "Success" \/ calls[c].kind = "query")
         \/ shown' = shown /\ state = "Error" /\ calls[c].kind # "query"
  PROVE  IInv'
<1> USE DEF IInv
<1>1. /\ calls[c].state = "waiting"
      /\ calls' \in Seq(Call)
      /\ DOMAIN calls' = DOMAIN calls
      /\ \A d \in DOMAIN calls :
           /\ calls'[d].kind = calls[d].kind
           /\ calls'[d].during = calls[d].during
           /\ calls'[d].state = IF d = c THEN state ELSE calls[d].state
  BY EndCall DEF States
<1>2. \A d \in DOMAIN calls : d \in Nat \ {0} /\ calls[d].kind \in Kinds
  BY CallNumbers DEF Call
<1>3. \A d \in DOMAIN calls : d # c => (Answered(d)' <=> Answered(d))
  BY <1>1 DEF Answered
<1>4. CASE Show(c) /\ (state = "Success" \/ calls[c].kind = "query")
  <2>1. shown' = [shown EXCEPT ![calls[c].kind] = c]
    BY <1>4 DEF Show
  <2>2. Types'
    BY <1>1, <1>2, <2>1 DEF Types
  <2>3. Overlaps'
    BY <1>1 DEF Overlaps, States
  <2>4. Answered(c)'
    BY <1>1, <1>4 DEF Answered, States
  <2>5. Shown'
    BY <1>1, <1>2, <1>3, <2>1, <2>4 DEF Shown, Types
  <2>6. ASSUME NEW d \in DOMAIN calls, calls[d].kind = calls[c].kind, d > c
        PROVE  c \in calls[d].during
    BY <1>1, <1>2, <2>6 DEF Overlaps
  <2>7. StaleOnlyByOverlap'
    <3> SUFFICES ASSUME NEW kind \in Kinds, shown'[kind] # 0,
                        NEW d \in DOMAIN calls, calls[d].kind = kind, Answered(d)'
                 PROVE  d <= shown'[kind] \/ shown'[kind] \in calls[d].during
      BY <1>1 DEF StaleOnlyByOverlap, Of
    <3>1. CASE kind = calls[c].kind
      <4>1. shown'[kind] = c
        BY <1>2, <2>1, <3>1 DEF Types
      <4> QED BY <1>2, <2>6, <3>1, <4>1
    <3>2. CASE kind # calls[c].kind
      <4>1. shown'[kind] = shown[kind] /\ d # c
        BY <2>1, <3>2 DEF Types
      <4> QED BY <1>3, <4>1 DEF StaleOnlyByOverlap, Of
    <3> QED BY <3>1, <3>2
  <2> QED BY <2>2, <2>3, <2>5, <2>7
<1>5. CASE shown' = shown /\ state = "Error" /\ calls[c].kind # "query"
  <2>1. Types' /\ Overlaps'
    BY <1>1, <1>5 DEF Types, Overlaps, States
  <2>2. ~Answered(c) /\ ~Answered(c)'
    BY <1>1, <1>5 DEF Answered
  <2>3. Shown'
    BY <1>1, <1>3, <1>5, <2>2 DEF Shown
  <2>4. StaleOnlyByOverlap'
    BY <1>1, <1>3, <1>5, <2>2 DEF StaleOnlyByOverlap, Shown, Of
  <2> QED BY <2>1, <2>3, <2>4
<1> QED BY <1>4, <1>5

\* The invariant is inductive.
LEMMA StepIInv == IInv /\ [Next]_vars => IInv'
<1> SUFFICES ASSUME IInv, [Next]_vars PROVE IInv'
  OBVIOUS
<1>1. ASSUME NEW sql \in Texts, ExecuteQuery(sql) PROVE IInv'
  BY <1>1, BeginKeepsInv DEF ExecuteQuery, Kinds
<1>2. CASE LoadTables
  BY <1>2, BeginKeepsInv DEF LoadTables, Kinds
<1>3. CASE ShowDashboard \/ PollMetrics
  BY <1>3, BeginKeepsInv DEF ShowDashboard, PollMetrics, Kinds, pageVars
<1>4. CASE Reload
  BY <1>4 DEF Reload, IInv, Types, Overlaps, Shown, StaleOnlyByOverlap, Kinds, Of
<1>5. ASSUME NEW c \in DOMAIN calls, Answer(c) PROVE IInv'
  <2>1. CASE QuerySucceeds(c)
    BY <1>5, <2>1, AnswerKeepsInv DEF QuerySucceeds, States
  <2>2. CASE QueryFails(c)
    BY <1>5, <2>2, AnswerKeepsInv DEF QueryFails, States, Of
  <2>3. CASE TablesLoaded(c)
    BY <1>5, <2>3, AnswerKeepsInv DEF TablesLoaded, States
  <2>4. CASE MetricsArrive(c)
    BY <1>5, <2>4, AnswerKeepsInv DEF MetricsArrive, States, Of
  <2> QED BY <1>5, <2>1, <2>2, <2>3, <2>4 DEF Answer
<1>6. CASE UNCHANGED <<calls, shown>>
  BY <1>6 DEF IInv, Types, Overlaps, Shown, StaleOnlyByOverlap, Of, Answered
<1>7. ShowStudio \/ CopySnippet \/ RestoreStatus \/ UNCHANGED vars => UNCHANGED <<calls, shown>>
  BY DEF ShowStudio, CopySnippet, RestoreStatus, vars, pageVars
<1> QED BY <1>1, <1>2, <1>3, <1>4, <1>5, <1>6, <1>7 DEF Next, User

--------------------------------------------------------------------------------
\* An answer replaces a newer one only if their calls overlapped, however many
\* calls of the server are under way (index.html, executeQuery, loadTables,
\* fetchMetrics).
THEOREM NewestAnswer == Spec => []StaleOnlyByOverlap
<1>1. Init => IInv
  BY FreshIInv DEF Init
<1>2. IInv => StaleOnlyByOverlap
  BY DEF IInv
<1> QED BY <1>1, <1>2, StepIInv, PTL DEF Spec

--------------------------------------------------------------------------------
(* The status line, the numbers and the button.                            *)

Statuses == {"Ready", "Querying", "Success", "Error", "Copied"}
Timer == [text : Statuses, belongs : BOOLEAN]

PageTypes ==
  /\ status \in Statuses /\ outdated \in BOOLEAN /\ numbers \in Nat
  /\ timers \in Seq(Timer)

Idle == UnderWay("query") = {}

\* The text is that of the result shown.
Fits(text) == shown["query"] # 0 => text = calls[shown["query"]].state

\* A timer that still belongs restores the text of the result shown.
StatusFits ==
  /\ Idle => button
  /\ Idle /\ timers = <<>> /\ ~outdated => Fits(status)
  /\ \A i \in 1 .. Len(timers) : timers[i].belongs => Idle /\ Fits(timers[i].text)

\* The numbers are of a query that overlaps all that are under way.
NumbersFit ==
  /\ numbers # 0 => /\ numbers \in Of("query") \ UnderWay("query")
                    /\ \A c \in UnderWay("query") : Overlap(numbers, c)
  /\ shown["query"] # 0 =>
       IF calls[shown["query"]].state = "Success"
         THEN numbers = shown["query"] \/ ~Idle
         ELSE numbers = 0 \/ Overlap(numbers, shown["query"])

Page == PageTypes /\ StatusFits /\ NumbersFit

\* A fresh page agrees with itself.
LEMMA FreshAgrees == FreshPage => Page
<1> SUFFICES ASSUME FreshPage PROVE Page
  OBVIOUS
<1>1. timers = <<>> /\ timers \in Seq(Timer) /\ Len(timers) = 0
  BY EmptySeq DEF FreshPage
<1>2. shown["query"] = 0 /\ numbers = 0 /\ button = TRUE /\ status = "Ready" /\ outdated = FALSE
  BY DEF FreshPage, Kinds
<1>3. PageTypes
  BY <1>1, <1>2 DEF PageTypes, Statuses
<1>4. StatusFits
  BY <1>1, <1>2 DEF StatusFits, Fits
<1>5. NumbersFit
  BY <1>2 DEF NumbersFit
<1> QED BY <1>3, <1>4, <1>5 DEF Page

\* Disturbed, no timer belongs.
LEMMA Disturbed ==
  ASSUME PageTypes, Disturb
  PROVE  timers' \in Seq(Timer) /\ \A i \in 1 .. Len(timers') : ~timers'[i].belongs
<1>1. timers' = [i \in DOMAIN timers |-> [timers[i] EXCEPT !.belongs = FALSE]]
  BY DEF Disturb
<1>2. timers \in Seq(Timer) /\ DOMAIN timers = 1 .. Len(timers) /\ Len(timers) \in Nat
  BY LenProperties DEF PageTypes
<1>3. \A i \in 1 .. Len(timers) : timers[i] \in Timer
  BY <1>2, ElementOfSeq
<1>4. \A i \in 1 .. Len(timers) : /\ [timers[i] EXCEPT !.belongs = FALSE] \in Timer
                                  /\ ~[timers[i] EXCEPT !.belongs = FALSE].belongs
  BY <1>3 DEF Timer
<1>5. timers' \in [1 .. Len(timers) -> Timer]
  BY <1>1, <1>2, <1>4
<1>6. timers' \in Seq(Timer) /\ Len(timers') = Len(timers)
  BY <1>2, <1>5, LenProperties
<1> QED BY <1>1, <1>2, <1>4, <1>6

\* A step that leaves the queries and what is shown of them alone.
LEMMA QueriesStay ==
  ASSUME Types, Page, shown'["query"] = shown["query"], Shown,
         UNCHANGED <<numbers, button, status, timers, outdated>>,
         Of("query")' = Of("query"), UnderWay("query")' = UnderWay("query"),
         \A c \in Of("query") : /\ calls'[c].state = calls[c].state
                                /\ calls'[c].during = calls[c].during
  PROVE  Page'
<1>1. shown["query"] # 0 => shown["query"] \in Of("query")
  BY DEF Shown, Of, Kinds
<1>2. UnderWay("query") \subseteq Of("query")
  BY DEF UnderWay
<1>3. PageTypes'
  BY DEF Page, PageTypes
<1>4. \A text : Fits(text)' <=> Fits(text)
  BY <1>1 DEF Fits
<1>5. StatusFits'
  BY <1>4 DEF Page, StatusFits, Idle
<1>6. \A c, d \in Of("query") : Overlap(c, d)' <=> Overlap(c, d)
  BY DEF Overlap
<1>7. NumbersFit'
  BY <1>1, <1>2, <1>6 DEF Page, NumbersFit, Idle
<1> QED BY <1>3, <1>5, <1>7 DEF Page

\* A call that is no query begins.
LEMMA OtherBegins ==
  ASSUME IInv, Page, NEW kind \in Kinds \ {"query"}, Begin(kind, NoText),
         shown'["query"] = shown["query"], UNCHANGED <<numbers, button, status, timers, outdated>>
  PROVE  Page'
<1>1. /\ DOMAIN calls' = DOMAIN calls \cup {Len(calls')}
      /\ Len(calls') = Len(calls) + 1
      /\ \A c \in DOMAIN calls : calls'[c] = calls[c]
      /\ calls'[Len(calls')].kind = kind
  BY BeginCall DEF IInv
<1>2. Len(calls') \notin DOMAIN calls
  BY <1>1, CallNumbers DEF IInv
<1>3. Of("query")' = Of("query")
  BY <1>1, <1>2 DEF Of
<1>4. UnderWay("query")' = UnderWay("query") /\ Of("query") \subseteq DOMAIN calls
  BY <1>1, <1>3 DEF UnderWay, Of
<1> QED BY <1>1, <1>3, <1>4, QueriesStay DEF IInv

\* A call that is no query ends.
LEMMA OtherEnds ==
  ASSUME IInv, Page, NEW c \in DOMAIN calls, calls[c].kind # "query",
         NEW state \in States, End(c, state),
         shown' = shown \/ Show(c), UNCHANGED <<numbers, button, status, timers, outdated>>
  PROVE  Page'
<1>1. /\ DOMAIN calls' = DOMAIN calls
      /\ \A d \in DOMAIN calls :
           /\ calls'[d].kind = calls[d].kind
           /\ calls'[d].during = calls[d].during
           /\ calls'[d].state = IF d = c THEN state ELSE calls[d].state
  BY EndCall DEF IInv
<1>2. Of("query")' = Of("query") /\ c \notin Of("query") /\ Of("query") \subseteq DOMAIN calls
  BY <1>1 DEF Of
<1>3. UnderWay("query")' = UnderWay("query")
  BY <1>1, <1>2 DEF UnderWay
<1>4. shown'["query"] = shown["query"]
  BY DEF Show, IInv, Types, Kinds
<1> QED BY <1>1, <1>2, <1>3, <1>4, QueriesStay DEF IInv

\* A query that begins takes the numbers away and is under way itself.
LEMMA QueryBegins ==
  ASSUME IInv, Page, NEW sql \in Texts, ExecuteQuery(sql)
  PROVE  Page'
<1>1. /\ Begin("query", sql) /\ Disturb
      /\ button' = FALSE /\ status' = "Querying" /\ numbers' = 0 /\ outdated' = FALSE
      /\ shown' = shown
  BY DEF ExecuteQuery
<1>2. /\ DOMAIN calls' = DOMAIN calls \cup {Len(calls')}
      /\ \A c \in DOMAIN calls : calls'[c] = calls[c]
      /\ calls'[Len(calls')].kind = "query" /\ calls'[Len(calls')].state = "waiting"
  BY <1>1, BeginCall DEF IInv, Kinds
<1>3. ~Idle'
  BY <1>2 DEF Idle, UnderWay, Of
<1>4. timers' \in Seq(Timer) /\ \A i \in 1 .. Len(timers') : ~timers'[i].belongs
  BY <1>1, Disturbed DEF Page
<1>5. PageTypes'
  BY <1>1, <1>4 DEF PageTypes, Statuses
<1>6. StatusFits'
  BY <1>3, <1>4 DEF StatusFits
<1>7. NumbersFit'
  BY <1>1, <1>3 DEF NumbersFit
<1> QED BY <1>5, <1>6, <1>7 DEF Page

\* Two queries that are under way at once overlap.
LEMMA BothUnderWay ==
  ASSUME IInv, NEW c \in UnderWay("query"), NEW d \in UnderWay("query"), c # d
  PROVE  Overlap(c, d)
<1>1. /\ c \in DOMAIN calls /\ d \in DOMAIN calls /\ calls[c].kind = calls[d].kind
      /\ calls[c].state = "waiting" /\ calls[d].state = "waiting"
  BY DEF UnderWay, Of
<1>2. c < d \/ d < c
  BY <1>1, CallNumbers DEF IInv
<1> QED BY <1>1, <1>2 DEF IInv, Overlaps, Overlap

\* A query that is answered shows its result, the status of it, and its numbers
\* or those of a query it overlaps.
LEMMA QueryAnswered ==
  ASSUME IInv, Page, NEW c \in Of("query"), NEW state \in {"Success", "Error"},
         End(c, state), Show(c), Disturb, status' = state, button' = TRUE, outdated' = FALSE,
         numbers' = IF state = "Success" THEN c ELSE numbers
  PROVE  Page'
<1>1. /\ calls[c].state = "waiting" /\ DOMAIN calls' = DOMAIN calls
      /\ \A d \in DOMAIN calls :
           /\ calls'[d].kind = calls[d].kind
           /\ calls'[d].during = calls[d].during
           /\ calls'[d].state = IF d = c THEN state ELSE calls[d].state
  BY EndCall DEF IInv, States, Of
<1>2. c \in DOMAIN calls /\ calls[c].kind = "query" /\ c \in Nat \ {0}
  BY CallNumbers DEF IInv, Of
<1>3. shown'["query"] = c /\ calls'[c].state = state
  BY <1>1, <1>2 DEF Show, IInv, Types, Kinds
<1>4. Of("query")' = Of("query") /\ c \in UnderWay("query")
  BY <1>1, <1>2 DEF Of, UnderWay
<1>5. UnderWay("query")' = UnderWay("query") \ {c}
  BY <1>1, <1>4 DEF UnderWay, Of
<1>6. timers' \in Seq(Timer) /\ \A i \in 1 .. Len(timers') : ~timers'[i].belongs
  BY Disturbed DEF Page
<1>7. PageTypes'
  BY <1>2, <1>6 DEF Page, PageTypes, Statuses
<1>8. StatusFits'
  BY <1>3, <1>6 DEF StatusFits, Fits
<1>9. \A d, e \in Of("query") : Overlap(d, e)' <=> Overlap(d, e)
  BY <1>1 DEF Overlap, Of
<1>10. UnderWay("query") \subseteq Of("query")
  BY DEF UnderWay
<1>11. NumbersFit'
  <2>1. CASE state = "Success"
    <3>1. \A d \in UnderWay("query")' : Overlap(c, d)'
      BY <1>4, <1>5, <1>9, <1>10, BothUnderWay
    <3> QED BY <1>3, <1>4, <1>5, <2>1, <3>1 DEF NumbersFit
  <2>2. CASE state = "Error"
    <3>1. numbers' = numbers
      BY <2>2
    <3>2. numbers # 0 => /\ numbers \in Of("query") \ UnderWay("query")
                         /\ \A d \in UnderWay("query") : Overlap(numbers, d)
      BY DEF Page, NumbersFit
    <3> QED BY <1>3, <1>4, <1>5, <1>9, <1>10, <2>2, <3>1, <3>2 DEF NumbersFit
  <2> QED BY <2>1, <2>2
<1> QED BY <1>7, <1>8, <1>11 DEF Page

\* A snippet is copied.
LEMMA CopyAgrees ==
  ASSUME Page, CopySnippet
  PROVE  Page'
<1> DEFINE new == [text |-> status,
                   belongs |-> UnderWay("query") = {} /\ timers = <<>> /\ ~outdated]
<1>1. /\ timers' = Append(timers, new) /\ status' = "Copied"
      /\ UNCHANGED <<calls, shown, numbers, button, outdated>>
  BY DEF CopySnippet
<1>2. new \in Timer
  BY DEF Timer, Page, PageTypes
<1>3. new.text = status /\ (new.belongs => Idle /\ timers = <<>> /\ ~outdated)
  BY DEF Idle
<1> HIDE DEF new
<1>4. timers \in Seq(Timer) /\ Len(timers) \in Nat
  BY LenProperties DEF Page, PageTypes
<1>5. /\ timers' \in Seq(Timer) /\ Len(timers') = Len(timers) + 1
      /\ \A i \in 1 .. Len(timers) : timers'[i] = timers[i]
      /\ timers'[Len(timers) + 1] = new
  BY <1>1, <1>2, <1>4, AppendProperties
<1>6. timers' # <<>>
  BY <1>4, <1>5, EmptySeq
<1>7. PageTypes'
  BY <1>1, <1>5 DEF Page, PageTypes, Statuses
<1>8. Idle' = Idle /\ \A text : Fits(text)' <=> Fits(text)
  BY <1>1 DEF Idle, UnderWay, Of, Fits
<1>9. new.belongs => Idle /\ Fits(new.text)
  BY <1>3 DEF Page, StatusFits
<1>10. \A i \in 1 .. Len(timers') : timers'[i].belongs =>
        Idle' /\ (shown'["query"] # 0 => timers'[i].text = calls'[shown'["query"]].state)
  <2> SUFFICES ASSUME NEW i \in 1 .. Len(timers'), timers'[i].belongs
               PROVE  Idle /\ (shown["query"] # 0 => timers'[i].text = calls[shown["query"]].state)
    BY <1>1, <1>8
  <2>1. i \in 1 .. Len(timers) \/ i = Len(timers) + 1
    BY <1>4, <1>5
  <2> QED BY <1>5, <1>9, <2>1 DEF Page, StatusFits, Fits
<1>11. StatusFits'
  BY <1>1, <1>6, <1>8, <1>10 DEF Page, StatusFits, Fits
<1>12. NumbersFit'
  BY <1>1 DEF Page, NumbersFit, Idle, UnderWay, Of, Overlap
<1> QED BY <1>7, <1>11, <1>12 DEF Page

\* A timer restores the status it found.
LEMMA RestoreAgrees ==
  ASSUME Page, RestoreStatus
  PROVE  Page'
<1>1. /\ timers # <<>> /\ status' = Head(timers).text /\ outdated' = ~Head(timers).belongs
      /\ timers' = Tail(timers) /\ UNCHANGED <<calls, shown, numbers, button>>
  BY DEF RestoreStatus
<1>2. timers \in Seq(Timer) /\ Len(timers) \in Nat
  BY LenProperties DEF Page, PageTypes
<1>3. Len(timers) >= 1
  BY <1>1, <1>2, EmptySeq
<1>4. /\ Head(timers) = timers[1] /\ Tail(timers) \in Seq(Timer)
      /\ Len(Tail(timers)) = Len(timers) - 1
      /\ \A i \in 1 .. Len(Tail(timers)) : Tail(timers)[i] = timers[i + 1]
  BY <1>1, <1>2, HeadTailProperties
<1>5. timers[1] \in Timer
  BY <1>2, <1>3, ElementOfSeq
<1>6. PageTypes'
  BY <1>1, <1>4, <1>5 DEF Page, PageTypes, Timer
<1>7. Idle' = Idle /\ \A text : Fits(text)' <=> Fits(text)
  BY <1>1 DEF Idle, UnderWay, Of, Fits
<1>8. timers[1].belongs => Fits(timers[1].text)
  BY <1>3 DEF Page, StatusFits
<1>9. \A i \in 1 .. Len(timers') : timers'[i].belongs =>
        Idle' /\ (shown'["query"] # 0 => timers'[i].text = calls'[shown'["query"]].state)
  <2> SUFFICES ASSUME NEW i \in 1 .. Len(timers'), timers'[i].belongs
               PROVE  Idle /\ (shown["query"] # 0 => timers'[i].text = calls[shown["query"]].state)
    BY <1>1, <1>7
  <2>1. timers'[i] = timers[i + 1] /\ i + 1 \in 1 .. Len(timers)
    BY <1>1, <1>2, <1>4
  <2> QED BY <2>1 DEF Page, StatusFits, Fits
<1>10. StatusFits'
  BY <1>1, <1>4, <1>7, <1>8, <1>9 DEF Page, StatusFits, Fits
<1>11. NumbersFit'
  BY <1>1 DEF Page, NumbersFit, Idle, UnderWay, Of, Overlap
<1> QED BY <1>6, <1>10, <1>11 DEF Page

\* Every step keeps the page in agreement.
LEMMA PageNext == IInv /\ Page /\ [Next]_vars => Page'
<1> SUFFICES ASSUME IInv, Page, [Next]_vars PROVE Page'
  OBVIOUS
<1>1. ASSUME NEW sql \in Texts, ExecuteQuery(sql) PROVE Page'
  BY <1>1, QueryBegins
<1>2. CASE LoadTables
  BY <1>2, OtherBegins DEF LoadTables, Kinds, IInv, Types
<1>3. CASE ShowDashboard \/ PollMetrics
  BY <1>3, OtherBegins DEF ShowDashboard, PollMetrics, Kinds, pageVars
<1>4. CASE Reload
  <2>1. FreshPage'
    BY <1>4 DEF Reload, FreshPage
  <2>2. timers' = <<>> /\ timers' \in Seq(Timer) /\ Len(timers') = 0
    BY <2>1, EmptySeq DEF FreshPage
  <2>3. shown'["query"] = 0 /\ numbers' = 0 /\ button' = TRUE /\ status' = "Ready"
        /\ outdated' = FALSE
    BY <2>1 DEF FreshPage, Kinds
  <2>4. PageTypes'
    BY <2>2, <2>3 DEF PageTypes, Statuses
  <2>5. StatusFits' /\ NumbersFit'
    BY <2>2, <2>3 DEF StatusFits, Fits, NumbersFit
  <2> QED BY <2>4, <2>5 DEF Page
<1>5. ASSUME NEW c \in DOMAIN calls, Answer(c) PROVE Page'
  <2>1. CASE QuerySucceeds(c)
    BY <2>1, QueryAnswered DEF QuerySucceeds, FinallyEnable
  <2>2. CASE QueryFails(c)
    BY <2>2, QueryAnswered DEF QueryFails, FinallyEnable
  <2>3. CASE TablesLoaded(c)
    BY <1>5, <2>3, OtherEnds DEF TablesLoaded, States, Of
  <2>4. CASE MetricsArrive(c)
    BY <1>5, <2>4, OtherEnds DEF MetricsArrive, States, Of
  <2> QED BY <1>5, <2>1, <2>2, <2>3, <2>4 DEF Answer
<1>6. CASE CopySnippet
  BY <1>6, CopyAgrees
<1>7. CASE RestoreStatus
  BY <1>7, RestoreAgrees
<1>8. CASE ShowStudio \/ UNCHANGED vars
  <2>1. UNCHANGED <<calls, shown, numbers, button, status, timers, outdated>>
    BY <1>8 DEF ShowStudio, vars, pageVars
  <2>2. PageTypes' /\ StatusFits'
    BY <2>1 DEF Page, PageTypes, StatusFits, Fits, Idle, UnderWay, Of
  <2>3. NumbersFit'
    BY <2>1 DEF Page, NumbersFit, Idle, UnderWay, Of, Overlap
  <2> QED BY <2>2, <2>3 DEF Page
<1> QED BY <1>1, <1>2, <1>3, <1>4, <1>5, <1>6, <1>7, <1>8 DEF Next, User

\* With no query under way the button is enabled, and the status and the numbers
\* are those of the result shown, or of a query that overlapped it, unless a timer
\* has put an older status back (index.html, executeQuery and copySnippet).
THEOREM PageAgrees == Spec => []PageAgreesAtRest
<1>1. Init => IInv /\ Page
  BY FreshIInv, FreshAgrees DEF Init
<1>2. IInv /\ Page => PageAgreesAtRest
  BY DEF IInv, Shown, Answered, Kinds, Page, StatusFits, NumbersFit, Idle, Fits, PageAgreesAtRest
<1>3. IInv /\ Page /\ [Next]_vars => (IInv /\ Page)'
  BY StepIInv, PageNext
<1> QED BY <1>1, <1>2, <1>3, PTL DEF Spec

--------------------------------------------------------------------------------
(* The history.                                                            *)

\* A sequence without its i-th element.
LEMMA RemoveAtIs ==
  ASSUME NEW S, NEW s \in Seq(S), NEW i \in DOMAIN s
  PROVE  /\ RemoveAt(s, i) \in Seq(S) /\ Len(RemoveAt(s, i)) = Len(s) - 1
         /\ Len(s) \in Nat /\ i \in 1 .. Len(s)
         /\ \A j \in 1 .. Len(s) - 1 : RemoveAt(s, i)[j] = IF j < i THEN s[j] ELSE s[j + 1]
<1> DEFINE before == SubSeq(s, 1, i - 1)
           after == SubSeq(s, i + 1, Len(s))
<1>1. Len(s) \in Nat /\ i \in 1 .. Len(s) /\ \A j \in 1 .. Len(s) : s[j] \in S
  BY LenProperties, ElementOfSeq
<1>2. /\ before \in Seq(S) /\ Len(before) = i - 1
      /\ \A j \in 1 .. i - 1 : before[j] = s[j]
  <2>1. \A j \in 1 .. i - 1 : s[j] \in S
    BY <1>1
  <2>2. /\ before \in Seq(S) /\ Len(before) = IF 1 <= i - 1 THEN (i - 1) - 1 + 1 ELSE 0
        /\ \A j \in 1 .. (i - 1) - 1 + 1 : before[j] = s[1 + j - 1]
    BY <1>1, <2>1, SubSeqProperties
  <2> QED BY <1>1, <2>2
<1>3. /\ after \in Seq(S) /\ Len(after) = Len(s) - i
      /\ \A j \in 1 .. Len(s) - i : after[j] = s[i + j]
  <2>1. \A j \in i + 1 .. Len(s) : s[j] \in S
    BY <1>1
  <2>2. /\ after \in Seq(S)
        /\ Len(after) = IF i + 1 <= Len(s) THEN Len(s) - (i + 1) + 1 ELSE 0
        /\ \A j \in 1 .. Len(s) - (i + 1) + 1 : after[j] = s[(i + 1) + j - 1]
    BY <1>1, <2>1, SubSeqProperties
  <2>3. \A j \in 1 .. Len(s) - i : (i + 1) + j - 1 = i + j /\ j \in 1 .. Len(s) - (i + 1) + 1
    BY <1>1
  <2> QED BY <1>1, <2>2, <2>3
<1> HIDE DEF before, after
<1>4. /\ before \o after \in Seq(S) /\ Len(before \o after) = Len(before) + Len(after)
      /\ \A j \in 1 .. Len(before) + Len(after) :
           (before \o after)[j] = IF j <= Len(before) THEN before[j] ELSE after[j - Len(before)]
  BY <1>2, <1>3, ConcatProperties
<1>a. Len(before) + Len(after) = Len(s) - 1
  BY <1>1, <1>2, <1>3
<1>b. /\ before \o after \in Seq(S) /\ Len(before \o after) = Len(s) - 1
      /\ \A j \in 1 .. Len(s) - 1 :
           (before \o after)[j] = IF j <= i - 1 THEN before[j] ELSE after[j - (i - 1)]
  BY <1>2, <1>4, <1>a
<1>5. RemoveAt(s, i) = before \o after
  BY DEF RemoveAt, before, after
<1>6. ASSUME NEW j \in 1 .. Len(s) - 1
      PROVE  (before \o after)[j] = IF j < i THEN s[j] ELSE s[j + 1]
  <2>0. j \in Int /\ i \in Int /\ (j < i <=> j <= i - 1)
    BY <1>1
  <2>1. CASE j < i
    <3>1. j \in 1 .. i - 1
      BY <1>1, <2>0, <2>1
    <3> QED BY <1>2, <1>b, <2>0, <2>1, <3>1
  <2>2. CASE ~(j < i)
    <3>1. j - (i - 1) \in 1 .. Len(s) - i /\ i + (j - (i - 1)) = j + 1
      BY <1>1, <2>0, <2>2
    <3>2. (before \o after)[j] = after[j - (i - 1)]
      BY <1>b, <2>0, <2>2
    <3>3. after[j - (i - 1)] = s[i + (j - (i - 1))]
      BY <1>3, <3>1
    <3>4. after[j - (i - 1)] = s[j + 1]
      BY <3>1, <3>3
    <3> QED BY <2>2, <3>2, <3>4
  <2> QED BY <2>1, <2>2
<1> QED BY <1>1, <1>5, <1>6, <1>b

\* No element is twice in the sequence.
Single(s) == \A i, j \in 1 .. Len(s) : s[i] = s[j] => i = j

\* A list without a text that is not there, or is there once.
LEMMA WithoutIs ==
  ASSUME NEW list \in Seq(Texts), Single(list), NEW sql \in Texts
  PROVE  /\ Len(list) \in Nat
         /\ (\A i \in 1 .. Len(list) : list[i] # sql) => Without(list, sql) = list
         /\ \A p \in 1 .. Len(list) : list[p] = sql => Without(list, sql) = RemoveAt(list, p)
<1>1. DOMAIN list = 1 .. Len(list) /\ Len(list) \in Nat
  BY LenProperties
<1>2. ASSUME \A i \in 1 .. Len(list) : list[i] # sql PROVE Without(list, sql) = list
  <2>1. {i \in DOMAIN list : list[i] = sql} = {}
    BY <1>1, <1>2
  <2> QED BY <2>1 DEF Without
<1>3. ASSUME NEW p \in 1 .. Len(list), list[p] = sql
      PROVE  Without(list, sql) = RemoveAt(list, p)
  <2>1. {i \in DOMAIN list : list[i] = sql} = {p}
    BY <1>1, <1>3 DEF Single
  <2>2. (CHOOSE i \in {p} : TRUE) = p
    OBVIOUS
  <2> QED BY <2>1, <2>2 DEF Without
<1> QED BY <1>1, <1>2, <1>3

\* The list as it is after its first MaxHistory texts.
LEMMA TruncateIs ==
  ASSUME NEW list \in Seq(Texts)
  PROVE  /\ Truncate(list) \in Seq(Texts) /\ Len(list) \in Nat
         /\ Len(Truncate(list)) = IF Len(list) > MaxHistory THEN Len(list) - 1 ELSE Len(list)
         /\ \A i \in 1 .. Len(Truncate(list)) : Truncate(list)[i] = list[i]
<1>1. Len(list) \in Nat /\ \A i \in 1 .. Len(list) : list[i] \in Texts
  BY LenProperties, ElementOfSeq
<1>2. CASE Len(list) > MaxHistory
  <2>1. Len(list) >= 2
    BY <1>1, <1>2, StudioAssumption
  <2>2. /\ SubSeq(list, 1, Len(list) - 1) \in Seq(Texts)
        /\ Len(SubSeq(list, 1, Len(list) - 1)) =
             IF 1 <= Len(list) - 1 THEN (Len(list) - 1) - 1 + 1 ELSE 0
        /\ \A i \in 1 .. (Len(list) - 1) - 1 + 1 :
             SubSeq(list, 1, Len(list) - 1)[i] = list[1 + i - 1]
    <3>1. \A i \in 1 .. Len(list) - 1 : list[i] \in Texts
      BY <1>1
    <3> QED BY <1>1, <2>1, <3>1, SubSeqProperties
  <2>3. \A n \in Nat : n >= 2 => /\ (IF 1 <= n - 1 THEN (n - 1) - 1 + 1 ELSE 0) = n - 1
                                 /\ (n - 1) - 1 + 1 = n - 1
                                 /\ \A i \in 1 .. n - 1 : 1 + i - 1 = i
    OBVIOUS
  <2>4. Truncate(list) = SubSeq(list, 1, Len(list) - 1)
    BY <1>2 DEF Truncate, Front
  <2>5. /\ SubSeq(list, 1, Len(list) - 1) \in Seq(Texts)
        /\ Len(SubSeq(list, 1, Len(list) - 1)) = Len(list) - 1
        /\ \A i \in 1 .. Len(list) - 1 : SubSeq(list, 1, Len(list) - 1)[i] = list[i]
    BY <1>1, <2>1, <2>2, <2>3
  <2> QED BY <1>1, <1>2, <2>4, <2>5
<1>3. CASE ~(Len(list) > MaxHistory)
  BY <1>1, <1>3 DEF Truncate
<1> QED BY <1>2, <1>3

\* A query that is under way has its text.
TextsKnown == \A c \in UnderWay("query") : calls[c].sql \in Texts

\* The history is the end of the list of all texts in the order of their last
\* success, from its end.
Recency ==
  /\ history \in Seq(Texts) /\ order \in Seq(Texts)
  /\ Single(order)
  /\ Len(history) = IF Len(order) < MaxHistory THEN Len(order) ELSE MaxHistory
  /\ \A i \in 1 .. Len(history) : history[i] = order[Len(order) - i + 1]

\* No text is twice in the history.
LEMMA HistorySingle ==
  ASSUME Recency
  PROVE  /\ Single(history) /\ Len(history) \in Nat /\ Len(order) \in Nat
         /\ Len(history) <= Len(order) /\ Len(history) <= MaxHistory
         /\ MaxHistory \in Nat \ {0}
<1>1. /\ Len(history) \in Nat /\ Len(order) \in Nat /\ MaxHistory \in Nat \ {0}
      /\ Len(history) <= Len(order) /\ Len(history) <= MaxHistory
  BY LenProperties, StudioAssumption DEF Recency
<1>2. ASSUME NEW i \in 1 .. Len(history), NEW j \in 1 .. Len(history), history[i] = history[j]
      PROVE  i = j
  <2>1. /\ Len(order) - i + 1 \in 1 .. Len(order) /\ Len(order) - j + 1 \in 1 .. Len(order)
        /\ (Len(order) - i + 1 = Len(order) - j + 1 => i = j)
    BY <1>1
  <2>2. order[Len(order) - i + 1] = order[Len(order) - j + 1]
    BY <1>2 DEF Recency
  <2> QED BY <2>1, <2>2 DEF Recency, Single
<1> QED BY <1>1, <1>2 DEF Single

\* A text put in front of a list.
LEMMA InFront ==
  ASSUME NEW list \in Seq(Texts), NEW sql \in Texts
  PROVE  /\ <<sql>> \o list \in Seq(Texts) /\ Len(<<sql>> \o list) = Len(list) + 1
         /\ Len(list) \in Nat /\ (<<sql>> \o list)[1] = sql
         /\ \A i \in 1 .. Len(list) : (<<sql>> \o list)[i + 1] = list[i]
<1>1. <<sql>> \in Seq(Texts) /\ Len(<<sql>>) = 1 /\ <<sql>>[1] = sql /\ Len(list) \in Nat
  BY LenProperties
<1>2. /\ <<sql>> \o list \in Seq(Texts) /\ Len(<<sql>> \o list) = Len(<<sql>>) + Len(list)
      /\ \A i \in 1 .. Len(<<sql>>) + Len(list) :
           (<<sql>> \o list)[i] = IF i <= Len(<<sql>>) THEN <<sql>>[i] ELSE list[i - Len(<<sql>>)]
  BY <1>1, ConcatProperties
<1>3. \A i \in 1 .. 1 + Len(list) :
        (<<sql>> \o list)[i] = IF i <= 1 THEN <<sql>>[i] ELSE list[i - 1]
  BY <1>1, <1>2
<1>4. Len(<<sql>> \o list) = Len(list) + 1
  BY <1>1, <1>2
<1>5. (<<sql>> \o list)[1] = sql
  BY <1>1, <1>3
<1>6. ASSUME NEW i \in 1 .. Len(list) PROVE (<<sql>> \o list)[i + 1] = list[i]
  <2>1. i + 1 \in 1 .. 1 + Len(list) /\ ~(i + 1 <= 1) /\ (i + 1) - 1 = i
    BY <1>1
  <2> QED BY <1>3, <2>1
<1> QED BY <1>1, <1>2, <1>4, <1>5, <1>6

\* A text that succeeds becomes the latest, and the others keep their order.
LEMMA PushKeepsRecency ==
  ASSUME Recency, NEW sql \in Texts, PushHistory(sql),
         order' = Append(Without(order, sql), sql)
  PROVE  Recency'
<1> DEFINE n == Len(history)
           len == Len(order)
<1>1. /\ history \in Seq(Texts) /\ order \in Seq(Texts) /\ Single(order) /\ Single(history)
      /\ n \in Nat /\ len \in Nat /\ n <= len /\ n <= MaxHistory /\ MaxHistory \in Nat \ {0}
      /\ n = (IF len < MaxHistory THEN len ELSE MaxHistory)
      /\ \A i \in 1 .. n : history[i] = order[len - i + 1]
  BY HistorySingle DEF Recency
<1> DEFINE rest == Without(history, sql)
           others == Without(order, sql)
           list == <<sql>> \o rest
<1>2. history' = Truncate(list) /\ order' = Append(others, sql)
  BY DEF PushHistory
<1>3. CASE \A j \in 1 .. len : order[j] # sql
  <2>1. \A i \in 1 .. n : len - i + 1 \in 1 .. len
    BY <1>1
  <2>2. \A i \in 1 .. n : history[i] # sql
    BY <1>1, <1>3, <2>1
  <2>3. rest = history /\ others = order
    BY <1>1, <1>3, <2>2, WithoutIs
  <2>4. /\ order' \in Seq(Texts) /\ Len(order') = len + 1
        /\ \A j \in 1 .. len : order'[j] = order[j]
        /\ order'[len + 1] = sql
    BY <1>1, <1>2, <2>3, AppendProperties
  <2>5. /\ list \in Seq(Texts) /\ Len(list) = n + 1 /\ list[1] = sql
        /\ \A i \in 1 .. n : list[i + 1] = history[i]
    BY <1>1, <2>3, InFront
  <2> HIDE DEF list, rest, others
  <2>6. /\ history' \in Seq(Texts)
        /\ Len(history') = IF n + 1 > MaxHistory THEN n + 1 - 1 ELSE n + 1
        /\ \A i \in 1 .. Len(history') : history'[i] = list[i]
    BY <1>2, <2>5, TruncateIs
  <2>7. Len(history') = IF len + 1 < MaxHistory THEN len + 1 ELSE MaxHistory
    BY <1>1, <2>6
  <2>8. Single(order')
    <3>1. \A i, j \in 1 .. len + 1 : order'[i] = order'[j] => i = j
      <4> SUFFICES ASSUME NEW i \in 1 .. len + 1, NEW j \in 1 .. len + 1, order'[i] = order'[j]
                   PROVE  i = j
        OBVIOUS
      <4>1. (i \in 1 .. len \/ i = len + 1) /\ (j \in 1 .. len \/ j = len + 1)
        BY <1>1
      <4> QED BY <1>1, <1>3, <2>4, <4>1 DEF Single
    <3> QED BY <2>4, <3>1 DEF Single
  <2>9. ASSUME NEW i \in 1 .. Len(history') PROVE history'[i] = order'[len + 1 - i + 1]
    <3>1. i \in 1 .. n + 1 /\ history'[i] = list[i]
      BY <1>1, <2>6
    <3>2. CASE i = 1
      <4>1. len + 1 - i + 1 = len + 1
        BY <1>1, <3>2
      <4> QED BY <2>4, <2>5, <3>1, <3>2, <4>1
    <3>3. CASE i # 1
      <4>1. i - 1 \in 1 .. n /\ (i - 1) + 1 = i
        BY <1>1, <3>1, <3>3
      <4>2. history'[i] = order[len - (i - 1) + 1]
        BY <1>1, <2>5, <3>1, <4>1
      <4>3. len - (i - 1) + 1 \in 1 .. len /\ len - (i - 1) + 1 = len + 1 - i + 1
        BY <1>1, <4>1
      <4> QED BY <2>4, <4>2, <4>3
    <3> QED BY <3>2, <3>3
  <2>10. \A i \in 1 .. Len(history') : history'[i] = order'[Len(order') - i + 1]
    <3> SUFFICES ASSUME NEW i \in 1 .. Len(history')
                 PROVE  history'[i] = order'[Len(order') - i + 1]
      OBVIOUS
    <3>1. Len(order') - i + 1 = len + 1 - i + 1
      BY <2>4
    <3> QED BY <2>9, <3>1
  <2>11. Len(history') = IF Len(order') < MaxHistory THEN Len(order') ELSE MaxHistory
    BY <2>4, <2>7
  <2> QED BY <2>4, <2>6, <2>8, <2>10, <2>11 DEF Recency
<1>4. ASSUME NEW p \in 1 .. len, order[p] = sql PROVE Recency'
  <2> DEFINE e == len - p + 1
  <2>0. e \in 1 .. len /\ len - e + 1 = p
    BY <1>1
  <2>1. others = RemoveAt(order, p)
    BY <1>1, <1>4, WithoutIs
  <2>2. /\ others \in Seq(Texts) /\ Len(others) = len - 1
        /\ \A j \in 1 .. len - 1 : others[j] = IF j < p THEN order[j] ELSE order[j + 1]
    <3>1. p \in DOMAIN order
      BY <1>1, LenProperties
    <3>2. /\ RemoveAt(order, p) \in Seq(Texts) /\ Len(RemoveAt(order, p)) = Len(order) - 1
          /\ \A j \in 1 .. Len(order) - 1 :
               RemoveAt(order, p)[j] = IF j < p THEN order[j] ELSE order[j + 1]
      BY <1>1, <3>1, RemoveAtIs
    <3> HIDE DEF others
    <3> QED BY <2>1, <3>2
  <2>3. order' \in Seq(Texts) /\ Len(order') = len /\ order'[len] = sql
        /\ \A j \in 1 .. len - 1 : order'[j] = IF j < p THEN order[j] ELSE order[j + 1]
    <3>1. /\ order' \in Seq(Texts) /\ Len(order') = Len(others) + 1
          /\ \A j \in 1 .. Len(others) : order'[j] = others[j]
          /\ order'[Len(others) + 1] = sql
      BY <1>2, <2>2, AppendProperties
    <3>2. (len - 1) + 1 = len
      BY <1>1
    <3> QED BY <2>2, <3>1, <3>2
  <2>4. Single(order')
    <3>1. \A i, j \in 1 .. len : order'[i] = order'[j] => i = j
      <4> SUFFICES ASSUME NEW i \in 1 .. len, NEW j \in 1 .. len, order'[i] = order'[j]
                   PROVE  i = j
        OBVIOUS
      <4>1. PICK k \in 1 .. len : k = IF i = len THEN p ELSE IF i < p THEN i ELSE i + 1
        BY <1>1
      <4>2. PICK m \in 1 .. len : m = IF j = len THEN p ELSE IF j < p THEN j ELSE j + 1
        BY <1>1
      <4>3. order'[i] = order[k]
        BY <1>1, <1>4, <2>3, <4>1
      <4>4. order'[j] = order[m]
        BY <1>1, <1>4, <2>3, <4>2
      <4>5. k = m
        BY <1>1, <4>3, <4>4 DEF Single
      <4>6. /\ i = IF k = p THEN len ELSE IF k < p THEN k ELSE k - 1
            /\ j = IF m = p THEN len ELSE IF m < p THEN m ELSE m - 1
        BY <1>1, <4>1, <4>2
      <4> QED BY <4>5, <4>6
    <3> QED BY <2>3, <3>1 DEF Single
  <2> HIDE DEF others, e
  <2>5. ASSUME NEW i \in 2 .. len
        PROVE  order'[len - i + 1] = IF i > e THEN order[len - i + 1] ELSE order[len - (i - 1) + 1]
    <3>1. /\ len - i + 1 \in 1 .. len - 1 /\ (len - i + 1 < p <=> i > e)
          /\ (len - i + 1) + 1 = len - (i - 1) + 1
      BY <1>1, <2>0
    <3> QED BY <2>3, <3>1
  <2>6. len - 1 + 1 = len /\ len >= 1
    BY <1>1
  <2>7. CASE e <= n
    <3>1. e \in 1 .. n /\ history[e] = sql
      <4>1. e \in 1 .. n
        BY <1>1, <2>0, <2>7
      <4>2. history[e] = order[len - e + 1]
        BY <1>1, <4>1
      <4> QED BY <1>4, <2>0, <4>1, <4>2
    <3>2. rest = RemoveAt(history, e)
      BY <1>1, <3>1, WithoutIs
    <3>3. /\ rest \in Seq(Texts) /\ Len(rest) = n - 1
          /\ \A i \in 1 .. n - 1 : rest[i] = IF i < e THEN history[i] ELSE history[i + 1]
      <4>1. e \in DOMAIN history
        BY <1>1, <3>1, LenProperties
      <4>2. /\ RemoveAt(history, e) \in Seq(Texts) /\ Len(RemoveAt(history, e)) = Len(history) - 1
            /\ \A i \in 1 .. Len(history) - 1 :
                 RemoveAt(history, e)[i] = IF i < e THEN history[i] ELSE history[i + 1]
        BY <1>1, <4>1, RemoveAtIs
      <4> HIDE DEF rest
      <4> QED BY <3>2, <4>2
    <3>4. /\ list \in Seq(Texts) /\ Len(list) = (n - 1) + 1 /\ list[1] = sql
          /\ \A i \in 1 .. n - 1 : list[i + 1] = rest[i]
      BY <3>3, InFront
    <3> HIDE DEF list, rest
    <3>5. Len(list) = n /\ ~(Len(list) > MaxHistory)
      BY <1>1, <3>4
    <3>6. history' \in Seq(Texts) /\ Len(history') = n /\ \A i \in 1 .. n : history'[i] = list[i]
      BY <1>2, <3>4, <3>5, TruncateIs
    <3>7. ASSUME NEW i \in 1 .. n PROVE history'[i] = order'[len - i + 1]
      <4>1. CASE i = 1
        <5>1. len - i + 1 = len
          BY <1>1, <4>1
        <5> QED BY <2>3, <3>4, <3>6, <4>1, <5>1
      <4>2. CASE i # 1
        <5>1. i - 1 \in 1 .. n - 1 /\ (i - 1) + 1 = i /\ i \in 2 .. len /\ i - 1 \in 1 .. n
          BY <1>1, <4>2
        <5>2. history'[i] = IF i - 1 < e THEN history[i - 1] ELSE history[i]
          BY <3>3, <3>4, <3>6, <5>1
        <5>3. i - 1 < e <=> ~(i > e)
          BY <1>1, <2>0
        <5>4. history[i - 1] = order[len - (i - 1) + 1] /\ history[i] = order[len - i + 1]
          BY <1>1, <5>1
        <5> QED BY <2>5, <5>1, <5>2, <5>3, <5>4
      <4> QED BY <4>1, <4>2
    <3> QED BY <1>1, <2>3, <2>4, <3>6, <3>7 DEF Recency
  <2>8. CASE ~(e <= n)
    <3>1. n = MaxHistory
      BY <1>1, <2>0, <2>8
    <3>2. \A i \in 1 .. n : history[i] # sql
      <4> SUFFICES ASSUME NEW i \in 1 .. n, history[i] = sql PROVE FALSE
        OBVIOUS
      <4>1. len - i + 1 \in 1 .. len /\ len - i + 1 # p
        BY <1>1, <2>0, <2>8
      <4> QED BY <1>1, <1>4, <4>1 DEF Single
    <3>3. rest = history
      BY <1>1, <3>2, WithoutIs
    <3>4. /\ list \in Seq(Texts) /\ Len(list) = n + 1 /\ list[1] = sql
          /\ \A i \in 1 .. n : list[i + 1] = history[i]
      <4>1. list = <<sql>> \o history
        BY <3>3
      <4>2. /\ <<sql>> \o history \in Seq(Texts) /\ Len(<<sql>> \o history) = Len(history) + 1
            /\ (<<sql>> \o history)[1] = sql
            /\ \A i \in 1 .. Len(history) : (<<sql>> \o history)[i + 1] = history[i]
        BY <1>1, InFront
      <4> HIDE DEF list
      <4> QED BY <4>1, <4>2
    <3> HIDE DEF list, rest
    <3>5. Len(list) > MaxHistory /\ Len(list) - 1 = n
      BY <1>1, <3>1, <3>4
    <3>6. history' \in Seq(Texts) /\ Len(history') = n /\ \A i \in 1 .. n : history'[i] = list[i]
      BY <1>2, <3>4, <3>5, TruncateIs
    <3>7. ASSUME NEW i \in 1 .. n PROVE history'[i] = order'[len - i + 1]
      <4>1. CASE i = 1
        <5>1. len - i + 1 = len
          BY <1>1, <4>1
        <5> QED BY <2>3, <3>4, <3>6, <4>1, <5>1
      <4>2. CASE i # 1
        <5>1. i - 1 \in 1 .. n /\ (i - 1) + 1 = i /\ i \in 2 .. len /\ ~(i > e)
          BY <1>1, <2>0, <2>8, <4>2
        <5>2. history'[i] = history[i - 1]
          BY <3>4, <3>6, <5>1
        <5>3. history[i - 1] = order[len - (i - 1) + 1]
          BY <1>1, <5>1
        <5> QED BY <2>5, <5>1, <5>2, <5>3
      <4> QED BY <4>1, <4>2
    <3> QED BY <1>1, <2>3, <2>4, <3>6, <3>7 DEF Recency
  <2> QED BY <2>7, <2>8
<1> QED BY <1>3, <1>4

\* A call that begins has the text it is given.
LEMMA BeginKnown ==
  ASSUME Types, TextsKnown, NEW kind \in Kinds, NEW sql \in Texts \cup {NoText},
         Begin(kind, sql), kind = "query" => sql \in Texts
  PROVE  TextsKnown'
<1> DEFINE new == [kind |-> kind, sql |-> sql, state |-> "waiting", during |-> UnderWay(kind)]
<1>1. /\ DOMAIN calls' = DOMAIN calls \cup {Len(calls')}
      /\ Len(calls') = Len(calls) + 1
      /\ \A c \in DOMAIN calls : calls'[c] = calls[c]
  BY BeginCall
<1>2. new \in Call /\ calls' = Append(calls, new)
  <2>1. UnderWay(kind) \in SUBSET Nat
    BY CallNumbers DEF UnderWay, Of
  <2> QED BY <2>1 DEF Begin, Call, States
<1>3. new.kind = kind /\ new.sql = sql
  OBVIOUS
<1> HIDE DEF new
<1>4. calls'[Len(calls')] = new
  <2>1. Append(calls, new)[Len(calls) + 1] = new
    BY <1>2, AppendProperties DEF Types
  <2> QED BY <1>1, <1>2, <2>1
<1>5. ASSUME NEW c \in UnderWay("query")' PROVE calls'[c].sql \in Texts
  <2>1. c \in DOMAIN calls \cup {Len(calls')} /\ calls'[c].kind = "query" /\ calls'[c].state = "waiting"
    BY <1>1, <1>5 DEF UnderWay, Of
  <2>2. CASE c \in DOMAIN calls
    <3>1. c \in UnderWay("query")
      BY <1>1, <2>1, <2>2 DEF UnderWay, Of
    <3> QED BY <1>1, <2>2, <3>1 DEF TextsKnown
  <2>3. CASE c = Len(calls')
    BY <1>3, <1>4, <2>1, <2>3
  <2> QED BY <2>1, <2>2, <2>3
<1> QED BY <1>5 DEF TextsKnown

\* The end of a call leaves the texts of the others alone.
LEMMA EndKnown ==
  ASSUME Types, TextsKnown, NEW c \in DOMAIN calls, NEW state \in States \ {"waiting"},
         End(c, state)
  PROVE  TextsKnown'
<1>1. /\ DOMAIN calls' = DOMAIN calls
      /\ \A d \in DOMAIN calls : /\ calls'[d].kind = calls[d].kind
                                 /\ calls'[d].state = IF d = c THEN state ELSE calls[d].state
  BY EndCall
<1>2. \A d \in DOMAIN calls \ {c} : calls'[d] = calls[d]
  BY DEF End, Types
<1>3. ASSUME NEW d \in UnderWay("query")' PROVE calls'[d].sql \in Texts
  <2>1. d \in DOMAIN calls \ {c} /\ d \in UnderWay("query")
    BY <1>1, <1>3 DEF UnderWay, Of
  <2> QED BY <1>2, <2>1 DEF TextsKnown
<1> QED BY <1>3 DEF TextsKnown

\* A fresh page has no call under way.
LEMMA FreshKnown == FreshPage => TextsKnown
BY DEF FreshPage, TextsKnown, UnderWay, Of

\* A step that leaves the history alone.
LEMMA HistoryStays == Recency /\ UNCHANGED <<history, order>> => Recency'
BY DEF Recency, Single

\* Every step keeps the history in the order of the last successes.
LEMMA HistoryNext == IInv /\ TextsKnown /\ Recency /\ [Next]_vars => TextsKnown' /\ Recency'
<1> SUFFICES ASSUME IInv, TextsKnown, Recency, [Next]_vars PROVE TextsKnown' /\ Recency'
  OBVIOUS
<1> USE DEF IInv
<1>1. ASSUME NEW sql \in Texts, ExecuteQuery(sql) PROVE TextsKnown' /\ Recency'
  BY <1>1, BeginKnown, HistoryStays DEF ExecuteQuery, Kinds
<1>2. ASSUME LoadTables PROVE TextsKnown' /\ Recency'
  BY <1>2, BeginKnown, HistoryStays DEF LoadTables, Kinds
<1>3. ASSUME ShowDashboard PROVE TextsKnown' /\ Recency'
  BY <1>3, BeginKnown, HistoryStays DEF ShowDashboard, Kinds
<1>4. ASSUME PollMetrics PROVE TextsKnown' /\ Recency'
  BY <1>4, BeginKnown, HistoryStays DEF PollMetrics, Kinds
<1>5. ASSUME ShowStudio \/ CopySnippet \/ RestoreStatus \/ UNCHANGED vars
      PROVE  TextsKnown' /\ Recency'
  <2>1. calls' = calls /\ UNCHANGED <<history, order>>
    BY <1>5 DEF ShowStudio, CopySnippet, RestoreStatus, vars
  <2> QED BY <2>1, HistoryStays DEF TextsKnown, UnderWay, Of
<1>6. ASSUME Reload PROVE TextsKnown' /\ Recency'
  <2>1. calls' = <<>> /\ UNCHANGED <<history, order>>
    BY <1>6 DEF Reload
  <2> QED BY <2>1, HistoryStays DEF TextsKnown, UnderWay, Of
<1>7. ASSUME NEW c \in DOMAIN calls, QuerySucceeds(c) PROVE TextsKnown' /\ Recency'
  <2>1. c \in Of("query") /\ End(c, "Success")
    BY <1>7 DEF QuerySucceeds
  <2>2. calls[c].sql \in Texts
    <3>1. c \in UnderWay("query")
      BY <2>1 DEF End, UnderWay
    <3> QED BY <3>1 DEF TextsKnown
  <2>3. TextsKnown'
    BY <2>1, EndKnown DEF States
  <2>4. PushHistory(calls[c].sql) /\ order' = Append(Without(order, calls[c].sql), calls[c].sql)
    BY <1>7 DEF QuerySucceeds
  <2> QED BY <2>2, <2>3, <2>4, PushKeepsRecency
<1>8. ASSUME NEW c \in DOMAIN calls, QueryFails(c) PROVE TextsKnown' /\ Recency'
  BY <1>8, EndKnown, HistoryStays DEF QueryFails, States
<1>9. ASSUME NEW c \in DOMAIN calls, TablesLoaded(c) PROVE TextsKnown' /\ Recency'
  BY <1>9, EndKnown, HistoryStays DEF TablesLoaded, States
<1>10. ASSUME NEW c \in DOMAIN calls, MetricsArrive(c) PROVE TextsKnown' /\ Recency'
  BY <1>10, EndKnown, HistoryStays DEF MetricsArrive, States
<1> QED BY <1>1, <1>2, <1>3, <1>4, <1>5, <1>6, <1>7, <1>8, <1>9, <1>10 DEF Next, User, Answer

\* The history is what HistoryIsRecency says.
LEMMA RecencyImplies == Recency => HistoryIsRecency
<1> SUFFICES ASSUME Recency PROVE HistoryIsRecency
  OBVIOUS
<1> DEFINE back == Reverse(order)
           n == Len(history)
<1>1. /\ history \in Seq(Texts) /\ order \in Seq(Texts)
      /\ Len(order) \in Nat /\ n \in Nat /\ n <= Len(order)
  BY HistorySingle DEF Recency
<1>2. \A i \in 1 .. n : back[i] = order[Len(order) - i + 1] /\ back[i] \in Texts
  <2>1. \A i \in 1 .. n : i \in 1 .. Len(order) /\ Len(order) - i + 1 \in 1 .. Len(order)
    BY <1>1
  <2>2. \A i \in 1 .. n : order[Len(order) - i + 1] \in Texts
    BY <1>1, <2>1, ElementOfSeq
  <2> QED BY <2>1, <2>2 DEF Reverse
<1> HIDE DEF back
<1>3. /\ SubSeq(back, 1, n) \in Seq(Texts)
      /\ Len(SubSeq(back, 1, n)) = IF 1 <= n THEN n - 1 + 1 ELSE 0
      /\ \A i \in 1 .. n - 1 + 1 : SubSeq(back, 1, n)[i] = back[1 + i - 1]
  BY <1>1, <1>2, SubSeqProperties
<1>4. Len(SubSeq(back, 1, n)) = n
  BY <1>1, <1>3
<1>5. \A i \in 1 .. n : i \in 1 .. n - 1 + 1 /\ 1 + i - 1 = i
  BY <1>1
<1>6. \A i \in 1 .. n : SubSeq(back, 1, n)[i] = history[i]
  BY <1>2, <1>3, <1>5 DEF Recency
<1>7. history = SubSeq(back, 1, n)
  BY <1>1, <1>3, <1>4, <1>6, SeqEqual
<1> QED BY <1>7 DEF HistoryIsRecency, Recency, back

\* The history holds the texts of the last successes, each once, the latest
\* first (index.html, pushHistory).
THEOREM LatestFirst == Spec => []HistoryIsRecency
<1>1. Init => IInv /\ TextsKnown /\ Recency
  <2>1. Init => Recency
    <3>1. <<>> \in Seq(Texts) /\ Len(<<>>) = 0 /\ MaxHistory \in Nat \ {0}
      BY EmptySeq, StudioAssumption
    <3> QED BY <3>1 DEF Init, Recency, Single
  <2> QED BY <2>1, FreshIInv, FreshKnown DEF Init
<1>2. IInv /\ TextsKnown /\ Recency /\ [Next]_vars => (IInv /\ TextsKnown /\ Recency)'
  BY StepIInv, HistoryNext
<1> QED BY <1>1, <1>2, RecencyImplies, PTL DEF Spec
================================================================================
