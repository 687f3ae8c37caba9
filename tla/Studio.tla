-------------------------------- MODULE Studio --------------------------------
(***************************************************************************)
(* The Studio page (src/static/index.html): asynchronous calls of the      *)
(* server, each of which writes its answer to the page whenever it comes,  *)
(* the history of queries, and the timers that restore the status line.    *)
(*                                                                         *)
(* A handler runs to its next await without interruption.  Nothing keeps   *)
(* executeQuery from being called again while it waits: the disabled       *)
(* button does not stop Ctrl+Enter, the list of tables or the history.     *)
(***************************************************************************)
EXTENDS Naturals, SequencesExt

CONSTANTS
  Texts,        \* the queries the user may run
  MaxHistory,   \* MAX_HISTORY
  MaxCalls,     \* bound: calls of the server before the page is reloaded
  MaxTimers     \* bound: copies within the two seconds of a timer

ASSUME StudioAssumption ==
  /\ MaxHistory \in Nat \ {0} /\ MaxCalls \in Nat /\ MaxTimers \in Nat

\* executeQuery, loadTables and fetchMetrics
Kinds == {"query", "tables", "metrics"}
NoText == "-"   \* of a call that is no query, or has ended

VARIABLES
  calls,      \* the calls, oldest first: kind, state, sql until they end, and the
              \* calls of the same kind that were under way when it began
  shown,      \* the call whose answer each part of the page shows, or 0
  numbers,    \* the call whose rows, duration and size are shown, 0 for "-"
  button,     \* the Run button is enabled
  status,     \* "Ready", "Querying", "Success", "Error" or "Copied"
  timers,     \* the pending timers of copySnippet, oldest first: the text to
              \* restore, and whether it is still the one that belongs there
  outdated,   \* history: a timer has restored a text that is not
  polling,    \* metricsPollInterval is set: the dashboard is shown
  history,    \* queryHistory, and its copy in the local storage
  order       \* history: the texts by their last success, oldest first

pageVars == <<shown, numbers, button, status, timers, outdated, polling>>
vars == <<calls, pageVars, history, order>>

FreshPage ==
  /\ calls = <<>>
  /\ shown = [kind \in Kinds |-> 0] /\ numbers = 0
  /\ button = TRUE /\ status = "Ready"
  /\ timers = <<>> /\ outdated = FALSE /\ polling = FALSE

Init == FreshPage /\ history = <<>> /\ order = <<>>

Of(kind) == {c \in DOMAIN calls : calls[c].kind = kind}
UnderWay(kind) == {c \in Of(kind) : calls[c].state = "waiting"}

Begin(kind, sql) ==
  /\ Len(calls) < MaxCalls
  /\ calls' = Append(calls,
       [kind |-> kind, sql |-> sql, state |-> "waiting", during |-> UnderWay(kind)])

End(c, state) ==
  /\ calls[c].state = "waiting"
  /\ calls' = [calls EXCEPT ![c].state = state, ![c].sql = NoText]

--------------------------------------------------------------------------------
(* executeQuery                                                            *)

\* The pending timers will not restore what belongs there.
Disturb == timers' = [i \in DOMAIN timers |-> [timers[i] EXCEPT !.belongs = FALSE]]

\* From the editor, the history, the list of tables or, in the dashboard, the
\* recent queries, which switch back to the Studio view.
ExecuteQuery(sql) ==
  /\ Begin("query", sql)
  /\ button' = FALSE /\ polling' = FALSE
  /\ status' = "Querying" /\ numbers' = 0
  /\ Disturb /\ outdated' = FALSE
  /\ UNCHANGED <<shown, history, order>>

Truncate(list) == IF Len(list) > MaxHistory THEN Front(list) ELSE list

\* The filter of pushHistory. A text is there at most once.
Without(list, sql) ==
  LET at == {i \in DOMAIN list : list[i] = sql}
  IN  IF at = {} THEN list ELSE RemoveAt(list, CHOOSE i \in at : TRUE)

\* Mutant: a text may be in the history twice.
PushHistory_Repeats(sql) ==
  history' = IF history # <<>> /\ Head(history) = sql THEN history
             ELSE Truncate(<<sql>> \o history)

\* pushHistory
PushHistory(sql) == history' = Truncate(<<sql>> \o Without(history, sql))

\* Mutant: the button waits for the last call to end.
FinallyEnable_Last(c) == button' = (UnderWay("query") = {c} /\ c = Len(calls))

\* The `finally` of executeQuery.
FinallyEnable(c) == button' = TRUE

\* Mutant: the answer appears only if none is there.
Show_First(c) == shown' = [shown EXCEPT ![calls[c].kind] = IF @ = 0 THEN c ELSE @]

Show(c) == shown' = [shown EXCEPT ![calls[c].kind] = c]

\* The body was read to its end.
QuerySucceeds(c) ==
  /\ c \in Of("query") /\ End(c, "Success")
  /\ Show(c) /\ numbers' = c
  /\ status' = "Success" /\ outdated' = FALSE
  /\ Disturb /\ FinallyEnable(c)
  /\ PushHistory(calls[c].sql)
  /\ order' = Append(Without(order, calls[c].sql), calls[c].sql)
  /\ UNCHANGED polling

\* No answer, an error, or a body that breaks off.
QueryFails(c) ==
  /\ c \in Of("query") /\ End(c, "Error")
  /\ Show(c)
  /\ status' = "Error" /\ outdated' = FALSE
  /\ Disturb /\ FinallyEnable(c)
  /\ UNCHANGED <<numbers, polling, history, order>>

--------------------------------------------------------------------------------
(* loadTables, the dashboard and the status line                           *)

\* At the start, with the refresh button, or after the settings were saved.
LoadTables ==
  /\ Begin("tables", NoText)
  /\ shown' = [shown EXCEPT !["tables"] = 0]
  /\ UNCHANGED <<numbers, button, status, timers, outdated, polling, history, order>>

\* The list, or the failure to load it, takes the place of the list.
TablesLoaded(c) ==
  /\ c \in Of("tables") /\ End(c, "Success")
  /\ Show(c)
  /\ UNCHANGED <<numbers, button, status, timers, outdated, polling, history, order>>

\* switchView fetches the metrics once, and then every second.
ShowDashboard ==
  /\ Begin("metrics", NoText)
  /\ polling' = TRUE
  /\ UNCHANGED <<shown, numbers, button, status, timers, outdated, history, order>>

ShowStudio ==
  /\ polling /\ polling' = FALSE
  /\ UNCHANGED <<calls, shown, numbers, button, status, timers, outdated, history, order>>

\* The interval elapses, whether or not the last answer is there.
PollMetrics ==
  /\ polling /\ Begin("metrics", NoText)
  /\ UNCHANGED <<pageVars, history, order>>

\* A failure is ignored.
MetricsArrive(c) ==
  /\ c \in Of("metrics")
  /\ \/ End(c, "Success") /\ Show(c)
     \/ End(c, "Error") /\ UNCHANGED shown
  /\ UNCHANGED <<numbers, button, status, timers, outdated, polling, history, order>>

\* The snippet is in the clipboard: say so for two seconds.
CopySnippet ==
  /\ Len(timers) < MaxTimers
  /\ timers' = Append(timers,
       [text |-> status, belongs |-> UnderWay("query") = {} /\ timers = <<>> /\ ~outdated])
  /\ status' = "Copied"
  /\ UNCHANGED <<calls, shown, numbers, button, outdated, polling, history, order>>

\* The oldest timer writes back what it found.
RestoreStatus ==
  /\ timers # <<>>
  /\ status' = Head(timers).text
  /\ outdated' = ~Head(timers).belongs
  /\ timers' = Tail(timers)
  /\ UNCHANGED <<calls, shown, numbers, button, polling, history, order>>

\* What is left is the history in the local storage.
Reload ==
  /\ calls' = <<>>
  /\ shown' = [kind \in Kinds |-> 0] /\ numbers' = 0
  /\ button' = TRUE /\ status' = "Ready"
  /\ timers' = <<>> /\ outdated' = FALSE /\ polling' = FALSE
  /\ UNCHANGED <<history, order>>

--------------------------------------------------------------------------------
User ==
  \/ \E sql \in Texts : ExecuteQuery(sql)
  \/ LoadTables \/ ShowDashboard \/ ShowStudio \/ CopySnippet \/ Reload

Answer(c) == QuerySucceeds(c) \/ QueryFails(c) \/ TablesLoaded(c) \/ MetricsArrive(c)

Next ==
  \/ User
  \/ PollMetrics \/ RestoreStatus
  \/ \E c \in DOMAIN calls : Answer(c)

Spec == Init /\ [][Next]_vars

--------------------------------------------------------------------------------
\* An answer that appears: the failure of fetchMetrics does not, and loadTables
\* has its failure take the place of the list.
Answered(c) == calls[c].state = "Success" \/ (calls[c].kind = "query" /\ calls[c].state = "Error")

\* Each part of the page shows the newest call that was answered, unless that one
\* began before the call that is shown had ended: a slow answer can replace a
\* newer one, but only one whose call it overlapped (index.html, executeQuery,
\* loadTables, fetchMetrics).
StaleOnlyByOverlap ==
  \A kind \in Kinds : shown[kind] # 0 =>
    \A c \in Of(kind) :
      Answered(c) => c <= shown[kind] \/ shown[kind] \in calls[c].during

Overlap(c, d) == c \in calls[d].during \/ d \in calls[c].during

\* When no query is under way, the button can be used again, and status and
\* numbers are those of the result shown. The exceptions: the numbers may be of
\* another call after an error, if the two overlapped, and the status may be that
\* of an earlier moment if it was copied over while a query or another copy was
\* under way (index.html, executeQuery, copySnippet).
PageAgreesAtRest ==
  UnderWay("query") = {} =>
    /\ button
    /\ shown["query"] # 0 =>
         LET state == calls[shown["query"]].state
         IN  /\ timers # <<>> \/ outdated \/ status = state
             /\ IF state = "Success" THEN numbers = shown["query"]
                ELSE numbers = 0 \/ Overlap(numbers, shown["query"])

\* The history holds the last MaxHistory texts to succeed, each once, the latest
\* success first, in whatever order the answers came and over reloads
\* (index.html, pushHistory).
HistoryIsRecency ==
  history = SubSeq(Reverse(order), 1, IF Len(order) < MaxHistory THEN Len(order) ELSE MaxHistory)
================================================================================
