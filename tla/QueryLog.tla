------------------------------- MODULE QueryLog -------------------------------
(***************************************************************************)
(* A query's text between the Studio page and the server's log of recent   *)
(* queries: root trims it, runs it and logs it on one line                 *)
(* (format_query_for_logging in src/src/handlers.rs), and a click on the   *)
(* log in the dashboard runs the logged text (src/static/index.html).      *)
(***************************************************************************)
EXTENDS Naturals, SequencesExt

CONSTANT MaxLength   \* bound: characters of a query

ASSUME LengthAssumption == MaxLength \in Nat

\* A space, a line break, a word character, a quote, and the two dashes that begin
\* a comment.
Blanks == {"space", "break"}
Characters == Blanks \cup {"word", "quote", "dashes"}

VARIABLES
  step,    \* "writing", "ran" or "replayed"
  query,   \* what the user writes, and what is run
  log,     \* the text in the log of recent queries
  first    \* history: the query that was logged first

logVars == <<step, query, log, first>>

LogInit == step = "writing" /\ query = <<>> /\ log = <<>> /\ first = <<>>

Trimmed(text) == text = <<>> \/ (Head(text) \notin Blanks /\ Last(text) \notin Blanks)

\* Mutant: the parts are joined without a space.
SpaceFor_Nothing(line) == line

\* A run of blanks becomes one space.
SpaceFor(line) == IF line = <<>> \/ Last(line) = "space" THEN line ELSE Append(line, "space")

Joined(line, ch) == IF ch \in Blanks THEN SpaceFor(line) ELSE Append(line, ch)

\* split_whitespace and join(" "), of a text that is trimmed: from the line of one
\* prefix to that of the next.
FormatQueryForLogging(text) ==
  LET line[k \in 0 .. Len(text)] == IF k = 0 THEN <<>> ELSE Joined(line[k - 1], text[k])
  IN  line[Len(text)]

\* The user types.
Write ==
  /\ step = "writing" /\ Len(query) < MaxLength
  /\ \E ch \in Characters : query' = Append(query, ch)
  /\ UNCHANGED <<step, log, first>>

\* root runs the text as it is. A request that was answered is logged on one
\* line, one that was rejected as it is.
Run ==
  /\ step = "writing" /\ query # <<>> /\ Trimmed(query)
  /\ step' = "ran"
  /\ log' \in {FormatQueryForLogging(query), query}
  /\ first' = query
  /\ UNCHANGED query

\* The click on the logged query, which the server logs in its turn.
Replay ==
  /\ step \in {"ran", "replayed"}
  /\ step' = "replayed"
  /\ query' = log
  /\ log' \in {FormatQueryForLogging(log), log}
  /\ UNCHANGED first

LogNext == Write \/ Run \/ Replay

LogSpec == LogInit /\ [][LogNext]_logVars

--------------------------------------------------------------------------------
\* SQL's view of a text, one character after the other: blanks and comments
\* separate and are otherwise nothing, and in a literal everything counts.
Separated(out) == IF out = <<>> \/ Last(out) = "gap" THEN out ELSE Append(out, "gap")

After(at, ch) ==
  CASE at.mode = "literal" ->
         [mode |-> IF ch = "quote" THEN "code" ELSE "literal", out |-> Append(at.out, ch)]
    [] at.mode = "comment" -> [at EXCEPT !.mode = IF ch = "break" THEN "code" ELSE @]
    [] at.mode = "code" /\ ch = "dashes" -> [mode |-> "comment", out |-> Separated(at.out)]
    [] at.mode = "code" /\ ch \in Blanks -> [at EXCEPT !.out = Separated(@)]
    [] OTHER ->
         [mode |-> IF ch = "quote" THEN "literal" ELSE "code", out |-> Append(at.out, ch)]

Read(text) ==
  LET at[k \in 0 .. Len(text)] ==
        IF k = 0 THEN [mode |-> "code", out |-> <<>>] ELSE After(at[k - 1], text[k])
  IN  at[Len(text)]

\* What the text means, up to a separator at its end.
Meaning(text) ==
  LET out == Read(text).out
  IN  IF out # <<>> /\ Last(out) = "gap" THEN Front(out) ELSE out

\* The blanks of a literal are single spaces, and no comment but the last has a
\* meaningful line below it.
Plain(text) ==
  \A i \in {j \in DOMAIN text : text[j] \in Blanks} :
    LET mode == Read(SubSeq(text, 1, i - 1)).mode
    IN  /\ mode = "literal" => text[i] = "space" /\ text[i - 1] \notin Blanks
        /\ mode = "comment" /\ text[i] = "break" =>
             Meaning(SubSeq(text, i + 1, Len(text))) = <<>>

\* A click on a recent query runs what was run before, whatever its layout, if
\* the literals have no blanks but single spaces and nothing follows the line of
\* a comment. Otherwise it runs another query if the first one was answered:
\* the log keeps one line. Clicking again changes nothing more
\* (format_query_for_logging; index.html, loadAndRunQuery).
ReplayIsExact ==
  step = "replayed" =>
    /\ Meaning(query) = Meaning(first) <=> query = first \/ Plain(first)
    /\ query # first => log = query
================================================================================
