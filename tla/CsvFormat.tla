------------------------------- MODULE CsvFormat -------------------------------
(***************************************************************************)
(* The CSV format between its two ends: CsvWriter (src/src/csv.rs) and the *)
(* readers of the Studio page (src/static/index.html), which are parseCSV  *)
(* for the result of a query and loadTables for the list of tables.        *)
(*                                                                         *)
(* The page has the whole body before it parses (`await res.text()`), so   *)
(* the chunks it came in play no part; a body that breaks off is an        *)
(* exception there and is never parsed. Characters are members of a small  *)
(* alphabet.                                                               *)
(***************************************************************************)
EXTENDS Naturals, Sequences, FiniteSets, SequencesExt

CONSTANTS
  Quote, Comma, CR, LF,   \* the characters the format knows
  Others,                 \* all other characters
  Spaces,                 \* those of them that are white space to JavaScript
  MaxColumns,             \* bound: columns of a result
  MaxCells,               \* bound: columns times records, the header among them
  MaxField, MaxText       \* bounds: characters in a field and in all fields

ASSUME FormatAssumption ==
  /\ MaxColumns \in Nat /\ MaxCells \in Nat /\ MaxField \in Nat /\ MaxText \in Nat
  /\ Cardinality({Quote, Comma, CR, LF}) = 4
  /\ {Quote, Comma, CR, LF} \cap Others = {} /\ Spaces \subseteq Others

Special == {Quote, Comma, CR, LF}
Fields == BoundedSeq(Special \cup Others, MaxField)

\* A value is NULL, a number or bytes (TEXT, BLOB or the name of a column).
Values ==
  [kind : {"null"}, chars : {<<>>}]
    \cup [kind : {"number"}, chars : BoundedSeq(Others \ Spaces, MaxField) \ {<<>>}]
    \cup [kind : {"bytes"}, chars : Fields]

Names == {v \in Values : v.kind = "bytes"}

VARIABLES
  stage,       \* "writing", "parsing" or "shown"
  columns,     \* the number of columns
  result,      \* the records written so far, the header first
  text,        \* their CSV
  i,           \* parseCSV: the next character
  inQuotes, currentVal, currentRow, rows

writer == <<columns, result, text>>
parser == <<i, inQuotes, currentVal, currentRow, rows>>
vars == <<stage, writer, parser>>

Init ==
  /\ stage = "writing" /\ columns \in 0 .. MaxColumns
  /\ result = <<>> /\ text = <<>>
  /\ i = 1 /\ inQuotes = FALSE /\ currentVal = <<>> /\ currentRow = <<>> /\ rows = <<>>

--------------------------------------------------------------------------------
(* CsvWriter.                                                              *)

\* Mutant: quotes inside a field are not doubled.
WriteEscapedField_KeepsQuotes(field) ==
  IF \E k \in DOMAIN field : field[k] \in Special
    THEN <<Quote>> \o field \o <<Quote>>
    ELSE field

\* Mutant: a carriage return alone does not call for quotes.
WriteEscapedField_BareCR(field) ==
  IF \E k \in DOMAIN field : field[k] \in Special \ {CR}
    THEN <<Quote>>
           \o FlattenSeq([k \in DOMAIN field |->
                IF field[k] = Quote THEN <<Quote, Quote>> ELSE <<field[k]>>])
           \o <<Quote>>
    ELSE field

\* write_escaped_field. The slices it writes up to each quote, and after the
\* last one, are the field with every quote doubled.
WriteEscapedField(field) ==
  IF \E k \in DOMAIN field : field[k] \in Special
    THEN <<Quote>>
           \o FlattenSeq([k \in DOMAIN field |->
                IF field[k] = Quote THEN <<Quote, Quote>> ELSE <<field[k]>>])
           \o <<Quote>>
    ELSE field

\* write_value: NULL writes nothing and a number is not escaped.
WriteValue(v) == IF v.kind = "bytes" THEN WriteEscapedField(v.chars) ELSE v.chars

\* write_header and write_row.
WriteRecord(record) ==
  FlattenSeq([c \in DOMAIN record |->
    (IF c = 1 THEN <<>> ELSE <<Comma>>) \o WriteValue(record[c])]) \o <<CR, LF>>

\* The characters of all fields of the records.
Volume(records) ==
  FoldLeft(LAMBDA sum, record :
             FoldLeft(LAMBDA s, v : s + Len(v.chars), sum, record), 0, records)

Emit(record) ==
  /\ stage = "writing" /\ columns * (Len(result) + 1) <= MaxCells
  /\ result' = Append(result, record)
  /\ Volume(result') <= MaxText
  /\ text' = text \o WriteRecord(record)
  /\ UNCHANGED <<stage, columns, parser>>

\* A statement without columns (BEGIN, say) has neither header nor rows: the body
\* is empty.
Header == /\ result = <<>> /\ columns > 0
          /\ \E record \in [1 .. columns -> Names] : Emit(record)

Row == /\ result # <<>>
       /\ \E record \in [1 .. columns -> Values] : Emit(record)

--------------------------------------------------------------------------------
(* parseCSV.                                                               *)

\* The body is complete: the page has its text.
Receive ==
  /\ stage = "writing" /\ (result # <<>> \/ columns = 0)
  /\ stage' = "parsing"
  /\ UNCHANGED <<writer, parser>>

Parsing == stage = "parsing" /\ i <= Len(text)
char == text[i]
NextIs(c) == i < Len(text) /\ text[i + 1] = c

DoubledQuote ==
  /\ Parsing /\ char = Quote /\ inQuotes /\ NextIs(Quote)
  /\ currentVal' = Append(currentVal, Quote)
  /\ i' = i + 2
  /\ UNCHANGED <<stage, writer, inQuotes, currentRow, rows>>

ToggleQuotes ==
  /\ Parsing /\ char = Quote /\ ~(inQuotes /\ NextIs(Quote))
  /\ inQuotes' = ~inQuotes
  /\ i' = i + 1
  /\ UNCHANGED <<stage, writer, currentVal, currentRow, rows>>

FieldEnd ==
  /\ Parsing /\ char = Comma /\ ~inQuotes
  /\ currentRow' = Append(currentRow, currentVal)
  /\ currentVal' = <<>>
  /\ i' = i + 1
  /\ UNCHANGED <<stage, writer, inQuotes, rows>>

\* A row of one empty field is what a blank line parses to, and is dropped.
Keep(row) == Len(row) > 1 \/ row[1] # <<>>

RecordEnd ==
  /\ Parsing /\ char \in {CR, LF} /\ ~inQuotes
  /\ LET row == Append(currentRow, currentVal)
     IN  rows' = IF Keep(row) THEN Append(rows, row) ELSE rows
  /\ currentVal' = <<>> /\ currentRow' = <<>>
  /\ i' = IF char = CR /\ NextIs(LF) THEN i + 2 ELSE i + 1
  /\ UNCHANGED <<stage, writer, inQuotes>>

Character ==
  /\ Parsing /\ char # Quote /\ (inQuotes \/ char \notin Special)
  /\ currentVal' = Append(currentVal, char)
  /\ i' = i + 1
  /\ UNCHANGED <<stage, writer, inQuotes, currentRow, rows>>

\* The end of the text ends a record that no line break has ended.
TextEnd ==
  /\ stage = "parsing" /\ i > Len(text)
  /\ LET row == Append(currentRow, currentVal)
     IN  rows' = IF (currentVal # <<>> \/ currentRow # <<>>) /\ Keep(row)
                   THEN Append(rows, row) ELSE rows
  /\ stage' = "shown"
  /\ UNCHANGED <<writer, i, inQuotes, currentVal, currentRow>>

Terminated == stage = "shown" /\ UNCHANGED vars

Next ==
  \/ Header \/ Row \/ Receive
  \/ DoubledQuote \/ ToggleQuotes \/ FieldEnd \/ RecordEnd \/ Character \/ TextEnd
  \/ Terminated

Spec == Init /\ [][Next]_vars

--------------------------------------------------------------------------------
(* What the page shows.                                                    *)

\* executeQuery: the first row parsed is the header, the others are the grid; a
\* row that is short has empty cells.
ShownHeader == IF rows = <<>> THEN <<>> ELSE rows[1]
Grid ==
  [r \in 1 .. Len(rows) - 1 |->
    [c \in DOMAIN ShownHeader |-> IF c \in DOMAIN rows[r + 1] THEN rows[r + 1][c] ELSE <<>>]]

White == {CR, LF} \cup Spaces

\* JavaScript's trim: the text without the white space it begins and ends with.
Trim(s) ==
  LET solid == {k \in DOMAIN s : s[k] \notin White}
  IN  IF solid = {} THEN <<>>
      ELSE SubSeq(s, CHOOSE k \in solid : \A m \in solid : k <= m,
                     CHOOSE k \in solid : \A m \in solid : k >= m)

\* A line feed begins a line, any other character goes to the last one.
Extended(lines, c) ==
  IF c = LF THEN Append(lines, <<>>)
  ELSE Append(Front(lines), Append(Last(lines), c))

\* split('\n'), from the lines of one prefix of s to those of the next.
Lines(s) ==
  LET lines[k \in 0 .. Len(s)] ==
        IF k = 0 THEN << <<>> >> ELSE Extended(lines[k - 1], s[k])
  IN  lines[Len(s)]

\* The lines that are not empty.
Filled(lines) ==
  FlattenSeq([k \in DOMAIN lines |-> IF lines[k] = <<>> THEN <<>> ELSE <<lines[k]>>])

\* Mutant: the lines are not trimmed.
TableList_Raw(s) == Filled(Tail(Lines(Trim(s))))

\* The names loadTables finds: the lines after the first one, trimmed, those that
\* are not empty. They go into the page as HTML, which is not modelled.
TableList(s) ==
  LET lines == Tail(Lines(Trim(s)))
  IN  Filled([k \in DOMAIN lines |-> Trim(lines[k])])

--------------------------------------------------------------------------------
Chars(record) == [c \in DOMAIN record |-> record[c].chars]

\* The records that make a line which is not blank.
NotBlank(records) ==
  FlattenSeq([k \in DOMAIN records |->
    IF Chars(records[k]) = << <<>> >> THEN <<>> ELSE <<Chars(records[k])>>])

\* Wherever the parser is, it has made one row of every record whose text it
\* has read, in order and with the fields that were written, but for records of
\* a single empty field; and at the end of a record it
\* is outside quotes, with nothing left over (csv.rs, write_escaped_field
\* against index.html, parseCSV).
RecordsInStep ==
  stage # "writing" =>
    LET end == [k \in 0 .. Len(result) |->
                  Len(FlattenSeq([m \in 1 .. k |-> WriteRecord(result[m])]))]
        read == CHOOSE k \in DOMAIN end :
                  /\ end[k] < i
                  /\ \A m \in DOMAIN end : end[m] < i => m <= k
    IN  /\ rows = NotBlank(SubSeq(result, 1, read))
        /\ end[read] = i - 1 => ~inQuotes /\ currentVal = <<>> /\ currentRow = <<>>

\* The page shows the names of the columns over the records, cell by cell, if
\* there are two columns or more, or if the only column has a name and no value
\* of it is NULL or empty (index.html, executeQuery).
GridIsResult ==
  stage = "shown" /\ columns > 0
    /\ (columns > 1 \/ \A k \in DOMAIN result : NotBlank(<<result[k]>>) # <<>>) =>
    /\ ShownHeader = Chars(result[1])
    /\ Grid = [k \in 1 .. Len(result) - 1 |-> Chars(result[k + 1])]

\* A name CSV has no quotes for and trim has nothing to take from.
Listable(name) ==
  name \in Seq(Others) \ {<<>>} /\ Head(name) \notin Spaces /\ Last(name) \notin Spaces

\* loadTables does not parse CSV: the names it takes from the lines are those of
\* the result if and only if each of them is not empty, needs no quotes, and
\* neither begins nor ends with white space; blanks inside a name do no harm. That
\* is before the names become HTML, where a name with < or & shows as something
\* else (index.html, loadTables).
TableListIsExact ==
  stage = "shown" /\ columns = 1 /\ Listable(result[1][1].chars) =>
    LET names == [k \in 1 .. Len(result) - 1 |-> result[k + 1][1].chars]
    IN  TableList(text) = names <=> \A k \in DOMAIN names : Listable(names[k])
================================================================================
