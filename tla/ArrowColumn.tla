------------------------------ MODULE ArrowColumn ------------------------------
(***************************************************************************)
(* One column of a Parquet result: its Arrow type, inferred from the       *)
(* declaration or from the first row, and the conversion of each value on  *)
(* its way into a RecordBatch (src/src/parquet_format.rs, with the readers *)
(* of src/src/db/raw_statement.rs and the loop of src/src/db/parquet.rs).  *)
(*                                                                         *)
(* Each column has an appender of its own and they do not meet, so one     *)
(* column is enough. A declaration is the set of keywords it contains, a   *)
(* value is its storage class and a form that says how it converts, and a  *)
(* cell says what the conversion has left of the value.                    *)
(***************************************************************************)
EXTENDS Naturals, Sequences, FiniteSets, SequencesExt

CONSTANTS
  BatchSize,      \* ROW_BATCH_SIZE
  MaxKeywords,    \* bound: keywords in a declaration
  MaxRows         \* bound: rows of the result

ASSUME ColumnAssumption ==
  BatchSize \in Nat \ {0} /\ MaxKeywords \in Nat /\ MaxRows \in Nat

\* The keywords infer_arrow_type looks for, and those only SQLite looks for.
Keywords == {"INT", "REAL", "FLOA", "DOUB", "NUM", "DEC", "BOOL", "BLOB", "BINARY",
             "CHAR", "CLOB", "TEXT"}
Undeclared == {"undeclared"}
Declarations ==
  {d \in SUBSET Keywords : Cardinality(d) <= MaxKeywords} \cup {Undeclared}

\* bit       0, 1 or the text of one     decimal   a text like 1.5
\* small     another integer             padded    a bit with blanks around it
\* large     an integer beyond 2^53      truth     a text like "true" or "no"
\* whole     a real like 2.0             infinite  a text like "inf" or "nan"
\* fraction  a real like 1.5             prefix    a text that begins with a number
\* fine      a real like 0.1 + 0.2       word      another text
\* long      a real like 1e16            invalid   a text that is not UTF-8
\* huge      a real beyond the integers  utf8, binary   a blob that is UTF-8, or is not
Null == [class |-> "null", form |-> "null"]
SqlValues ==
  {Null}
    \cup [class : {"integer"}, form : {"bit", "small", "large"}]
    \cup [class : {"real"}, form : {"whole", "fraction", "fine", "long", "huge"}]
    \cup [class : {"text"},
          form : {"bit", "small", "large", "decimal", "padded", "truth", "infinite",
                  "prefix", "word", "invalid"}]
    \cup [class : {"blob"}, form : {"utf8", "binary"}]

\* The reals that SQLite writes in a way of its own: with fewer digits than they
\* have, or with another exponent ("1.0e+16", where append_value writes "1e16").
Respelled == {"fine", "long", "huge"}

Types == {"Int64", "Float64", "Boolean", "Binary", "Utf8"}

\* kept       the value, perhaps as a text          default    0, false or ""
\* rounded    to a double                           prefix     the number it begins with
\* truncated  to an integer, or to the truth of it  collapsed  to whether it is not 0
\* clamped    to the nearest integer there is       rendered   SQLite's text of a real
\* described  a text that gives its length          null       NULL
Cells == {"kept", "rounded", "truncated", "clamped", "collapsed", "prefix", "rendered",
          "default", "described", "null"}

--------------------------------------------------------------------------------
(* Types.                                                                  *)

\* Mutant: a declaration with BLOB is not looked for.
InferArrowType_NoBlob(d) ==
  CASE "INT" \in d -> "Int64"
    [] "INT" \notin d /\ d \cap {"REAL", "FLOA", "DOUB", "NUM", "DEC"} # {} -> "Float64"
    [] d \cap {"INT", "REAL", "FLOA", "DOUB", "NUM", "DEC"} = {} ->
         IF "BOOL" \in d THEN "Boolean" ELSE "Utf8"

\* infer_arrow_type of a declaration: the first rule that applies.
InferArrowType(d) ==
  CASE "INT" \in d -> "Int64"
    [] "INT" \notin d /\ d \cap {"REAL", "FLOA", "DOUB", "NUM", "DEC"} # {} -> "Float64"
    [] d \cap {"INT", "REAL", "FLOA", "DOUB", "NUM", "DEC"} = {} ->
         IF "BOOL" \in d THEN "Boolean"
         ELSE IF d \cap {"BLOB", "BINARY"} # {} THEN "Binary" ELSE "Utf8"

\* Mutant: a real is taken for an integer.
SampleDataType_FloatAsInt(v) ==
  CASE v.class \in {"integer", "real"} -> "Int64"
    [] v.class = "blob" -> "Binary"
    [] v.class \in {"text", "null"} -> "Utf8"

\* sample_data_type of the first row's value.
SampleDataType(v) ==
  CASE v.class = "integer" -> "Int64"
    [] v.class = "real" -> "Float64"
    [] v.class = "blob" -> "Binary"
    [] v.class \in {"text", "null"} -> "Utf8"

\* infer_schema_from_statement; sample is the first row's value, if there is one.
InferType(d, sample) ==
  IF d # Undeclared THEN InferArrowType(d)
  ELSE IF sample # <<>> THEN SampleDataType(sample[1]) ELSE "Utf8"

--------------------------------------------------------------------------------
(* Conversions.                                                            *)

\* What is no number to SQLite, "inf" and "nan" included.
Wordy == {"truth", "infinite", "word", "invalid", "utf8", "binary"}

\* SQLite's conversions of a value that is not NULL. A text or a blob counts as
\* the number it begins with, blanks before it apart, and as 0 if it begins with
\* none.
ColumnInt64(v) ==
  CASE v.form \in {"bit", "small", "large", "padded", "whole", "long"} -> "kept"
    [] v.form \in {"fraction", "fine", "decimal"} -> "truncated"
    [] v.form = "huge" -> "clamped"
    [] v.form = "prefix" -> "prefix"
    [] v.form \in Wordy -> "default"

ColumnDouble(v) ==
  CASE v.class = "real" \/ v.form \in {"bit", "small", "padded", "decimal"} -> "kept"
    [] v.form = "large" -> "rounded"
    [] v.form = "prefix" -> "prefix"
    [] v.form \in Wordy -> "default"

\* The bytes of a number are those of SQLite's text of it.
ColumnBlob(v) == IF v.form \in Respelled THEN "rendered" ELSE "kept"

\* column_text: what is not UTF-8 becomes the empty text.
ColumnText(v) == IF v.form \in {"invalid", "binary"} THEN "default" ELSE ColumnBlob(v)

\* column_int64 # 0.
ColumnTruth(v) ==
  CASE v.form \in {"bit", "padded"} -> "kept"
    [] v.form \in {"small", "large", "whole", "long", "huge"} -> "collapsed"
    [] v.form \in Wordy \cup {"fraction", "fine", "decimal", "prefix"} -> ColumnInt64(v)

\* Mutant: a column of reals is read as integers.
RawCell_RealAsInt(type, v) ==
  IF v = Null THEN "null"
  ELSE CASE type \in {"Int64", "Float64"} -> ColumnInt64(v)
         [] type = "Boolean" -> ColumnTruth(v)
         [] type = "Utf8" -> ColumnText(v)
         [] type = "Binary" -> ColumnBlob(v)

\* append_raw_row, the way of the server.
RawCell(type, v) ==
  IF v = Null THEN "null"
  ELSE CASE type = "Int64" -> ColumnInt64(v)
         [] type = "Float64" -> ColumnDouble(v)
         [] type = "Boolean" -> ColumnTruth(v)
         [] type = "Utf8" -> ColumnText(v)
         [] type = "Binary" -> ColumnBlob(v)

\* append_value, called by append_row: what has no conversion becomes NULL. The
\* parsers of numbers take no blanks, that of booleans does, and that of doubles
\* takes "inf" and "nan".
RowCell(type, v) ==
  CASE type = "Int64" ->
         (CASE v.form \in {"bit", "small", "large", "whole", "long"} -> "kept"
            [] v.form \in {"fraction", "fine"} -> "truncated"
            [] v.form = "huge" -> "clamped"
            [] OTHER -> "null")
    [] type = "Float64" ->
         (CASE v.form = "large" -> "rounded"
            [] v.class = "real" \/ v.form \in {"bit", "small", "decimal", "infinite"} -> "kept"
            [] OTHER -> "null")
    [] type = "Boolean" ->
         (CASE v.form \in {"bit", "padded", "truth"} -> "kept"
            [] v.class \in {"integer", "real"} /\ v.form # "bit" -> "collapsed"
            [] OTHER -> "null")
    [] type = "Binary" -> IF v.class \in {"text", "blob"} THEN "kept" ELSE "null"
    [] type = "Utf8" ->
         (CASE v = Null -> "null"
            [] v.form = "invalid" -> "default"
            [] v.form = "binary" -> "described"
            [] OTHER -> "kept")

--------------------------------------------------------------------------------
(* The loop of execute_parquet_producer, as this column sees it.           *)

VARIABLES
  pc,        \* "start", "append", "step", "end" or "done"
  declared,  \* the declaration
  fetched,   \* the values of the rows fetched so far
  type,      \* the type in the schema, "none" before it is inferred
  builder,   \* the appender's cells
  count,     \* RecordBatchAccumulator::count
  batches    \* the column in each batch sent

columnVars == <<pc, declared, fetched, type, builder, count, batches>>

ColumnInit ==
  /\ pc = "start" /\ declared \in Declarations
  /\ fetched = <<>> /\ type = "none"
  /\ builder = <<>> /\ count = 0 /\ batches = <<>>

\* The first step of the statement, and the schema.
FirstStep ==
  /\ pc = "start"
  /\ \/ /\ MaxRows > 0
        /\ \E v \in SqlValues : fetched' = <<v>>
        /\ pc' = "append"
     \/ UNCHANGED fetched /\ pc' = "end"
  /\ type' = InferType(declared, fetched')
  /\ UNCHANGED <<declared, builder, count, batches>>

\* Mutant: the batch is built and the appenders go on from where they were.
FinishBatch_KeepsBuilder(cells) ==
  /\ batches' = Append(batches, cells)
  /\ builder' = cells /\ count' = 0

\* finish_batch, and the send of the batch.
FinishBatch(cells) ==
  /\ batches' = Append(batches, cells)
  /\ builder' = <<>> /\ count' = 0

IsFull(rows) == rows >= BatchSize

\* append_raw_row; a full batch goes at once.
AppendRow ==
  /\ pc = "append"
  /\ LET cells == Append(builder, RawCell(type, Last(fetched)))
     IN  IF IsFull(count + 1) THEN FinishBatch(cells)
         ELSE builder' = cells /\ count' = count + 1 /\ UNCHANGED batches
  /\ pc' = "step"
  /\ UNCHANGED <<declared, fetched, type>>

Step ==
  /\ pc = "step"
  /\ \/ /\ Len(fetched) < MaxRows
        /\ \E v \in SqlValues : fetched' = Append(fetched, v)
        /\ pc' = "append"
     \/ UNCHANGED fetched /\ pc' = "end"
  /\ UNCHANGED <<declared, type, builder, count, batches>>

\* What is left, or the empty batch of an empty result.
LastBatch ==
  /\ pc = "end"
  /\ IF count # 0 \/ fetched = <<>> THEN FinishBatch(builder)
     ELSE UNCHANGED <<builder, count, batches>>
  /\ pc' = "done"
  /\ UNCHANGED <<declared, fetched, type>>

ColumnDone == pc = "done" /\ UNCHANGED columnVars

ColumnNext == FirstStep \/ AppendRow \/ Step \/ LastBatch \/ ColumnDone

ColumnSpec == ColumnInit /\ [][ColumnNext]_columnVars

--------------------------------------------------------------------------------
\* The cells so far, over the batches.
Column == FlattenSeq(batches) \o builder

\* Each row has its cell at its place whatever the batches, the count of the
\* accumulator is the length of the appender, and a cell is NULL if and only if
\* the value is (parquet_format.rs, append_raw_row, finish_batch).
RowsKeepTheirPlace ==
  /\ count = Len(builder)
  /\ Len(Column) = Len(fetched) - (IF pc = "append" THEN 1 ELSE 0)
  /\ \A k \in DOMAIN Column :
       /\ Column[k] = "null" <=> fetched[k] = Null
       /\ Column[k] = RawCell(type, fetched[k])

\* SQLite's affinity of a declaration, and the storage classes it favours.
Favoured(d) ==
  IF "INT" \in d THEN {"integer"}
  ELSE IF d \cap {"CHAR", "CLOB", "TEXT"} # {} THEN {"text"}
  ELSE IF "BLOB" \in d THEN {"blob"}
  ELSE IF d \cap {"REAL", "FLOA", "DOUB"} # {} THEN {"real"}
  ELSE {"integer", "real"}

\* A declaration that only one rule of the code applies to, or that SQLite and
\* the code both call an integer.
Unambiguous(d) ==
  "INT" \in d \/
  \E rule \in {{"REAL", "FLOA", "DOUB", "NUM", "DEC"}, {"BOOL"}, {"BLOB", "BINARY"},
               {"CHAR", "CLOB", "TEXT"}} : d \subseteq rule

\* SQLite and infer_arrow_type read a declaration each by its own rules. Where it
\* is unambiguous, the values of the class SQLite favours for it are kept, with
\* four exceptions: an integer too large for a double in NUM or DEC, a number that
\* is not 0 or 1 in BOOL, a text that is not UTF-8, and a real in a column that is
\* no column of numbers (no keyword, or BINARY), of which SQLite's text is kept,
\* digits it leaves out excepted (parquet_format.rs, infer_arrow_type).
DeclaredTypeKeeps ==
  declared # Undeclared /\ Unambiguous(declared) =>
    \A k \in DOMAIN Column :
      fetched[k].class \in Favoured(declared) =>
        \/ Column[k] = "kept"
        \/ type = "Float64" /\ fetched[k].form = "large"
        \/ type = "Boolean" /\ fetched[k].form # "bit"
        \/ fetched[k].form = "invalid"
        \/ type \in {"Utf8", "Binary"} /\ fetched[k].form \in Respelled

\* Without a declaration the first row decides for all batches. Values of its
\* class are kept if they are UTF-8 where they must be, so a column of reals that
\* begins with one keeps them all. After a first NULL the column is of text: what
\* can be a text is kept, but of a real it is SQLite's text, which may have fewer
\* digits (parquet_format.rs, infer_schema_from_statement; raw_statement.rs,
\* sample_data_type, column_text).
SampledTypeKeeps ==
  declared = Undeclared =>
    \A k \in DOMAIN Column :
      fetched[1] = Null \/ fetched[k].class = fetched[1].class =>
        \/ Column[k] = "kept" \/ fetched[k] = Null
        \/ fetched[k].form \in {"invalid", "binary"}
        \/ fetched[1] = Null /\ fetched[k].form \in Respelled

\* The two appenders differ in four ways and no other. Where append_value has no
\* conversion it stores NULL, or the length of a blob, and append_raw_row what
\* SQLite makes of the value, which is never NULL. To SQLite the text "true" is
\* false, and so is 0.5. The texts "inf" and "nan" are doubles to append_value and
\* 0 to SQLite. And each has a formatter of its own for a real as a text, ryu's or
\* SQLite's. Both are taken to read a decimal text alike (parquet_format.rs,
\* append_raw_row, append_value).
AppendersAgree ==
  \A k \in DOMAIN Column :
    \/ Column[k] = RowCell(type, fetched[k])
    \/ RowCell(type, fetched[k]) \in {"null", "described"} /\ Column[k] # "null"
    \/ type = "Boolean" /\ fetched[k].form \in {"truth", "fraction", "fine"}
    \/ type = "Float64" /\ fetched[k].form = "infinite"
    \/ type = "Utf8" /\ fetched[k].form \in Respelled
================================================================================
