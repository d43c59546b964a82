--------------------------- MODULE ColumnarWriter ---------------------------
(***************************************************************************)
(* One column of a Parquet or ORC export (src/save.rs): its type is        *)
(* inferred from the values of the first batch and every batch is built    *)
(* under that type.  A value is what the conversions of the drivers make   *)
(* of a cell, as far as the inference tells values apart.                  *)
(***************************************************************************)
EXTENDS Naturals, Sequences

CONSTANTS
    BatchSize,  \* rows of a batch, at most
    MaxRows     \* bound on the rows of the result

ASSUME ColumnAssumption == BatchSize \in Nat \ {0} /\ MaxRows \in Nat

VARIABLES
    kinds,     \* the kinds of values the column may have
    rows,      \* the values that arrived, null among them
    phase,     \* what the writer does: wait, infer, build
    at,        \* rows the inference has looked at
    inferred,  \* its type so far
    schema,    \* the type in the file, once it is fixed
    first,     \* rows of the first batch
    cells,     \* what became of each value that was built
    whole      \* history: the type inferred from all values built so far

vars == <<kinds, rows, phase, at, inferred, schema, first, cells, whole>>

-----------------------------------------------------------------------------
(* Values: numbers that a double holds exactly (int), other i64 (wide),    *)
(* u64 above them (big), numbers that serde_json keeps as a double         *)
(* (float); strings, arrays and objects (text).                            *)

Numbers == {"int", "wide", "big", "float"}
Values == Numbers \union {"bool", "text"}

(* f64_to_json: NaN and the infinities become strings.                     *)
FloatKinds == {"float", "text"}

(* value_from_row, value_ref_to_json: the first Rust type that fits.  A    *)
(* MySQL boolean is a TINYINT, which the i8 in front of bool takes, and a  *)
(* MySQL text or blob that parses as JSON is what it parses to: JsonValue  *)
(* is in front of String, and sqlx decodes it from these types too.        *)
PostgresKinds ==
    [bool |-> {"bool"}, int4 |-> {"int"}, int8 |-> {"int", "wide"}, float8 |-> FloatKinds,
     numeric |-> {"text"}, json |-> Values, text |-> {"text"}, bytea |-> {"text"},
     timestamp |-> {"text"}, uuid |-> {"text"}, other |-> {"text"}]
MySqlKinds ==
    [int |-> {"int"}, bigint |-> {"int", "wide"}, unsigned |-> {"int", "wide", "big"},
     boolean |-> {"int"}, double |-> FloatKinds, decimal |-> {"text"}, json |-> Values,
     text |-> Values, blob |-> Values, datetime |-> {"text"}, other |-> {"text"}]
DuckDbKinds ==
    [boolean |-> {"bool"}, int |-> {"int"}, bigint |-> {"int", "wide"}, hugeint |-> {"text"},
     ubigint |-> {"int", "wide", "big"}, double |-> FloatKinds, decimal |-> {"text"},
     timestamp |-> {"text"}, text |-> {"text"}, blob |-> {"text"}, list |-> {"text"},
     struct |-> {"text"}, union |-> Values]
(* What the server prints: wide integers bare or quoted, as it is set, and *)
(* a Float64 without a fraction like an integer.                           *)
ClickHouseKinds ==
    [Bool |-> {"bool"}, Int64 |-> {"int", "wide"}, UInt64 |-> {"int", "wide", "big"},
     quoted |-> {"text"}, Float64 |-> {"int", "big", "float"}, String |-> {"text"}]

RangeOf(f) == {f[x] : x \in DOMAIN f}
ColumnKinds ==
    RangeOf(PostgresKinds) \union RangeOf(MySqlKinds)
    \union RangeOf(DuckDbKinds) \union RangeOf(ClickHouseKinds)

-----------------------------------------------------------------------------
(* Types.                                                                  *)

Types == {"bool", "int64", "float64", "utf8"}

(* The type of a column whose first value is v.                            *)
TypeOf(v) ==
    CASE v = "bool"            -> "bool"
      [] v \in {"int", "wide"} -> "int64"
      [] v = "float"           -> "float64"
      [] OTHER                 -> "utf8"

(* Faulty variant: a fraction among integers does not widen the column.    *)
WidenKeepsInt(t, v) ==
    CASE t = "none" -> TypeOf(v)
      [] t = "int64" /\ v \in Numbers -> "int64"
      [] t = "float64" /\ v \in Numbers -> "float64"
      [] t = "bool" /\ v = "bool" -> "bool"
      [] OTHER -> "utf8"
(* Faulty variant: integers among fractions do.                            *)
WidenFloatToText(t, v) ==
    CASE t = "none" -> TypeOf(v)
      [] t = "int64" /\ v \in {"int", "wide"} -> "int64"
      [] t = "float64" /\ v = "float" -> "float64"
      [] t = "bool" /\ v = "bool" -> "bool"
      [] OTHER -> "utf8"
(* The match of infer_column_type.                                         *)
Widen(t, v) ==
    CASE t = "none" -> TypeOf(v)
      [] t = "int64" /\ v \in {"int", "wide"} -> "int64"
      [] t \in {"int64", "float64"} /\ v \in Numbers /\ ~(t = "int64" /\ v \in {"int", "wide"})
            -> "float64"
      [] t = "bool" /\ v = "bool" -> "bool"
      [] OTHER -> "utf8"
WidenNull(t, v) == IF v = "null" THEN t ELSE Widen(t, v)

(* Faulty variant: a column of text takes strings only.                    *)
FitStringsOnly(t, v) ==
    CASE v = "null" -> "exact"
      [] t = "utf8" /\ v = "text" -> "exact"
      [] t = "bool" /\ v = "bool" -> "exact"
      [] t = "int64" /\ v \in {"int", "wide"} -> "exact"
      [] t = "float64" /\ v \in {"int", "float"} -> "exact"
      [] t = "float64" /\ v \in {"wide", "big"} -> "rounded"
      [] OTHER -> "lost"
(* build_array: what does not fit the type of the array becomes null.      *)
Fit(t, v) ==
    CASE v = "null" -> "exact"
      [] t = "utf8" -> "exact"
      [] t = "bool" /\ v = "bool" -> "exact"
      [] t = "int64" /\ v \in {"int", "wide"} -> "exact"
      [] t = "float64" /\ v \in {"int", "float"} -> "exact"
      [] t = "float64" /\ v \in {"wide", "big"} -> "rounded"
      [] OTHER -> "lost"

-----------------------------------------------------------------------------

Init ==
    /\ kinds \in ColumnKinds
    /\ rows = << >>
    /\ phase = "wait"
    /\ at = 0
    /\ inferred = "none"
    /\ schema = "unset"
    /\ first = 0
    /\ cells = << >>
    /\ whole = "none"

(* write_batch; ensure_initialized infers only when there is no writer.    *)
WriteBatch ==
    /\ phase = "wait"
    /\ \E n \in 1 .. BatchSize :
          /\ Len(rows) + n <= MaxRows
          /\ \E batch \in [1 .. n -> kinds \union {"null"}] : rows' = rows \o batch
    /\ phase' = IF schema = "unset" THEN "infer" ELSE "build"
    /\ UNCHANGED <<kinds, at, inferred, schema, first, cells, whole>>

(* The loop over the rows, left at the first row that makes it text.       *)
InferRow ==
    /\ phase = "infer" /\ at < Len(rows) /\ inferred # "utf8"
    /\ at' = at + 1
    /\ inferred' = WidenNull(inferred, rows[at + 1])
    /\ UNCHANGED <<kinds, rows, phase, schema, first, cells, whole>>

(* Faulty variant: nulls alone make a column of numbers.                   *)
TypeOfNullsInt == "int64"
TypeOfNulls == "utf8"

FixSchema ==
    /\ phase = "infer" /\ (at = Len(rows) \/ inferred = "utf8")
    /\ schema' = IF inferred = "none" THEN TypeOfNulls ELSE inferred
    /\ first' = Len(rows)
    /\ phase' = "build"
    /\ UNCHANGED <<kinds, rows, at, inferred, cells, whole>>

BuildRow ==
    /\ phase = "build" /\ Len(cells) < Len(rows)
    /\ LET value == rows[Len(cells) + 1]
       IN  /\ cells' = Append(cells, Fit(schema, value))
           /\ whole' = WidenNull(whole, value)
    /\ UNCHANGED <<kinds, rows, phase, at, inferred, schema, first>>

BatchBuilt ==
    /\ phase = "build" /\ Len(cells) = Len(rows)
    /\ phase' = "wait"
    /\ UNCHANGED <<kinds, rows, at, inferred, schema, first, cells, whole>>

Finished == phase = "wait" /\ Len(rows) = MaxRows /\ UNCHANGED vars

Next == WriteBatch \/ InferRow \/ FixSchema \/ BuildRow \/ BatchBuilt \/ Finished

Spec == Init /\ [][Next]_vars

-----------------------------------------------------------------------------
(* Properties.                                                             *)

TypeOK ==
    /\ kinds \in SUBSET Values
    /\ rows \in Seq(Values \union {"null"})
    /\ phase \in {"wait", "infer", "build"}
    /\ at \in 0 .. Len(rows)
    /\ inferred \in Types \union {"none"}
    /\ schema \in Types \union {"unset"}
    /\ first \in 0 .. Len(rows)
    /\ cells \in Seq({"exact", "rounded", "lost"}) /\ Len(cells) <= Len(rows)
    /\ whole \in Types \union {"none"}

(* No value of the first batch becomes null, in whatever order its values  *)
(* come and wherever the inference stops looking.                          *)
FirstBatchWhole ==
    \A i \in 1 .. Len(cells) : i <= first => cells[i] # "lost"

(* The type is no wider than the first batch asks for: whatever is before  *)
(* it in the list would not hold some value of that batch exactly.         *)
Narrower(t) ==
    CASE t = "bool" -> {} [] t = "int64" -> {"bool"}
      [] t = "float64" -> {"bool", "int64"} [] t = "utf8" -> {"bool", "int64", "float64"}
NarrowestType ==
    schema # "unset" =>
        \/ \A i \in 1 .. first : rows[i] = "null"
        \/ \A t \in Narrower(schema) : \E i \in 1 .. first : Fit(t, rows[i]) # "exact"

(* A value of a later batch becomes null only in a column that would have  *)
(* got another type had all rows been there when it was inferred.          *)
LostOnlyIfWider ==
    (\E i \in 1 .. Len(cells) : cells[i] = "lost") => whole # schema

(* A column of one of these SQL types keeps every value exactly, however   *)
(* many nulls its first batch has.  Not among them are unsigned integers,  *)
(* floating point numbers, JSON, unions, and the text and blobs of MySQL,  *)
(* Doris and StarRocks: these may lose some values to null.                *)
StableColumns ==
    {PostgresKinds[c] : c \in {"bool", "int4", "int8", "numeric", "text", "bytea",
                               "timestamp", "uuid", "other"}}
    \union {MySqlKinds[c] : c \in {"int", "bigint", "boolean", "decimal", "datetime", "other"}}
    \union {DuckDbKinds[c] : c \in {"boolean", "int", "bigint", "hugeint", "decimal",
                                    "timestamp", "text", "blob", "list", "struct"}}
    \union {ClickHouseKinds[c] : c \in {"Bool", "Int64", "quoted", "String"}}
StableIsExact ==
    kinds \in StableColumns => \A i \in 1 .. Len(cells) : cells[i] = "exact"
=============================================================================
