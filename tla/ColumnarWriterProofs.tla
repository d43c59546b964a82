------------------------ MODULE ColumnarWriterProofs ------------------------
(***************************************************************************)
(* What holds of one column of a Parquet or ORC export whatever its values *)
(* are, for every number of rows and every size of the batches.            *)
(***************************************************************************)
EXTENDS ColumnarWriter, SequenceTheorems, TLAPS

Cells == Values \union {"null"}

(* The column takes values of its kinds only, and its phases follow each   *)
(* other: nothing is built before the type is fixed.                       *)
PhaseInv ==
    /\ \A i \in 1 .. Len(rows) : rows[i] \in kinds \union {"null"}
    /\ phase = "wait" => Len(cells) = Len(rows)
    /\ phase = "infer" => schema = "unset"
    /\ phase = "build" => schema # "unset"
    /\ schema = "unset" => cells = << >> /\ first = 0 /\ whole = "none"
    /\ schema = "unset" /\ phase = "wait" => at = 0 /\ inferred = "none"

(* A type under which none of the first n values becomes null.             *)
Holds(t, n) == \A i \in 1 .. n : Fit(t, rows[i]) # "lost"

(* A type that the first n values ask for: no narrower one holds them all  *)
(* exactly, and bool is not the type of anything else.                     *)
AskedFor(t, n) ==
    IF t = "none" THEN \A i \in 1 .. n : rows[i] = "null"
    ELSE /\ \A u \in Narrower(t) : \E i \in 1 .. n : Fit(u, rows[i]) # "exact"
         /\ t = "bool" => \E i \in 1 .. n : rows[i] = "bool"

(* The type of a column whose values are all of one kind of type.          *)
OnlyType ==
    /\ kinds = {"bool"} =>
          inferred \in {"none", "bool"} /\ schema \in {"unset", "utf8", "bool"}
    /\ kinds \in {{"int"}, {"int", "wide"}} =>
          inferred \in {"none", "int64"} /\ schema \in {"unset", "utf8", "int64"}
    /\ kinds = {"text"} =>
          inferred \in {"none", "utf8"} /\ schema \in {"unset", "utf8"}

InferenceInv ==
    /\ Holds(inferred, at) /\ AskedFor(inferred, at)
    /\ schema # "unset" => Holds(schema, first)
    /\ Holds(whole, Len(cells))
    /\ \A i \in 1 .. Len(cells) : cells[i] = Fit(schema, rows[i])
    /\ NarrowestType
    /\ OnlyType

ColumnInv == TypeOK /\ PhaseInv /\ InferenceInv

-----------------------------------------------------------------------------

LEMMA WidenType ==
  ASSUME NEW t \in Types \union {"none"}, NEW v \in Cells
  PROVE  WidenNull(t, v) \in Types \union {"none"}
  BY DEF WidenNull, Widen, TypeOf, Types, Cells, Values, Numbers

(* Widening by a value gives a type that holds the value, and whatever the *)
(* old type held.                                                          *)
LEMMA WidenHolds ==
  ASSUME NEW t \in Types \union {"none"}, NEW v \in Cells
  PROVE  /\ Fit(WidenNull(t, v), v) # "lost"
         /\ \A w \in Cells : Fit(t, w) # "lost" => Fit(WidenNull(t, v), w) # "lost"
<1>1. CASE v = "null"
  BY <1>1 DEF WidenNull, Fit
<1>2. CASE v # "null"
  <2>1. WidenNull(t, v) = Widen(t, v)
    BY <1>2 DEF WidenNull
  <2>2. Fit(Widen(t, v), v) # "lost"
    BY <1>2 DEF Widen, TypeOf, Fit, Types, Cells, Values, Numbers
  <2>3. ASSUME NEW w \in Cells, Fit(t, w) # "lost" PROVE Fit(Widen(t, v), w) # "lost"
    BY <1>2, <2>3 DEF Widen, TypeOf, Fit, Types, Cells, Values, Numbers
  <2>q. QED BY <2>1, <2>2, <2>3
<1>q. QED BY <1>1, <1>2

(* What the match makes of every type and value, read off its arms.       *)
LEMMA WidenTable ==
  ASSUME NEW v \in Values
  PROVE  /\ Widen("none", v) = TypeOf(v)
         /\ Widen("bool", v) = IF v = "bool" THEN "bool" ELSE "utf8"
         /\ Widen("int64", v) = IF v \in {"int", "wide"} THEN "int64"
                               ELSE IF v \in {"big", "float"} THEN "float64" ELSE "utf8"
         /\ Widen("float64", v) = IF v \in Numbers THEN "float64" ELSE "utf8"
         /\ Widen("utf8", v) = "utf8"
<1>1. Widen("none", v) = TypeOf(v)
  BY DEF Widen
<1>2. Widen("bool", v) = IF v = "bool" THEN "bool" ELSE "utf8"
  BY DEF Widen
<1>3. Widen("int64", v) = IF v \in {"int", "wide"} THEN "int64"
                          ELSE IF v \in {"big", "float"} THEN "float64" ELSE "utf8"
  BY DEF Widen, Values, Numbers
<1>4. Widen("float64", v) = IF v \in Numbers THEN "float64" ELSE "utf8"
  BY DEF Widen
<1>5. Widen("utf8", v) = "utf8"
  BY DEF Widen
<1>q. QED BY <1>1, <1>2, <1>3, <1>4, <1>5

LEMMA NarrowerTable ==
  /\ Narrower("bool") = {} /\ Narrower("int64") = {"bool"}
  /\ Narrower("float64") = {"bool", "int64"}
  /\ Narrower("utf8") = {"bool", "int64", "float64"}
  BY DEF Narrower

(* Widening goes no further than the value asks for.                       *)
LEMMA WidenNarrowest ==
  ASSUME NEW t \in Types \union {"none"}, NEW v \in Values,
         NEW u \in Narrower(Widen(t, v))
  PROVE  \/ Fit(u, v) # "exact"
         \/ t # "none" /\ u \in Narrower(t)
         \/ t = "bool" /\ Fit(u, "bool") # "exact"
<1>1. CASE t = "none"
  <2>1. u \in Narrower(TypeOf(v))
    BY <1>1, WidenTable
  <2>2. CASE v = "bool"
    BY <2>1, <2>2, NarrowerTable DEF TypeOf
  <2>3. CASE v \in {"int", "wide"}
    BY <2>1, <2>3, NarrowerTable DEF TypeOf, Fit
  <2>4. CASE v = "float"
    BY <2>1, <2>4, NarrowerTable DEF TypeOf, Fit
  <2>5. CASE v \in {"big", "text"}
    BY <2>1, <2>5, NarrowerTable DEF TypeOf, Fit
  <2>q. QED BY <2>2, <2>3, <2>4, <2>5 DEF Values, Numbers
<1>2. CASE t = "bool"
  <2>1. CASE v = "bool"
    BY <1>2, <2>1, WidenTable
  <2>2. CASE v # "bool"
    <3>1. u \in {"bool", "int64", "float64"}
      BY <1>2, <2>2, WidenTable, NarrowerTable
    <3>2. Fit("bool", v) # "exact" \/ v = "null"
      BY <2>2 DEF Fit
    <3>3. Fit("int64", "bool") # "exact" /\ Fit("float64", "bool") # "exact"
      BY DEF Fit
    <3>4. v # "null"
      BY DEF Values, Numbers
    <3>q. QED BY <1>2, <3>1, <3>2, <3>3, <3>4
  <2>q. QED BY <2>1, <2>2
<1>3. CASE t = "int64"
  BY <1>3, WidenTable, NarrowerTable DEF Fit, Values, Numbers
<1>4. CASE t = "float64"
  <2>1. CASE v \in Numbers
    BY <1>4, <2>1, WidenTable
  <2>2. CASE v \in {"bool", "text"}
    <3>1. u \in {"bool", "int64", "float64"}
      BY <1>4, <2>2, WidenTable, NarrowerTable DEF Numbers
    <3>2. Fit("float64", v) = "lost"
      BY <2>2 DEF Fit
    <3>q. QED BY <1>4, <3>1, <3>2, NarrowerTable
  <2>q. QED BY <2>1, <2>2 DEF Values
<1>5. CASE t = "utf8"
  BY <1>5, WidenTable
<1>q. QED BY <1>1, <1>2, <1>3, <1>4, <1>5 DEF Types

(* bool is the type of columns of booleans only.                           *)
LEMMA WidenBool ==
  ASSUME NEW t \in Types \union {"none"}, NEW v \in Values, Widen(t, v) = "bool"
  PROVE  v = "bool"
  BY WidenTable DEF TypeOf, Types, Values, Numbers

LEMMA WidenSet ==
  ASSUME NEW t \in Types \union {"none"}, NEW v \in Values
  PROVE  Widen(t, v) \in Types
  BY WidenTable DEF TypeOf, Types
-----------------------------------------------------------------------------

LEMMA FitLost ==
  ASSUME NEW v \in Cells
  PROVE  /\ Fit("utf8", v) = "exact"
         /\ v = "null" => \A t \in Types \union {"none", "unset"} : Fit(t, v) = "exact"
  BY DEF Fit

LEMMA InitColumnInv == Init => ColumnInv
<1> SUFFICES ASSUME Init PROVE ColumnInv
  OBVIOUS
<1>1. TypeOK
  <2>1. kinds \in SUBSET Values
    BY DEF Init, ColumnKinds, RangeOf, PostgresKinds, MySqlKinds, DuckDbKinds,
           ClickHouseKinds, FloatKinds, Values, Numbers
  <2>q. QED BY <2>1 DEF Init, TypeOK, Types
<1>2. PhaseInv
  BY DEF Init, PhaseInv
<1>3. InferenceInv
  <2>1. /\ Holds(inferred, at) /\ AskedFor(inferred, at) /\ Holds(whole, Len(cells))
        /\ schema = "unset" /\ Len(cells) = 0
    BY DEF Init, Holds, AskedFor
  <2>2. OnlyType /\ NarrowestType
    BY DEF Init, OnlyType, NarrowestType
  <2>q. QED BY <2>1, <2>2 DEF InferenceInv
<1>q. QED BY <1>1, <1>2, <1>3 DEF ColumnInv

(* A batch arrives: what was found of the earlier rows stands.             *)
LEMMA ArriveInv == ColumnInv /\ WriteBatch => ColumnInv'
<1> SUFFICES ASSUME ColumnInv, WriteBatch PROVE ColumnInv'
  OBVIOUS
<1>1. PICK n \in 1 .. BatchSize :
        \E batch \in [1 .. n -> kinds \union {"null"}] : rows' = rows \o batch
  BY DEF WriteBatch
<1>2. PICK batch \in [1 .. n -> kinds \union {"null"}] : rows' = rows \o batch
  BY <1>1
<1>3. /\ n \in Nat /\ kinds \subseteq Values /\ rows \in Seq(Cells) /\ Len(rows) \in Nat
      /\ batch \in Seq(kinds \union {"null"}) /\ Len(batch) = n
      /\ at \in 0 .. Len(rows) /\ first \in 0 .. Len(rows) /\ Len(cells) = Len(rows)
      /\ phase = "wait"
  BY ColumnAssumption DEF ColumnAssumption, ColumnInv, TypeOK, PhaseInv, WriteBatch, Cells
<1>4. /\ Len(rows') = Len(rows) + n
      /\ \A i \in 1 .. Len(rows) : rows'[i] = rows[i]
      /\ \A i \in 1 .. Len(rows') : rows'[i] \in kinds \union {"null"}
  <2>1. \A i \in 1 .. Len(rows) : rows[i] \in kinds \union {"null"}
    BY DEF ColumnInv, PhaseInv
  <2>2. /\ Len(rows') = Len(rows) + n
        /\ \A i \in 1 .. Len(rows) + n :
              rows'[i] = IF i <= Len(rows) THEN rows[i] ELSE batch[i - Len(rows)]
    <3>1. rows \in Seq(Cells) /\ batch \in Seq(Cells) /\ Len(batch) = n
      BY <1>3 DEF Cells
    <3>q. QED BY <1>2, <3>1, ConcatProperties
  <2>3. \A i \in 1 .. n : batch[i] \in kinds \union {"null"}
    OBVIOUS
  <2>q. QED BY <1>3, <2>1, <2>2, <2>3
<1>5. TypeOK'
  <2>1. rows' \in Seq(Cells)
    BY <1>2, <1>3 DEF Cells
  <2>q. QED BY <1>3, <1>4, <2>1 DEF ColumnInv, TypeOK, WriteBatch, Cells
<1>6. PhaseInv'
  BY <1>3, <1>4 DEF ColumnInv, PhaseInv, WriteBatch
<1>7. InferenceInv'
  <2>0. UNCHANGED <<inferred, at, schema, first>>
    BY DEF WriteBatch
  <2>1. Holds(inferred, at)'
    BY <1>3, <1>4, <2>0 DEF ColumnInv, InferenceInv, Holds
  <2>6. AskedFor(inferred, at)'
    <3>1. AskedFor(inferred, at)
      BY DEF ColumnInv, InferenceInv
    <3>2. \A i \in 1 .. at : i \in 1 .. Len(rows)
      BY <1>3
    <3>3. ASSUME inferred # "none", NEW u \in Narrower(inferred)
          PROVE  \E i \in 1 .. at : Fit(u, rows'[i]) # "exact"
      <4>1. PICK i \in 1 .. at : Fit(u, rows[i]) # "exact"
        BY <3>1, <3>3 DEF AskedFor
      <4>q. QED BY <1>4, <3>2, <4>1
    <3>4. inferred = "bool" => \E i \in 1 .. at : rows'[i] = "bool"
      BY <1>4, <3>1, <3>2 DEF AskedFor
    <3>5. inferred = "none" => \A i \in 1 .. at : rows'[i] = "null"
      BY <1>4, <3>1, <3>2 DEF AskedFor
    <3>q. QED BY <2>0, <3>3, <3>4, <3>5 DEF AskedFor
  <2>2. (schema # "unset" => Holds(schema, first))' /\ Holds(whole, Len(cells))'
    BY <1>3, <1>4 DEF ColumnInv, InferenceInv, Holds, WriteBatch
  <2>3. (\A i \in 1 .. Len(cells) : cells[i] = Fit(schema, rows[i]))'
    BY <1>3, <1>4 DEF ColumnInv, InferenceInv, WriteBatch
  <2>4. NarrowestType'
    <3>1. NarrowestType /\ \A i \in 1 .. first : i \in 1 .. Len(rows)
      BY <1>3 DEF ColumnInv, InferenceInv
    <3>2. CASE schema = "unset"
      BY <2>0, <3>2 DEF NarrowestType
    <3>3. CASE \A i \in 1 .. first : rows[i] = "null"
      BY <1>4, <2>0, <3>1, <3>3 DEF NarrowestType
    <3>4. CASE \A t \in Narrower(schema) : \E i \in 1 .. first : Fit(t, rows[i]) # "exact"
      <4>1. \A t \in Narrower(schema) : \E i \in 1 .. first : Fit(t, rows'[i]) # "exact"
        BY <1>4, <3>1, <3>4
      <4>q. QED BY <2>0, <4>1 DEF NarrowestType
    <3>q. QED BY <3>1, <3>2, <3>3, <3>4 DEF NarrowestType
  <2>5. OnlyType'
    BY DEF ColumnInv, InferenceInv, OnlyType, WriteBatch
  <2>q. QED BY <2>1, <2>2, <2>3, <2>4, <2>5, <2>6 DEF InferenceInv
<1>q. QED BY <1>5, <1>6, <1>7 DEF ColumnInv

(* One more row: its value is held, and the type asked for.                *)
LEMMA InferInv == ColumnInv /\ InferRow => ColumnInv'
<1> SUFFICES ASSUME ColumnInv, InferRow PROVE ColumnInv'
  OBVIOUS
<1> DEFINE v == rows[at + 1]
<1>1. /\ rows \in Seq(Cells) /\ Len(rows) \in Nat /\ at \in Nat /\ at + 1 <= Len(rows)
      /\ v \in Cells /\ v \in kinds \union {"null"} /\ kinds \subseteq Values
      /\ inferred \in Types \union {"none"} /\ schema = "unset"
      /\ cells = << >> /\ Len(cells) = 0 /\ first = 0 /\ phase = "infer"
  BY DEF ColumnInv, TypeOK, PhaseInv, InferRow, Cells
<1>2. inferred' = WidenNull(inferred, v) /\ at' = at + 1
  BY DEF InferRow
<1>3. inferred' \in Types \union {"none"}
  BY <1>1, <1>2, WidenType
<1>4. TypeOK'
  BY <1>1, <1>2, <1>3 DEF ColumnInv, TypeOK, InferRow
<1>5. PhaseInv'
  BY <1>1 DEF ColumnInv, PhaseInv, InferRow
<1>6. Holds(inferred, at)'
  <2>1. /\ Fit(inferred', v) # "lost"
        /\ \A w \in Cells : Fit(inferred, w) # "lost" => Fit(inferred', w) # "lost"
    BY <1>1, <1>2, WidenHolds
  <2>2. ASSUME NEW i \in 1 .. at + 1 PROVE Fit(inferred', rows[i]) # "lost"
    <3>1. CASE i = at + 1
      BY <2>1, <3>1
    <3>2. CASE i \in 1 .. at
      BY <1>1, <2>1, <3>2 DEF ColumnInv, InferenceInv, Holds
    <3>q. QED BY <1>1, <3>1, <3>2
  <2>q. QED BY <1>2, <2>2 DEF Holds, InferRow
<1>7. AskedFor(inferred, at)'
  <2>0. AskedFor(inferred, at)
    BY DEF ColumnInv, InferenceInv
  <2>1. CASE v = "null"
    <3>1. inferred' = inferred
      BY <1>2, <2>1 DEF WidenNull
    <3>q. QED BY <1>1, <1>2, <2>0, <2>1, <3>1 DEF AskedFor, InferRow
  <2>2. CASE v \in Values
    <3>1. inferred' = Widen(inferred, v) /\ inferred' \in Types /\ inferred' # "none"
      BY <1>1, <1>2, <2>2, WidenSet DEF WidenNull, Values, Numbers, Types
    <3>2. ASSUME NEW u \in Narrower(inferred')
          PROVE  \E i \in 1 .. at + 1 : Fit(u, rows[i]) # "exact"
      <4>1. CASE Fit(u, v) # "exact"
        BY <1>1, <4>1
      <4>2. CASE inferred # "none" /\ u \in Narrower(inferred)
        BY <1>1, <2>0, <4>2 DEF AskedFor
      <4>3. CASE inferred = "bool" /\ Fit(u, "bool") # "exact"
        <5>1. PICK i \in 1 .. at : rows[i] = "bool"
          BY <2>0, <4>3 DEF AskedFor
        <5>q. QED BY <1>1, <4>3, <5>1
      <4>q. QED BY <1>1, <2>2, <3>1, <4>1, <4>2, <4>3, WidenNarrowest
    <3>3. inferred' = "bool" => \E i \in 1 .. at + 1 : rows[i] = "bool"
      <4>1. inferred' = "bool" => v = "bool"
        BY <1>1, <2>2, <3>1, WidenBool
      <4>q. QED BY <1>1, <4>1
    <3>q. QED BY <1>2, <3>1, <3>2, <3>3 DEF AskedFor, InferRow
  <2>q. QED BY <1>1, <2>1, <2>2 DEF Cells
<1>8. OnlyType'
  <2>1. CASE v = "null"
    BY <1>2, <2>1 DEF ColumnInv, InferenceInv, OnlyType, WidenNull, InferRow
  <2>2. CASE v \in Values
    <3>1. inferred' = Widen(inferred, v)
      BY <1>2, <2>2 DEF WidenNull, Values, Numbers
    <3>2. v \in kinds
      BY <1>1, <2>2 DEF Values, Numbers
    <3>q. QED BY <1>1, <2>2, <3>1, <3>2, WidenTable
            DEF ColumnInv, InferenceInv, OnlyType, InferRow, TypeOf
  <2>q. QED BY <1>1, <2>1, <2>2 DEF Cells
<1>9. InferenceInv'
  <2>1. (schema # "unset" => Holds(schema, first))' /\ NarrowestType'
    BY <1>1 DEF NarrowestType, InferRow
  <2>2. Holds(whole, Len(cells))' /\ (\A i \in 1 .. Len(cells) : cells[i] = Fit(schema, rows[i]))'
    BY DEF ColumnInv, InferenceInv, Holds, InferRow
  <2>q. QED BY <1>6, <1>7, <1>8, <2>1, <2>2 DEF InferenceInv
<1>q. QED BY <1>4, <1>5, <1>9 DEF ColumnInv

(* The type is fixed: of text if there was nothing but nulls.              *)
LEMMA FixInv == ColumnInv /\ FixSchema => ColumnInv'
<1> SUFFICES ASSUME ColumnInv, FixSchema PROVE ColumnInv'
  OBVIOUS
<1>1. /\ rows \in Seq(Cells) /\ Len(rows) \in Nat /\ at \in 0 .. Len(rows)
      /\ inferred \in Types \union {"none"} /\ schema = "unset" /\ kinds \subseteq Values
      /\ cells = << >> /\ Len(cells) = 0 /\ whole = "none"
      /\ at = Len(rows) \/ inferred = "utf8"
  BY DEF ColumnInv, TypeOK, PhaseInv, FixSchema, Cells
<1>2. /\ schema' = IF inferred = "none" THEN "utf8" ELSE inferred
      /\ first' = Len(rows) /\ phase' = "build"
      /\ UNCHANGED <<kinds, rows, at, inferred, cells, whole>>
  BY DEF FixSchema, TypeOfNulls
<1>3. schema' \in Types
  BY <1>1, <1>2 DEF Types
<1>4. TypeOK'
  BY <1>1, <1>2, <1>3 DEF ColumnInv, TypeOK
<1>5. PhaseInv'
  BY <1>1, <1>2, <1>3 DEF ColumnInv, PhaseInv, Types
<1>6. \A i \in 1 .. Len(rows) : rows[i] \in Cells
  BY <1>1
<1>7. Holds(schema, first)'
  <2>1. CASE schema' = "utf8"
    BY <1>2, <1>6, <2>1, FitLost DEF Holds
  <2>2. CASE inferred # "utf8" /\ inferred # "none"
    BY <1>1, <1>2, <2>2 DEF ColumnInv, InferenceInv, Holds
  <2>q. QED BY <1>2, <2>1, <2>2
<1>8. NarrowestType'
  <2>1. AskedFor(inferred, at)
    BY DEF ColumnInv, InferenceInv
  <2>2. CASE inferred = "none"
    BY <1>1, <1>2, <2>1, <2>2 DEF AskedFor, NarrowestType
  <2>3. CASE inferred # "none"
    <3>1. ASSUME NEW t \in Narrower(inferred)
          PROVE  \E i \in 1 .. Len(rows) : Fit(t, rows[i]) # "exact"
      <4>1. PICK i \in 1 .. at : Fit(t, rows[i]) # "exact"
        BY <2>1, <2>3, <3>1 DEF AskedFor
      <4>q. QED BY <1>1, <4>1
    <3>q. QED BY <1>2, <2>3, <3>1 DEF NarrowestType
  <2>q. QED BY <2>2, <2>3
<1>9. InferenceInv'
  <2>1. Holds(inferred, at)' /\ AskedFor(inferred, at)' /\ Holds(whole, Len(cells))'
    BY <1>2 DEF ColumnInv, InferenceInv, Holds, AskedFor
  <2>2. (\A i \in 1 .. Len(cells) : cells[i] = Fit(schema, rows[i]))'
    BY <1>1, <1>2
  <2>3. OnlyType'
    BY <1>2 DEF ColumnInv, InferenceInv, OnlyType
  <2>q. QED BY <1>7, <1>8, <2>1, <2>2, <2>3 DEF InferenceInv
<1>q. QED BY <1>4, <1>5, <1>9 DEF ColumnInv

LEMMA BuildInv == ColumnInv /\ BuildRow => ColumnInv'
<1> SUFFICES ASSUME ColumnInv, BuildRow PROVE ColumnInv'
  OBVIOUS
<1> DEFINE k == Len(cells) + 1
           v == rows[k]
<1>1. /\ rows \in Seq(Cells) /\ Len(rows) \in Nat /\ Len(cells) \in Nat
      /\ cells \in Seq({"exact", "rounded", "lost"})
      /\ k \in 1 .. Len(rows) /\ v \in Cells
      /\ whole \in Types \union {"none"} /\ schema \in Types
      /\ schema # "unset" /\ phase = "build"
  BY DEF ColumnInv, TypeOK, PhaseInv, BuildRow, Cells, Types
<1>2. /\ cells' = Append(cells, Fit(schema, v)) /\ whole' = WidenNull(whole, v)
      /\ UNCHANGED <<kinds, rows, phase, at, inferred, schema, first>>
  BY DEF BuildRow
<1>3. Fit(schema, v) \in {"exact", "rounded", "lost"}
  BY DEF Fit
<1>4. /\ cells' \in Seq({"exact", "rounded", "lost"}) /\ Len(cells') = k
      /\ \A i \in 1 .. Len(cells) : cells'[i] = cells[i]
      /\ cells'[k] = Fit(schema, v)
  BY <1>1, <1>2, <1>3
<1>5. whole' \in Types \union {"none"}
  BY <1>1, <1>2, WidenType
<1>6. TypeOK'
  BY <1>1, <1>2, <1>4, <1>5 DEF ColumnInv, TypeOK
<1>7. PhaseInv'
  BY <1>1, <1>2 DEF ColumnInv, PhaseInv
<1>8. Holds(whole, Len(cells))'
  <2>1. /\ Fit(whole', v) # "lost"
        /\ \A w \in Cells : Fit(whole, w) # "lost" => Fit(whole', w) # "lost"
    BY <1>1, <1>2, WidenHolds
  <2>2. \A i \in 1 .. Len(cells) : rows[i] \in Cells /\ Fit(whole, rows[i]) # "lost"
    BY <1>1 DEF ColumnInv, InferenceInv, Holds
  <2>3. ASSUME NEW i \in 1 .. k PROVE Fit(whole', rows[i]) # "lost"
    BY <1>1, <2>1, <2>2, <2>3
  <2>q. QED BY <1>2, <1>4, <2>3 DEF Holds
<1>9. (\A i \in 1 .. Len(cells) : cells[i] = Fit(schema, rows[i]))'
  <2>1. \A i \in 1 .. Len(cells) : cells[i] = Fit(schema, rows[i])
    BY DEF ColumnInv, InferenceInv
  <2>2. ASSUME NEW i \in 1 .. k PROVE cells'[i] = Fit(schema, rows[i])
    BY <1>1, <1>4, <2>1, <2>2
  <2>q. QED BY <1>2, <1>4, <2>2
<1>10. InferenceInv'
  <2>1. Holds(inferred, at)' /\ AskedFor(inferred, at)' /\ Holds(schema, first)'
    BY <1>1, <1>2 DEF ColumnInv, InferenceInv, Holds, AskedFor
  <2>2. NarrowestType' /\ OnlyType'
    BY <1>2 DEF ColumnInv, InferenceInv, NarrowestType, OnlyType
  <2>q. QED BY <1>8, <1>9, <2>1, <2>2 DEF InferenceInv
<1>q. QED BY <1>6, <1>7, <1>10 DEF ColumnInv

LEMMA BuiltInv == ColumnInv /\ BatchBuilt => ColumnInv'
<1> SUFFICES ASSUME ColumnInv, BatchBuilt PROVE ColumnInv'
  OBVIOUS
<1>1. TypeOK' /\ PhaseInv'
  BY DEF ColumnInv, TypeOK, PhaseInv, BatchBuilt
<1>2. InferenceInv'
  BY DEF ColumnInv, InferenceInv, Holds, AskedFor, NarrowestType, OnlyType, BatchBuilt
<1>q. QED BY <1>1, <1>2 DEF ColumnInv

LEMMA StutterInv == ColumnInv /\ UNCHANGED vars => ColumnInv'
  BY DEF ColumnInv, TypeOK, PhaseInv, InferenceInv, Holds, AskedFor, NarrowestType, OnlyType,
         vars

THEOREM ColumnInvariant == Spec => []ColumnInv
<1>1. ColumnInv /\ [Next]_vars => ColumnInv'
  BY ArriveInv, InferInv, FixInv, BuildInv, BuiltInv, StutterInv DEF Next, Finished
<1>q. QED BY InitColumnInv, <1>1, PTL DEF Spec

-----------------------------------------------------------------------------

(* Every variable keeps its type, the type in the file is one of four.     *)
THEOREM ColumnTypeOK == Spec => []TypeOK
<1>1. ColumnInv => TypeOK
  BY DEF ColumnInv
<1>q. QED BY <1>1, ColumnInvariant, PTL

(* No value of the first batch becomes null, for any batch.                *)
THEOREM FirstBatchKept == Spec => []FirstBatchWhole
<1>1. ColumnInv => FirstBatchWhole
  <2> SUFFICES ASSUME ColumnInv, NEW i \in 1 .. Len(cells), i <= first
               PROVE  cells[i] # "lost"
    BY DEF FirstBatchWhole
  <2>1. Len(cells) \in Nat /\ first \in Nat /\ cells # << >>
    BY DEF ColumnInv, TypeOK
  <2>2. schema # "unset" /\ i \in 1 .. first
    BY <2>1 DEF ColumnInv, PhaseInv
  <2>q. QED BY <2>2 DEF ColumnInv, InferenceInv, Holds
<1>q. QED BY <1>1, ColumnInvariant, PTL

(* The type is no wider than the first batch asks for.                     *)
THEOREM TypeIsNarrowest == Spec => []NarrowestType
<1>1. ColumnInv => NarrowestType
  BY DEF ColumnInv, InferenceInv
<1>q. QED BY <1>1, ColumnInvariant, PTL

(* A value becomes null only where all rows together ask for another type. *)
THEOREM LossNeedsWiderType == Spec => []LostOnlyIfWider
<1>1. ColumnInv => LostOnlyIfWider
  <2> SUFFICES ASSUME ColumnInv, NEW i \in 1 .. Len(cells), cells[i] = "lost"
               PROVE  whole # schema
    BY DEF LostOnlyIfWider
  <2>1. Fit(schema, rows[i]) = "lost" /\ Fit(whole, rows[i]) # "lost"
    BY DEF ColumnInv, InferenceInv, Holds
  <2>q. QED BY <2>1
<1>q. QED BY <1>1, ColumnInvariant, PTL

(* The values of these columns are of one kind, or integers of any size.   *)
LEMMA StableKinds ==
  ASSUME kinds \in StableColumns
  PROVE  kinds \in {{"bool"}, {"int"}, {"int", "wide"}, {"text"}}
BY DEF StableColumns, PostgresKinds, MySqlKinds, DuckDbKinds, ClickHouseKinds

(* The columns of StableColumns are exact, whatever their first batch.     *)
THEOREM StableColumnsExact == Spec => []StableIsExact
<1>1. ColumnInv => StableIsExact
  <2> SUFFICES ASSUME ColumnInv, kinds \in StableColumns,
                      NEW i \in 1 .. Len(cells)
               PROVE  cells[i] = "exact"
    BY DEF StableIsExact
  <2>0. kinds \in {{"bool"}, {"int"}, {"int", "wide"}, {"text"}}
    BY StableKinds
  <2>1. /\ cells[i] = Fit(schema, rows[i]) /\ rows[i] \in kinds \union {"null"}
        /\ rows[i] \in Cells /\ schema # "unset"
    <3>1. Len(cells) \in Nat /\ Len(rows) \in Nat /\ Len(cells) <= Len(rows)
          /\ i \in 1 .. Len(rows) /\ kinds \subseteq Values /\ cells # << >>
      BY DEF ColumnInv, TypeOK
    <3>2. rows[i] \in kinds \union {"null"} /\ schema # "unset"
      BY <3>1 DEF ColumnInv, PhaseInv
    <3>q. QED BY <3>1, <3>2 DEF ColumnInv, InferenceInv, Cells
  <2>2. CASE schema = "utf8" \/ rows[i] = "null"
    BY <2>1, <2>2, FitLost DEF Fit
  <2>3. CASE schema = "bool" /\ rows[i] = "bool"
    BY <2>1, <2>3 DEF Fit
  <2>4. CASE schema = "int64" /\ rows[i] \in {"int", "wide"}
    BY <2>1, <2>4 DEF Fit
  <2>q. QED BY <2>0, <2>1, <2>2, <2>3, <2>4 DEF ColumnInv, InferenceInv, OnlyType
<1>q. QED BY <1>1, ColumnInvariant, PTL
=============================================================================
