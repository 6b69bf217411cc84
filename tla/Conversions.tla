---------------------------- MODULE Conversions ----------------------------
(***************************************************************************)
(* to_sql.rs, from_sql.rs, macros.rs, tds/time/{chrono,time}.rs, row.rs and *)
(* tds/codec/token/token_row/into_row.rs: Rust values to column values and  *)
(* back, and the Row an application reads them from.                        *)
(*                                                                         *)
(* An Option is <<>> or the sequence of the value's fields: a date <<day>>, *)
(* a time <<nanos>>, a date and time <<day, nanos>>, one with an offset     *)
(* <<day, nanos, minutes>>.  The types of the chrono and the time crate     *)
(* that mean the same go by one name.                                       *)
(***************************************************************************)
EXTENDS Rows

\* to_sql!, into_sql!: the variant of each type, with or without a value.
Variant ==
    [bool |-> "Bit", u8 |-> "U8", i16 |-> "I16", i32 |-> "I32", i64 |-> "I64",
     f32 |-> "F32", f64 |-> "F64", String |-> "String", Vec |-> "Binary",
     Numeric |-> "Numeric", XmlData |-> "Xml", Uuid |-> "Guid"]
MomentVariant ==
    [NaiveDate |-> "Date", NaiveTime |-> "Time", NaiveDateTime |-> "DateTime2",
     Utc |-> "DateTime2", FixedOffset |-> "DateTimeOffset"]

into_sql(R, v) ==
    IF R \in DOMAIN Variant THEN [k |-> Variant[R], v |-> v]
    ELSE LET time(nanos) == SubSeq(from_moment(<<0, nanos>>, <<>>), 1, 2)
         IN [k |-> MomentVariant[R],
             v |-> CASE v = <<>> \/ R = "NaiveDate" -> v
                     [] R = "NaiveTime" -> time(v[1])
                     [] R \in {"NaiveDateTime", "Utc"} -> from_moment(v, <<>>)
                     [] R = "FixedOffset" -> from_moment(v, <<v[3]>>)]

\* from_sql!: the variants whose value is taken as it is, and those of which
\* only NULL is: a column without a type of its own is an int.
Taken ==
    [bool |-> {"Bit"}, u8 |-> {"U8"}, i16 |-> {"I16"}, i32 |-> {"I32", "I16"},
     i64 |-> {"I64"}, f32 |-> {"F32"}, f64 |-> {"F64"}, String |-> {"String"},
     Vec |-> {"Binary"}, Numeric |-> {"Numeric"}, XmlData |-> {"Xml"}, Uuid |-> {"Guid"},
     NaiveDate |-> {"Date"}, NaiveTime |-> {"Time"},
     NaiveDateTime |-> {"SmallDateTime", "DateTime", "DateTime2"},
     Utc |-> {"DateTimeOffset", "DateTime2"}, FixedOffset |-> {"DateTimeOffset"}]
TakenNull == [u8 |-> {"I32"}, i16 |-> {"U8", "I32"}, i32 |-> {"U8"}, i64 |-> {"U8", "I32"}]

ValueOf(R, d) ==
    CASE R \in DOMAIN Variant -> Ok(d.v)
      [] R = "NaiveDate" -> LET day == from_days(d.v[1], 0)
                            IN IF IsErr(day) THEN day ELSE Ok(<<day.ok>>)
      [] R = "NaiveTime" -> Ok(<<OfDay(nanos_from_increments(d.v[1], d.v[2]))>>)
      [] R = "Utc" /\ d.k = "DateTimeOffset" -> to_utc_moment(d.v)
      [] R = "FixedOffset" -> LET m == to_moment(d.k, d.v)
                              IN IF IsErr(m) THEN m ELSE Ok(Append(m.ok, d.v[4]))
      [] OTHER -> to_moment(d.k, d.v)

\* A slip: NULL is taken only from the type's own variant.
from_sql_strict(R, d) ==
    IF d.k \notin Taken[R] THEN Err("conversion")
    ELSE IF d.v = <<>> THEN Ok(<<>>) ELSE ValueOf(R, d)

from_sql(R, d) ==
    IF d.k \in Taken[R] THEN IF d.v = <<>> THEN Ok(<<>>) ELSE ValueOf(R, d)
    ELSE IF d.v = <<>> /\ R \in DOMAIN TakenNull /\ d.k \in TakenNull[R] THEN Ok(<<>>)
    ELSE Err("conversion")

\* IntoRow: a tuple of values, or one value, is a row.
into_row(types, values) == [i \in 1..Len(types) |-> into_sql(types[i], values[i])]

-----------------------------------------------------------------------------
(* row.rs                                                                   *)

\* From<&TypeInfo> for ColumnType: the width decides between the integers
\* and between the floats.
ColumnType(ti) ==
    LET wide == [Intn |-> [i \in {1, 2, 4, 8} |-> <<"Int", i>>],
                 Floatn |-> [i \in {4, 8} |-> <<"Float", i>>]]
    IN IF ti.c = "sized" /\ ti.ty \in DOMAIN wide
       THEN IF ti.len \in DOMAIN wide[ti.ty] THEN wide[ti.ty][ti.len] ELSE <<ti.ty>>
       ELSE <<ti.ty>>

\* Row::builder, RowBuilder::column, result_index and build; a Row of a
\* response is put together the same way.  A name is a sequence, so that the
\* prefix of a raw identifier can be taken off.
NewRow == [columns |-> <<>>, data |-> <<>>, result_index |-> 0]
WithColumn(row, name, ti, value) ==
    [row EXCEPT !.columns = Append(@, [name |-> name, type |-> ColumnType(ti)]),
                !.data = Append(@, value)]

\* QueryIdx: an index below the number of columns; the first column of that
\* name, and only if there is none, of the name without "r#".
idx_of_usize(row, i) == IF i < Len(row.columns) THEN Some(i + 1) ELSE <<>>

Position(row, name) ==
    LET at == {i \in DOMAIN row.columns : row.columns[i].name = name}
    IN IF at = {} THEN <<>> ELSE Some(Min(at))

idx_of_str(row, name) ==
    IF Position(row, name) # <<>> THEN Position(row, name)
    ELSE IF name # <<>> /\ name[1] = "r#" THEN Position(row, Tail(name)) ELSE <<>>

\* get_column_data, try_get; a row with less data than columns is an error.
get_column_data(row, idx) ==
    IF idx = <<>> THEN Err("no such column")
    ELSE IF idx[1] \notin DOMAIN row.data THEN Err("no data") ELSE Ok(row.data[idx[1]])

try_get(row, idx, R) ==
    LET data == get_column_data(row, idx)
    IN IF IsErr(data) THEN data ELSE from_sql(R, data.ok)

=============================================================================
