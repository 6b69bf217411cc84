-------------------------------- MODULE Rows --------------------------------
(***************************************************************************)
(* tds/codec/token/token_col_metadata.rs, token_row.rs with its directory,  *)
(* and tds/codec/type_info_tvp.rs: the columns of a result set, its rows,   *)
(* and the table-valued parameter, which is written like both.              *)
(*                                                                         *)
(* A column is [flags, ti, name, table].                                    *)
(***************************************************************************)
EXTENDS Variants

CONSTANT BitsPerByte
ASSUME BitsAssumption == 2 ^ BitsPerByte = ByteBase

ColMetaDataToken == 129
RowToken == 209
NbcRowToken == 210

Indices(s) == [i \in 1..Len(s) |-> i]

\* ColumnFlag: the bits that have a name.
FlagBits == {0, 1, 2, 3, 4, 5, 8, 10, 11, 13, 14, 15}
HasFlag(flags, bit) == (flags \div 2 ^ bit) % 2 = 1
from_bits_truncate(flags) ==
    FoldSet(LAMBDA bit, sum : sum + (IF HasFlag(flags, bit) THEN 2 ^ bit ELSE 0),
            0, FlagBits)

is_nullable(col) == HasFlag(col.flags, 0)
is_identity(col) == HasFlag(col.flags, 4)
\* Updateable, or not known to be otherwise.
is_updateable(col) == HasFlag(col.flags, 2) \/ HasFlag(col.flags, 3)

Pointers == {"Text", "NText", "Image"}

-----------------------------------------------------------------------------
(* Metadata                                                                 *)

\* BaseMetaDataColumn::encode: flags, type, and a table name for the types
\* that are stored behind a pointer.
BaseEncode(col) ==
    Then(Then(Ok(U(2, col.flags)), TypeInfoEncode(col.ti)),
         IF col.ti.c = "sized" /\ col.ti.ty \in Pointers
         THEN encode_us_varchar(col.table) ELSE Ok(<<>>))

ColumnEncode(col) ==
    Then(Then(Ok(U(4, 0)), BaseEncode(col)), encode_b_varchar(col.name))

MetaDataEncode(cols) ==
    FoldLeft(LAMBDA out, col : Then(out, ColumnEncode(col)),
             Ok(U(1, ColMetaDataToken) \o U(2, Len(cols))), cols)

\* BaseMetaDataColumn::decode.  The server sends the table name in parts.
BaseDecode(r) ==
    LET column(flags, ti) == [flags |-> from_bits_truncate(flags), ti |-> ti,
                              name |-> <<0, 0>>, table |-> <<0, 0>>]
    IN On(Take(Take(r, 4), 2), LAMBDA flags : On(TypeInfoDecode(flags), LAMBDA t :
           On(IF t.v.c = "sized" /\ t.v.ty \in Pointers
              THEN On(Take(t, 1), LAMBDA parts : Repeat(read_us_varchar, parts, parts.v))
              ELSE t, LAMBDA at :
              Yield(at, column(flags.v, t.v)))))

\* TokenColMetaData::decode, behind the token: no columns at all is 0xffff.
MetaDataDecode(r) ==
    LET column(s) == On(BaseDecode(s), LAMBDA base : On(read_b_varchar(base), LAMBDA t :
                         Yield(t, [base.v EXCEPT !.name = t.v])))
    IN On(Take(r, 2), LAMBDA count :
           Repeat(column, count, IF count.v = U16Max THEN 0 ELSE count.v))

\* Display for MetaDataColumn: the type in the column list of INSERT BULK.
\* The length of an NVARCHAR is compared as it is, in bytes.
ColumnSql(ti) ==
    LET len == ti.len
        limited(name, limit) == IF len <= limit THEN <<name, len>> ELSE <<name, "max">>
        by_len(table, other) == IF len \in DOMAIN table THEN <<table[len]>> ELSE <<other>>
    IN CASE ti.c = "fixed" ->
              <<[Int1 |-> "tinyint", Bit |-> "bit", Int2 |-> "smallint", Int4 |-> "int",
                 Datetime4 |-> "smalldatetime", Float4 |-> "real", Money |-> "money",
                 Datetime |-> "datetime", Float8 |-> "float", Money4 |-> "smallmoney",
                 Int8 |-> "bigint", Null |-> "int"][ti.ty]>>
         [] ti.c = "precision" ->
              <<IF ti.ty = "Numericn" THEN "numeric" ELSE "decimal", ti.prec, ti.scale>>
         [] ti.c = "xml" -> <<"xml">>
         [] ti.c = "udt" -> <<ti.names[2], ti.names[3]>>
         [] ti.c = "sized" ->
              CASE ti.ty = "Intn" ->
                     by_len([i \in {1, 2, 4} |-> IF i = 1 THEN "tinyint"
                                 ELSE IF i = 2 THEN "smallint" ELSE "int"], "bigint")
                [] ti.ty = "Floatn" -> by_len([i \in {4} |-> "real"], "float")
                [] ti.ty = "Money" -> by_len([i \in {4} |-> "smallmoney"], "money")
                [] ti.ty = "BigVarBin" -> limited("varbinary", 2 * RpcChars)
                [] ti.ty = "BigVarChar" -> limited("varchar", 2 * RpcChars)
                [] ti.ty = "NVarchar" -> limited("nvarchar", RpcChars)
                [] ti.ty = "BigBinary" -> <<"binary", len>>
                [] ti.ty = "BigChar" -> <<"char", len>>
                [] ti.ty = "NChar" -> <<"nchar", len>>
                [] ti.ty = "Datetime2" -> <<"datetime2", len>>
                [] OTHER -> <<[Bitn |-> "bit", Guid |-> "uniqueidentifier",
                               Daten |-> "date", Timen |-> "time",
                               Datetimen |-> "datetime",
                               DatetimeOffsetn |-> "datetimeoffset",
                               Text |-> "text", Image |-> "image", NText |-> "ntext",
                               SSVariant |-> "sql_variant"][ti.ty]>>

\* null_value: the NULL of a column the bitmap leaves out.
null_value(ti) ==
    LET scalar == {k \in DOMAIN Scalar :
                      \/ ti.c = "fixed" /\ Scalar[k][2] = ti.ty
                      \/ ti.c = "sized" /\ Scalar[k][1] = ti.ty /\ Scalar[k][3] = ti.len}
        k == CASE scalar # {} -> CHOOSE x \in scalar : TRUE
               [] scalar = {} /\ ti.c = "fixed" ->
                    [Null |-> "I32", Datetime4 |-> "SmallDateTime", Money |-> "F64",
                     Datetime |-> "DateTime", Money4 |-> "F32"][ti.ty]
               [] scalar = {} /\ ti.c = "precision" -> "Numeric"
               [] ti.c = "xml" -> "Xml"
               [] ti.c = "udt" -> "Binary"
               [] scalar = {} /\ ti.c = "sized" ->
                    [Guid |-> "Guid", Intn |-> "I64", Bitn |-> "Bit", Floatn |-> "F64",
                     Money |-> "F64", Datetimen |-> "DateTime", Daten |-> "Date",
                     Timen |-> "Time", Datetime2 |-> "DateTime2",
                     DatetimeOffsetn |-> "DateTimeOffset", BigVarBin |-> "Binary",
                     BigVarChar |-> "String", BigBinary |-> "Binary",
                     BigChar |-> "String", NVarchar |-> "String", NChar |-> "String",
                     Text |-> "String", Image |-> "Binary", NText |-> "String",
                     SSVariant |-> "String"][ti.ty]
    IN [k |-> k, v |-> <<>>]

-----------------------------------------------------------------------------
(* Rows                                                                     *)

ValuesEncode(values, tis) ==
    FoldLeft(LAMBDA out, i : Then(out, ColumnDataEncode(values[i], tis[i])),
             Ok(<<>>), Indices(values))

\* TokenRow::encode: the row must have as many values as there are columns.
RowEncode(values, tis) ==
    IF Len(values) # Len(tis) THEN Err("wrong number of columns")
    ELSE Then(Ok(U(1, RowToken)), ValuesEncode(values, tis))

\* TokenRow::decode, behind the token.
RowDecode(r, tis) ==
    FoldLeft(LAMBDA s, ti : On(s, LAMBDA q :
                 On(ColumnDataDecode(q, ti), LAMBDA d : Yield(d, Append(q.v, d.v)))),
             Yield(r, <<>>), tis)

\* RowBitmap: one bit per column, whole bytes.
BitmapBytes(columns) == (columns + BitsPerByte - 1) \div BitsPerByte

is_null(bitmap, i) ==
    HasFlag(bitmap[(i - 1) \div BitsPerByte + 1], (i - 1) % BitsPerByte)

BitmapDecode(r, columns) ==
    Repeat(LAMBDA s : Take(s, 1), r, BitmapBytes(columns))

\* TokenRow::decode_nbc: the columns the bitmap names are not on the wire.
NbcRowDecode(r, tis) ==
    On(BitmapDecode(r, Len(tis)), LAMBDA bitmap :
        FoldLeft(LAMBDA s, i : On(s, LAMBDA q :
                     IF is_null(bitmap.v, i) THEN Yield(q, Append(q.v, null_value(tis[i])))
                     ELSE On(ColumnDataDecode(q, tis[i]), LAMBDA d :
                              Yield(d, Append(q.v, d.v)))),
                 Yield(bitmap, <<>>), Indices(tis)))

\* What the server writes for a row with a bitmap.
NbcRowEncode(values, tis) ==
    LET null(i) == values[i].v = <<>>
        byte(b) == FoldSet(LAMBDA i, sum : sum + 2 ^ ((i - 1) % BitsPerByte), 0,
                           {i \in 1..Len(tis) : null(i) /\ (i - 1) \div BitsPerByte = b})
        bitmap == [b \in 1..((Len(tis) + BitsPerByte - 1) \div BitsPerByte) |->
                       <<1, byte(b - 1)>>]
        kept == SelectSeq(Indices(tis), LAMBDA i : ~null(i))
    IN Then(Ok(U(1, NbcRowToken) \o bitmap),
            ValuesEncode([j \in 1..Len(kept) |-> values[kept[j]]],
                         [j \in 1..Len(kept) |-> tis[kept[j]]]))

-----------------------------------------------------------------------------
(* type_info_tvp.rs                                                         *)

\* fixed_to_var_len: a fixed type cannot carry NULL, its nullable one can.
fixed_to_var_len(ti) ==
    LET scalar == {k \in DOMAIN Scalar : Scalar[k][2] = ti.ty}
        of(k) == Sized(Scalar[k][1], Scalar[k][3])
    IN IF ti.c # "fixed" \/ ti.ty = "Null" THEN ti
       ELSE IF scalar # {} THEN of(CHOOSE k \in scalar : TRUE)
       ELSE [Datetime4 |-> Sized("Datetimen", 4), Datetime |-> Sized("Datetimen", 8),
             Money |-> Sized("Money", 8), Money4 |-> Sized("Money", 4)][ti.ty]

\* fixed_to_var_len over the columns' types.
TvpTypes(cols) == [i \in 1..Len(cols) |-> fixed_to_var_len(cols[i].ti)]

\* TypeInfoTvp::encode.  `cols` is <<>> without metadata; the rows are then
\* written with their own types.
TvpEncode(schema, name, cols, rows) ==
    LET column(i) ==
            Then(Then(Ok(U(4, 0)), BaseEncode([cols[i] EXCEPT !.ti = TvpTypes(cols)[i]])),
                 encode_b_varchar(<<0, 0>>))
        row(values) ==
            Then(Ok(U(1, 1)),
                 ValuesEncode(values, IF cols # <<>> THEN TvpTypes(cols)
                                      ELSE [i \in 1..Len(values) |-> NoType]))
        names == Then(Then(Ok(U(1, 243) \o U(1, 0)), encode_b_varchar(schema)),
                      encode_b_varchar(name))
        count == U(2, IF cols = <<>> THEN U16Max ELSE Len(cols))
    IN Then(FoldLeft(LAMBDA bytes, values : Then(bytes, row(values)),
                     Then(FoldLeft(LAMBDA bytes, i : Then(bytes, column(i)),
                                   Then(names, Ok(count)), Indices(cols)),
                          Ok(U(1, 0))), rows),
            Ok(U(1, 0)))

=============================================================================
