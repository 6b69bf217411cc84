------------------------------ MODULE Variants ------------------------------
(***************************************************************************)
(* tds/codec/column_data/sql_variant.rs, a value that carries its own type, *)
(* and the two dispatches of column_data.rs it is an arm of.                *)
(***************************************************************************)
EXTENDS Values

CONSTANT VariantMax   \* MAX_VARIANT_PAYLOAD (8000)

\* The base type, the bytes of its properties, the properties, the value.
VariantBody(d) ==
    LET v == d.v
        part(code, props, data) ==
            IF IsErr(data) THEN data
            ELSE Ok(U(1, code) \o U(1, Bytes(props)) \o props \o data.ok)
        var(ty, props, data) == part(VarCode[ty], props, data)
        scaled(ty, data) == var(ty, U(1, v[2]), data)
        long(bytes) == IF bytes[1] > VariantMax THEN Err("exceeds the limit")
                       ELSE Ok(Blob(bytes[1], bytes[2]))
    IN CASE d.k \in DOMAIN Scalar ->
              part(FixedCode[Scalar[d.k][2]], <<>>, Ok(U(Scalar[d.k][3], v[1])))
         [] d.k = "DateTime" -> part(FixedCode.Datetime, <<>>, Ok(DateTimeEncode(v)))
         [] d.k = "SmallDateTime" ->
              part(FixedCode.Datetime4, <<>>, Ok(SmallDateTimeEncode(v)))
         [] d.k = "Guid" -> var("Guid", <<>>, Ok(U(16, reorder_bytes(v)[1])))
         [] d.k = "Numeric" -> var("Numericn", U(1, precision(v)) \o U(1, v[2]),
                                   Ok(Tail(NumericEncode(v))))
         [] d.k = "String" -> var("NVarchar", U(4, 0) \o U(1, 0) \o U(2, VariantMax),
                                  long(Utf16Bytes(v)))
         [] d.k = "Binary" -> var("BigVarBin", U(2, VariantMax), long(v))
         [] d.k = "Date" -> var("Daten", <<>>, DateEncode(v[1]))
         [] d.k = "Time" -> scaled("Timen", TimeEncode(v[1], v[2]))
         [] d.k = "DateTime2" -> scaled("Datetime2", DateTime2Encode(v))
         [] d.k = "DateTimeOffset" ->
              scaled("DatetimeOffsetn", DateTimeOffsetEncode(v))
         [] d.k = "Xml" -> Err("xml is not a base type")

\* encode: the length of all of it first; 0 is NULL.
VariantEncode(d) ==
    IF d.v = <<>> THEN Ok(U(4, 0))
    ELSE LET counted(body) == IF IsErr(body) THEN body
                              ELSE Ok(U(4, Bytes(body.ok)) \o body.ok)
         IN counted(VariantBody(d))

\* decode_numeric: a sign, then 4, 8, 12 or 16 bytes.
decode_numeric(r, data_len, scale) ==
    IF data_len - 1 \notin {4, 8, 12, 16} \/ scale > MaxPrecision THEN Bad(r)
    ELSE On(SignedDecode(r, data_len - 1, scale), LAMBDA n : Give(n, "Numeric", n.v))

\* The property bytes a base type must have.
VariantProps(ty) ==
    CASE ty \in {"Guid", "Daten"} -> 0
      [] ty \in {"Timen", "Datetime2", "DatetimeOffsetn"} -> 1
      [] ty \in {"Decimaln", "Numericn", "BigBinary", "BigVarBin"} -> 2
      [] ty \in {"BigChar", "BigVarChar", "NChar", "NVarchar"} -> 7
      [] OTHER -> -1

\* Properties and value of a base type that is not fixed, the value in
\* `data_len` bytes.
VariantValue(r, ty, data_len) ==
    LET moment(k) == On(Take(r, 1), LAMBDA scale :
            On(CASE k = "Time" -> TimeDecode(scale, scale.v, data_len)
                 [] k = "DateTime2" -> DateTime2Decode(scale, scale.v, data_len - 3)
                 [] k = "DateTimeOffset" ->
                      DateTimeOffsetDecode(scale, scale.v, data_len - 5), LAMBDA t :
               Give(t, k, t.v)))
    IN CASE ty = "Guid" /\ data_len = 16 ->
              On(Take(r, 16), LAMBDA g : Give(g, "Guid", reorder_bytes(<<g.v>>)))
         [] ty = "Daten" /\ data_len = 3 -> On(Take(r, 3), LAMBDA d : GiveLast(d, "Date"))
         [] ty = "Timen" -> moment("Time")
         [] ty = "Datetime2" /\ data_len >= 3 -> moment("DateTime2")
         [] ty = "DatetimeOffsetn" /\ data_len >= 5 -> moment("DateTimeOffset")
         [] ty \in {"Decimaln", "Numericn"} ->
              On(Take(Take(r, 1), 1), LAMBDA scale : decode_numeric(scale, data_len, scale.v))
         [] ty \in {"BigBinary", "BigVarBin"} ->
              On(TakeBlob(Take(r, 2), data_len), LAMBDA b :
                  Give(b, "Binary", <<data_len, b.v>>))
         [] ty \in {"BigChar", "BigVarChar", "NChar", "NVarchar"} ->
              On(Take(r, 4), LAMBDA info : On(Take(info, 1), LAMBDA sort :
              On(TakeBlob(Take(sort, 2), data_len), LAMBDA s :
                  IF ty \in {"NChar", "NVarchar"}
                  THEN FromUtf16(s, <<data_len, s.v>>, FALSE, "String")
                  ELSE FromCodepage(s, <<data_len, s.v>>, <<info.v, sort.v>>))))
         [] OTHER -> Bad(r)

\* decode: the base type fixes how many property bytes there must be, and for
\* some types how many the value has: what the two type bytes and the
\* properties leave.
VariantDecode(r) ==
    LET body(total, base, prop) ==
            IF total < 2 + prop.v \/ total - 2 - prop.v > VariantMax THEN Bad(r)
            ELSE IF TypesOf(FixedCode, base) # {}
            THEN IF prop.v # 0 THEN Bad(r)
                 ELSE FixedDecode(prop, CHOOSE t \in TypesOf(FixedCode, base) : TRUE)
            ELSE IF TypesOf(VarCode, base) = {} THEN Bad(r)
            ELSE LET ty == CHOOSE t \in TypesOf(VarCode, base) : TRUE
                 IN IF prop.v # VariantProps(ty) THEN Bad(r)
                    ELSE VariantValue(prop, ty, total - 2 - prop.v)
    IN On(Take(r, 4), LAMBDA total :
           IF total.v = 0 THEN Give(total, "String", <<>>)
           ELSE On(Take(total, 1), LAMBDA base :
                On(Take(base, 1), LAMBDA prop : body(total.v, base.v, prop))))

-----------------------------------------------------------------------------
(* column_data.rs                                                           *)

\* encode: the arms in their order.  A NULL parameter no arm has taken is
\* sent as a NULL without a type.
ColumnDataEncode(d, ti) ==
    IF ti.c = "sized" /\ ti.ty = "SSVariant" THEN VariantEncode(d)
    ELSE IF d.k \in {"F64", "Numeric"} /\ ti.ty \in {"Money", "Money4"}
    THEN EncodeMoney(d.k, d.v, ti)
    ELSE IF d.k \in DOMAIN Scalar THEN EncodeScalar(d.k, d.v, ti)
    ELSE IF d.k = "Guid" THEN EncodeGuid(d.v, ti)
    ELSE IF ti.c = "none" /\ d.v = <<>> THEN Ok(U(1, FixedCode.Null))
    ELSE CASE d.k = "String" ->
                IF ti.c = "none" THEN Ok(StringParam(d.v)) ELSE EncodeString(d.v, ti)
           [] d.k = "Binary" ->
                IF ti.c = "none" THEN Ok(BinaryParam(d.v)) ELSE EncodeBinary(d.v, ti)
           [] d.k \in {"DateTime", "SmallDateTime"} -> EncodeDateTime(d.k, d.v, ti)
           [] d.k = "Date" -> EncodeDate(d.v, ti)
           [] d.k = "Time" -> EncodeTime(d.v, ti)
           [] d.k = "DateTime2" -> EncodeDateTime2(d.v, ti)
           [] d.k = "DateTimeOffset" -> EncodeDateTimeOffset(d.v, ti)
           [] d.k = "Xml" -> EncodeXml(d.v, ti)
           [] d.k = "Numeric" -> EncodeNumeric(d.v, ti)

\* var_len
VarLenDecode(r, ti) ==
    CASE ti.ty \in {"Bitn", "Intn", "Floatn"} -> ScalarDecode(r, ti.ty, ti.len)
      [] ti.ty = "Guid" -> GuidDecode(r)
      [] ti.ty \in {"BigChar", "BigVarChar", "NChar", "NVarchar"} -> StringDecode(r, ti)
      [] ti.ty = "Money" ->
           On(Take(r, 1), LAMBDA n : On(MoneyDecode(n, n.v), LAMBDA t : Give(t, "F64", t.v)))
      [] ti.ty = "Datetimen" ->
           On(Take(r, 1), LAMBDA n : DatetimenDecode(n, n.v, ti.len))
      [] ti.ty \in {"Daten", "Timen", "Datetime2", "DatetimeOffsetn"} ->
           TemporalDecode(r, ti.ty, ti.len)
      [] ti.ty \in {"BigBinary", "BigVarBin"} -> BinaryDecode(r, ti.len)
      [] ti.ty \in {"Text", "NText", "Image"} -> PointedDecode(r, ti)
      [] ti.ty = "SSVariant" -> VariantDecode(r)
      [] OTHER -> Bad(r)

ColumnDataDecode(r, ti) ==
    CASE ti.c = "fixed" -> FixedDecode(r, ti.ty)
      [] ti.c = "sized" -> VarLenDecode(r, ti)
      [] ti.c = "precision" ->
           On(NumericDecode(r, ti.scale), LAMBDA t : Give(t, "Numeric", t.v))
      [] ti.c = "xml" -> StringDecode(r, ti)
      [] ti.c = "udt" -> BinaryDecode(r, U16Max)

=============================================================================
