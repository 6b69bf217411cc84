------------------------------- MODULE Values -------------------------------
(***************************************************************************)
(* tds/codec/type_info.rs, tds/codec/column_data.rs with its directory, and *)
(* tds/xml.rs: how a column's type and its values are written and read.     *)
(*                                                                         *)
(* A value (ColumnData) is [k |-> its variant, v |-> <<>> for NULL or its   *)
(* content]: one number, <<units, script>> of a string, <<bytes, content>>  *)
(* of a binary, or the fields of a Numeric or of a temporal type.           *)
(***************************************************************************)
EXTENDS Numerics, Times, Collations

CONSTANTS
    RpcChars,   \* the longest NVARCHAR parameter that is not MAX (4000)
    PlpMax      \* the longest value read from chunks (MAX_PLP_SIZE)

FixedCode == [Null |-> 31, Int1 |-> 48, Bit |-> 50, Int2 |-> 52, Int4 |-> 56,
              Datetime4 |-> 58, Float4 |-> 59, Money |-> 60, Datetime |-> 61,
              Float8 |-> 62, Money4 |-> 122, Int8 |-> 127]

VarCode == [Guid |-> 36, Intn |-> 38, Bitn |-> 104, Decimaln |-> 106,
            Numericn |-> 108, Floatn |-> 109, Money |-> 110, Datetimen |-> 111,
            Daten |-> 40, Timen |-> 41, Datetime2 |-> 42,
            DatetimeOffsetn |-> 43, BigVarBin |-> 165, BigVarChar |-> 167,
            BigBinary |-> 173, BigChar |-> 175, NVarchar |-> 231,
            NChar |-> 239, Xml |-> 241, Udt |-> 240, Text |-> 35, Image |-> 34,
            NText |-> 99, SSVariant |-> 98]

\* TypeInfo: its variant `c`, and the fields the variant has.
Ti(c, ty, len) == [c |-> c, ty |-> ty, len |-> len, prec |-> 0, scale |-> 0,
                   coll |-> <<>>, names |-> <<>>]
Fixed(ty) == Ti("fixed", ty, 0)
Sized(ty, len) == Ti("sized", ty, len)
Collated(ty, len, coll) == [Sized(ty, len) EXCEPT !.coll = coll]
Precise(ty, len, prec, scale) ==
    [Ti("precision", ty, len) EXCEPT !.prec = prec, !.scale = scale]
XmlType(names) == [Ti("xml", "Xml", U16Max) EXCEPT !.names = names]
UdtType(len, names) == [Ti("udt", "Udt", len) EXCEPT !.names = names]
NoType == Ti("none", "none", 0)

\* Whether the metadata ends with a collation, and the width of its length.
HasCollation == {"NText", "Text", "BigChar", "NChar", "NVarchar", "BigVarChar"}
LenWidth(ty) ==
    CASE ty \in {"Daten", "Xml"} -> 0
      [] ty \in {"NChar", "BigChar", "NVarchar", "BigVarChar", "BigBinary",
                 "BigVarBin"} -> 2
      [] ty \in {"Image", "Text", "NText", "SSVariant"} -> 4
      [] OTHER -> 1

-----------------------------------------------------------------------------
(* type_info.rs                                                             *)

\* VarLenContext::encode.  A Udt has no such context.
VarLenContextEncode(ti) ==
    IF ti.ty = "Udt" THEN Err("unsupported context")
    ELSE Ok(U(1, VarCode[ti.ty]) \o
            (IF LenWidth(ti.ty) = 0 THEN <<>> ELSE U(LenWidth(ti.ty), ti.len)) \o
            (IF ti.coll = <<>> THEN <<>>
             ELSE U(4, ti.coll[1]) \o U(1, ti.coll[2])))

\* Names one after the other, the last one with a two-byte length.
NamesEncode(names) ==
    FoldLeft(LAMBDA out, i : Then(out, IF i < Len(names)
                                       THEN encode_b_varchar(names[i])
                                       ELSE encode_us_varchar(names[i])),
             Ok(<<>>), [i \in 1..Len(names) |-> i])

TypeInfoEncode(ti) ==
    CASE ti.c = "fixed" -> Ok(U(1, FixedCode[ti.ty]))
      [] ti.c = "sized" -> VarLenContextEncode(ti)
      [] ti.c = "precision" -> Ok(U(1, VarCode[ti.ty]) \o U(1, ti.len) \o
                                  U(1, ti.prec) \o U(1, ti.scale))
      [] ti.c = "xml" -> Then(Ok(U(1, VarCode.Xml) \o
                                 U(1, IF ti.names = <<>> THEN 0 ELSE 1)),
                              NamesEncode(ti.names))
      [] ti.c = "udt" -> Then(Ok(U(1, VarCode.Udt) \o U(2, ti.len)),
                              NamesEncode(ti.names))

\* As many names as the type has; `v` is their sequence.
NamesDecode(r, n) ==
    FoldLeft(LAMBDA s, i : On(s, LAMBDA q :
                 On(IF i < n THEN read_b_varchar(q) ELSE read_us_varchar(q), LAMBDA t :
                    Yield(t, Append(q.v, t.v)))),
             Yield(r, <<>>), [i \in 1..n |-> i])

\* What follows the byte of a VarLenType.
VarTypeDecode(r, ty) ==
    CASE ty = "Udt" ->
           On(Take(r, 2), LAMBDA size : On(NamesDecode(size, 4), LAMBDA t :
               Yield(t, UdtType(size.v, t.v))))
      [] ty = "Xml" ->
           On(Take(r, 1), LAMBDA schema :
           On(NamesDecode(schema, IF schema.v = 1 THEN 3 ELSE 0), LAMBDA t :
               Yield(t, XmlType(t.v))))
      [] ty = "Daten" -> Yield(r, Sized(ty, 3))
      [] ty \in {"Decimaln", "Numericn"} ->
           On(Take(r, 1), LAMBDA len : On(Take(len, 1), LAMBDA prec :
           On(Take(prec, 1), LAMBDA t :
               IF prec.v > MaxPrecision \/ t.v > prec.v THEN Bad(r)
               ELSE Yield(t, Precise(ty, len.v, prec.v, t.v)))))
      [] ty \in HasCollation ->
           On(Take(r, LenWidth(ty)), LAMBDA len : On(Take(len, 4), LAMBDA info :
           On(Take(info, 1), LAMBDA t : Yield(t, Collated(ty, len.v, <<info.v, t.v>>)))))
      [] OTHER -> On(Take(r, LenWidth(ty)), LAMBDA t : Yield(t, Sized(ty, t.v)))

\* The types a byte stands for: one, or none.
TypesOf(codes, byte) == {t \in DOMAIN codes : codes[t] = byte}

TypeInfoDecode(r) ==
    On(Take(r, 1), LAMBDA code :
        IF TypesOf(FixedCode, code.v) # {}
        THEN Yield(code, Fixed(CHOOSE t \in TypesOf(FixedCode, code.v) : TRUE))
        ELSE IF TypesOf(VarCode, code.v) = {} THEN Bad(r)
        ELSE VarTypeDecode(code, CHOOSE t \in TypesOf(VarCode, code.v) : TRUE))

-----------------------------------------------------------------------------
(* column_data.rs: what the arms of encode have in common.                  *)

\* A value of the given width behind its length byte; NULL is length 0.
ByteLen(v, width) == IF v = <<>> THEN U(1, 0) ELSE U(1, width) \o U(width, v[1])

\* Chunks of a value without a known length, and NULL.
PlpUnknown == -2
PlpNull == -1
Chunked(bytes, content) ==
    U(8, PlpUnknown) \o U(4, bytes) \o Blob(bytes, content) \o
    (IF bytes = 0 THEN <<>> ELSE U(4, 0))

\* <<bytes, content>> in a column of at most `limit` bytes: two bytes of
\* length, or chunks when the column is MAX.
Long(v, limit) ==
    IF v = <<>> THEN Ok(IF limit < U16Max THEN U(2, U16Max) ELSE U(8, PlpNull))
    ELSE IF v[1] > limit THEN Err("exceeds column limit")
    ELSE IF limit < U16Max THEN Ok(U(2, v[1]) \o Blob(v[1], v[2]))
    ELSE Ok(Chunked(v[1], v[2]))

\* A string in the column's code page.
CodepageBytes(v, coll) ==
    IF v = <<>> THEN Ok(<<>>)
    ELSE IF coll = <<>> THEN Err("missing collation")
    ELSE IF IsErr(codec(coll)) THEN codec(coll)
    ELSE CodecEncode(codec(coll).ok, v)

Utf16Bytes(v) == IF v = <<>> THEN <<>> ELSE <<2 * v[1], v[2]>>

\* String::len: the bytes of a string in UTF-8.
Utf8Len(s) == s[1] * (CASE s[2] = Ascii -> 1 [] s[2] = Han -> 3 [] OTHER -> 2)

\* XmlData::encode always ends with a terminator.
XmlDataEncode(v) == U(8, PlpUnknown) \o U(4, 2 * v[1]) \o Utf16(v) \o U(4, 0)

\* guid::reorder_bytes, its own inverse.
reorder_bytes(v) == IF v = <<>> THEN v ELSE <<-v[1]>>

\* Text and NText: a text pointer and a timestamp nobody reads, then the data.
Pointed(v) == U(1, 16) \o U(16, 0) \o U(4, 0) \o U(4, 0) \o
              U(4, v[1]) \o Blob(v[1], v[2])

\* The types of fixed width: the nullable type, the fixed one, the width.
Scalar == [Bit |-> <<"Bitn", "Bit", 1>>, U8 |-> <<"Intn", "Int1", 1>>,
           I16 |-> <<"Intn", "Int2", 2>>, I32 |-> <<"Intn", "Int4", 4>>,
           I64 |-> <<"Intn", "Int8", 8>>, F32 |-> <<"Floatn", "Float4", 4>>,
           F64 |-> <<"Floatn", "Float8", 8>>]

Behind(width, r) == Then(Ok(U(1, width)), r)

Mismatch == Err("invalid data type")

-----------------------------------------------------------------------------
(* ColumnData::encode, one operator per kind of value.  `ti` is the column's *)
(* type in a bulk load, NoType for a parameter, which carries its own type. *)

EncodeScalar(k, v, ti) ==
    LET t == Scalar[k]
    IN CASE ti.c = "sized" /\ ti.ty = t[1] -> Ok(ByteLen(v, t[3]))
         [] ti.c = "fixed" /\ ti.ty = t[2] /\ v # <<>> -> Ok(U(t[3], v[1]))
         [] ti.c = "none" ->
              Ok(U(1, VarCode[t[1]]) \o U(1, t[3]) \o ByteLen(v, t[3]))
         [] OTHER -> Mismatch

\* Money of a double or of a Numeric.
EncodeMoney(k, v, ti) ==
    LET put(len, prefixed) == IF k = "F64" THEN MoneyEncode(len, v[1], prefixed)
                              ELSE MoneyEncodeNumeric(len, v, prefixed)
    IN CASE ti.c = "sized" ->
              IF v = <<>> THEN Ok(U(1, 0)) ELSE put(ti.len, TRUE)
         [] ti.c = "fixed" /\ v # <<>> ->
              put(IF ti.ty = "Money" THEN 8 ELSE 4, FALSE)
         [] OTHER -> Mismatch

EncodeGuid(v, ti) ==
    CASE ti.c = "sized" /\ ti.ty = "Guid" -> Ok(ByteLen(reorder_bytes(v), 16))
      [] ti.c = "none" -> Ok(U(1, VarCode.Guid) \o U(1, 16) \o
                             ByteLen(reorder_bytes(v), 16))
      [] OTHER -> Mismatch

\* A string in a column.
EncodeString(v, ti) ==
    LET page == CodepageBytes(v, ti.coll)
        text == IF ti.ty = "Text" THEN page ELSE Ok(Utf16Bytes(v))
    IN CASE ti.c = "sized" /\ ti.ty \in {"BigChar", "BigVarChar"} ->
              IF IsErr(page) THEN page ELSE Long(page.ok, ti.len)
         [] ti.c = "sized" /\ ti.ty \in {"NVarchar", "NChar"} ->
              Long(Utf16Bytes(v), ti.len)
         [] ti.c = "sized" /\ ti.ty \in {"Text", "NText"} ->
              IF v = <<>> THEN Ok(U(1, 0))
              ELSE IF IsErr(text) THEN text ELSE Ok(Pointed(text.ok))
         [] OTHER -> Mismatch

\* A string parameter: NVARCHAR of at most 4000 characters, counted in bytes
\* of UTF-8, which are never fewer; or NVARCHAR(MAX).
StringParam(v) ==
    U(1, VarCode.NVarchar) \o
    (IF Utf8Len(v) <= RpcChars
     THEN U(2, 2 * RpcChars) \o U(4, 0) \o U(1, 0) \o U(2, 2 * v[1]) \o Utf16(v)
     ELSE U(2, U16Max) \o U(4, 0) \o U(1, 0) \o Chunked(2 * v[1], v[2]))

\* ColumnData::type_name: the declaration of a parameter, U16Max being MAX.
type_name(d) ==
    LET limited(name, len, limit) ==
            IF d.v # <<>> /\ len > limit THEN <<name, U16Max>> ELSE <<name, limit>>
    IN CASE d.k = "String" -> limited("nvarchar", Utf8Len(d.v), RpcChars)
         [] d.k = "Binary" -> IF d.v = <<>> THEN <<"varbinary", U16Max>>
                              ELSE limited("varbinary", d.v[1], 2 * RpcChars)
         [] d.k = "Numeric" /\ d.v # <<>> -> <<"numeric", precision(d.v), d.v[2]>>
         [] OTHER -> <<[Bit |-> "bit", U8 |-> "tinyint", I16 |-> "smallint", I32 |-> "int",
                        I64 |-> "bigint", F32 |-> "float(24)", F64 |-> "float(53)",
                        Guid |-> "uniqueidentifier", Numeric |-> "numeric", Xml |-> "xml",
                        DateTime |-> "datetime", SmallDateTime |-> "smalldatetime",
                        Time |-> "time", Date |-> "date", DateTime2 |-> "datetime2",
                        DateTimeOffset |-> "datetimeoffset"][d.k]>>

EncodeBinary(v, ti) ==
    IF ti.c = "sized" /\ ti.ty \in {"BigBinary", "BigVarBin"}
    THEN Long(v, ti.len) ELSE Mismatch

BinaryParam(v) ==
    U(1, VarCode.BigVarBin) \o
    (IF v[1] <= 2 * RpcChars
     THEN U(2, 2 * RpcChars) \o U(2, v[1]) \o Blob(v[1], v[2])
     ELSE U(2, U16Max) \o Chunked(v[1], v[2]))

\* DateTime and SmallDateTime.
EncodeDateTime(k, v, ti) ==
    LET width == IF k = "DateTime" THEN 8 ELSE 4
        data == IF k = "DateTime" THEN DateTimeEncode(v) ELSE SmallDateTimeEncode(v)
    IN CASE ti.c = "sized" /\ ti.ty = "Datetimen" ->
              Ok(IF v = <<>> THEN U(1, 0) ELSE U(1, width) \o data)
         [] /\ ti.c = "fixed" /\ v # <<>>
            /\ ti.ty = (IF k = "DateTime" THEN "Datetime" ELSE "Datetime4") ->
              Ok(data)
         [] ti.c = "none" /\ v # <<>> ->
              Ok(U(1, VarCode.Datetimen) \o U(1, width) \o U(1, width) \o data)
         [] OTHER -> Mismatch

\* Date and Time.  The time keeps its own scale whatever the column's is.
EncodeDate(v, ti) ==
    CASE ti.c = "sized" /\ ti.ty = "Daten" ->
           IF v = <<>> THEN Ok(U(1, 0)) ELSE Behind(3, DateEncode(v[1]))
      [] ti.c = "none" /\ v # <<>> ->
           Then(Ok(U(1, VarCode.Daten)), Behind(3, DateEncode(v[1])))
      [] OTHER -> Mismatch

EncodeTime(v, ti) ==
    LET data == IF IsErr(TimeLen(v[2])) THEN TimeLen(v[2])
                ELSE Behind(TimeLen(v[2]).ok, TimeEncode(v[1], v[2]))
    IN CASE ti.c = "sized" /\ ti.ty = "Timen" ->
              IF v = <<>> THEN Ok(U(1, 0)) ELSE data
         [] ti.c = "none" /\ v # <<>> ->
              Then(Ok(U(1, VarCode.Timen) \o U(1, v[2])), data)
         [] OTHER -> Mismatch

\* DateTime2: into a datetime column it is converted, into a datetime2 column
\* of another scale rescaled.
EncodeDateTime2(v, ti) ==
    LET put(w) == IF IsErr(TimeLen(w[2])) THEN TimeLen(w[2])
                  ELSE Behind(TimeLen(w[2]).ok + 3, DateTime2Encode(w))
        old == datetime2_to_datetime(v)
    IN CASE ti.c = "sized" /\ ti.ty = "Datetimen" ->
              IF v = <<>> THEN Ok(U(1, 0))
              ELSE IF IsErr(old) THEN old
              ELSE Behind(8, Ok(DateTimeEncode(old.ok)))
         [] ti.c = "sized" /\ ti.ty = "Datetime2" ->
              IF v = <<>> THEN Ok(U(1, 0)) ELSE put(datetime2_rescale(v, ti.len))
         [] ti.c = "none" /\ v # <<>> ->
              Then(Ok(U(1, VarCode.Datetime2) \o U(1, v[2])), put(v))
         [] OTHER -> Mismatch

EncodeDateTimeOffset(v, ti) ==
    LET data == IF IsErr(TimeLen(v[2])) THEN TimeLen(v[2])
                ELSE Behind(TimeLen(v[2]).ok + 5, DateTimeOffsetEncode(v))
    IN CASE ti.c = "sized" /\ ti.ty = "DatetimeOffsetn" ->
              IF v = <<>> THEN Ok(U(1, 0)) ELSE data
         [] ti.c = "none" /\ v # <<>> ->
              Then(Ok(U(1, VarCode.DatetimeOffsetn) \o U(1, v[2])), data)
         [] OTHER -> Mismatch

EncodeXml(v, ti) ==
    CASE ti.c = "xml" -> Ok(IF v = <<>> THEN U(8, PlpNull) ELSE XmlDataEncode(v))
      [] ti.c = "none" /\ v # <<>> ->
           Ok(U(1, VarCode.Xml) \o U(1, 0) \o XmlDataEncode(v))
      [] OTHER -> Mismatch

EncodeNumeric(v, ti) ==
    LET at == rescale(v, ti.scale)
    IN CASE ti.c = "precision" ->
              IF v = <<>> THEN Ok(U(1, 0))
              ELSE IF IsErr(at) THEN at ELSE Ok(NumericEncode(at.ok))
         [] ti.c = "none" /\ v # <<>> ->
              Ok(U(1, VarCode.Numericn) \o U(1, NumericLen(v)) \o
                 U(1, precision(v)) \o U(1, v[2]) \o NumericEncode(v))
         [] OTHER -> Mismatch

-----------------------------------------------------------------------------
(* ColumnData::decode, one operator per file of column_data/.               *)

Give(r, k, v) == Yield(r, [k |-> k, v |-> v])
GiveLast(r, k) == Give(r, k, <<r.v>>)

\* fixed_len
FixedDecode(r, ty) ==
    CASE ty = "Null" -> Give(r, "I32", <<>>)
      [] ty = "Datetime" -> On(PairDecode(r, 4), LAMBDA t : Give(t, "DateTime", t.v))
      [] ty = "Datetime4" -> On(PairDecode(r, 2), LAMBDA t : Give(t, "SmallDateTime", t.v))
      [] ty \in {"Money", "Money4"} ->
           On(MoneyDecode(r, IF ty = "Money" THEN 8 ELSE 4), LAMBDA t : Give(t, "F64", t.v))
      [] OTHER -> LET k == CHOOSE x \in DOMAIN Scalar : Scalar[x][2] = ty
                  IN On(Take(r, Scalar[k][3]), LAMBDA t : GiveLast(t, k))

\* bit, int, float: the length of the value decides its type, for a NULL the
\* length of the column's type does.
ScalarDecode(r, ty, type_len) ==
    On(Take(r, 1), LAMBDA n :
        LET of == {k \in DOMAIN Scalar :
                      /\ Scalar[k][1] = ty
                      /\ Scalar[k][3] = IF n.v = 0 THEN type_len ELSE n.v}
            widest == [Bitn |-> "Bit", Intn |-> "I64", Floatn |-> "F64"][ty]
            k == IF of = {} THEN widest ELSE CHOOSE x \in of : TRUE
        IN IF n.v = 0 THEN Give(n, k, <<>>)
           ELSE IF of = {} THEN Bad(r)
           ELSE On(Take(n, n.v), LAMBDA t : GiveLast(t, k)))

GuidDecode(r) ==
    On(Take(r, 1), LAMBDA n :
        CASE n.v = 0 -> Give(n, "Guid", <<>>)
          [] n.v = 16 -> On(Take(n, 16), LAMBDA g : Give(g, "Guid", reorder_bytes(<<g.v>>)))
          [] OTHER -> Bad(r))

\* datetimen: `len` is the column's, `rlen` the value's.
DatetimenDecode(r, rlen, len) ==
    CASE rlen = 0 /\ len = 4 -> Give(r, "SmallDateTime", <<>>)
      [] rlen = 0 /\ len = 8 -> Give(r, "DateTime", <<>>)
      [] rlen = 4 -> FixedDecode(r, "Datetime4")
      [] rlen = 8 -> FixedDecode(r, "Datetime")
      [] OTHER -> Bad(r)

\* date, time, datetime2, datetimeoffsetn: behind a length byte, the bytes of
\* the time being what the others leave.
TemporalDecode(r, ty, scale) ==
    LET k == [Daten |-> "Date", Timen |-> "Time", Datetime2 |-> "DateTime2",
              DatetimeOffsetn |-> "DateTimeOffset"][ty]
        body(n) == CASE ty = "Daten" /\ n.v = 3 -> On(Take(n, 3), LAMBDA d : Yield(d, <<d.v>>))
                     [] ty = "Timen" /\ n.v \in 3..5 -> TimeDecode(n, scale, n.v)
                     [] ty = "Datetime2" /\ n.v >= 3 -> DateTime2Decode(n, scale, n.v - 3)
                     [] ty = "DatetimeOffsetn" /\ n.v >= 5 ->
                          DateTimeOffsetDecode(n, scale, n.v - 5)
                     [] OTHER -> Bad(r)
    IN On(Take(r, 1), LAMBDA n :
           IF n.v = 0 THEN Give(n, k, <<>>)
           ELSE On(body(n), LAMBDA t : Give(t, k, t.v)))

\* plp: the chunks up to an empty one; `v` is <<bytes so far, content>>.
PlpChunks(total) ==
    LET next(s, u) ==
            IF s.done \/ s.at.bad THEN s
            ELSE LET n == Take(s.at, 4)
                 IN IF n.bad \/ n.v = 0 THEN [s EXCEPT !.at = n, !.done = TRUE]
                    ELSE IF s.bytes + n.v > PlpMax THEN [s EXCEPT !.at = Bad(n)]
                    ELSE [s EXCEPT !.at = TakeBlob(n, n.v), !.bytes = @ + n.v,
                                   !.content = TakeBlob(n, n.v).v]
        start == [at |-> total, bytes |-> 0, content |-> 0, done |-> FALSE]
        read(s) == Yield(s.at, <<s.bytes, s.content>>)
    IN read(FoldLeft(next, start, total.rest))

\* A value behind a two-byte length, or a chunked one when the column is MAX.
\* `v` becomes <<>> or <<bytes, content>>.
PlpDecode(r, len) ==
    IF len < U16Max
    THEN On(Take(r, 2), LAMBDA n :
             IF n.v = U16Max THEN Yield(n, <<>>)
             ELSE On(TakeBlob(n, n.v), LAMBDA t : Yield(t, <<n.v, t.v>>)))
    ELSE On(Take(r, 8), LAMBDA total :
             IF total.v = PlpNull THEN Yield(total, <<>>) ELSE PlpChunks(total))

\* Bytes as UTF-16: an odd number of them, or an unpaired surrogate, is an
\* error; the latter is replaced when the Context says so.
FromUtf16(r, bytes, lossy, k) ==
    IF bytes[1] % 2 # 0 THEN Bad(r)
    ELSE IF bytes[2] = Broken /\ ~lossy THEN Bad(r)
    ELSE Give(r, k, <<bytes[1] \div 2, bytes[2]>>)

FromCodepage(r, bytes, coll) ==
    IF coll = <<>> THEN Bad(r)
    ELSE IF IsErr(codec(coll)) THEN Bad(r)
    ELSE LET s == CodecDecode(codec(coll).ok, bytes, r.lossy.codepage)
         IN IF IsErr(s) THEN Bad(r) ELSE Give(r, "String", s.ok)

\* string, xml
StringDecode(r, ti) ==
    LET k == IF ti.ty = "Xml" THEN "Xml" ELSE "String"
    IN On(PlpDecode(r, ti.len), LAMBDA data :
           IF data.v = <<>> THEN Give(data, k, <<>>)
           ELSE IF ti.ty \in {"BigChar", "BigVarChar"}
           THEN FromCodepage(data, data.v, ti.coll)
           ELSE FromUtf16(data, data.v, ti.ty # "Xml" /\ data.lossy.utf16, k))

\* binary, udt
BinaryDecode(r, len) == On(PlpDecode(r, len), LAMBDA data : Give(data, "Binary", data.v))

\* text, image: behind a text pointer and a timestamp.
PointedDecode(r, ti) ==
    LET value(data, bytes) ==
            CASE ti.ty = "Image" -> Give(data, "Binary", bytes)
              [] ti.ty = "Text" -> FromCodepage(data, bytes, ti.coll)
              [] ti.ty = "NText" -> FromUtf16(data, bytes, data.lossy.utf16, "String")
    IN On(Take(r, 1), LAMBDA ptr :
           IF ptr.v = 0 THEN Give(ptr, IF ti.ty = "Image" THEN "Binary" ELSE "String", <<>>)
           ELSE On(Take(Take(TakeBlob(ptr, ptr.v), 4), 4), LAMBDA stamp :
                On(Take(stamp, 4), LAMBDA n :
                On(TakeBlob(n, n.v), LAMBDA data : value(data, <<n.v, data.v>>)))))

=============================================================================
