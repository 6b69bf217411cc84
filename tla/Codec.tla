-------------------------------- MODULE Codec --------------------------------
(***************************************************************************)
(* Values on their way: a value is encoded for a column, as a parameter, in *)
(* the rows of a bulk load or of a response, and the bytes are read back.   *)
(* The encoders and decoders are those of the modules this one extends; the *)
(* reader of what the client writes is the server, which reads the format   *)
(* the client's decoder reads.                                              *)
(***************************************************************************)
EXTENDS Conversions

CONSTANTS
    Pages,      \* the code pages the server has for the collations used
    Columns,    \* pairs of a column type and the values offered to it
    Broadcast,  \* the same for values only a server writes
    Tables,     \* bulk loads: [cols, rows]
    Fields      \* triples of a Rust type, a column type and Rust values

VARIABLES
    job,        \* what is being sent, [kind |-> "none"] before
    out,        \* what the encoder returned
    back        \* what a reader makes of it

codecVars == <<job, out, back>>

NoJob == [kind |-> "none"]
Unread == [kind |-> "unread"]

CodecIdle == job = NoJob /\ out = Ok(<<>>) /\ back = Unread

\* What follows on the wire: a reader must leave it alone.
Behindhand == U(1, 7)

Encoded(j, bytes) == job = NoJob /\ job' = j /\ out' = bytes /\ UNCHANGED back

\* A value of a bulk load.
WriteColumn ==
    \E c \in Columns : \E d \in c[2] :
        Encoded([kind |-> "column", ti |-> c[1], d |-> d], ColumnDataEncode(d, c[1]))

\* A value of a server, a string that is not well formed among them.
ServerColumn ==
    \E c \in Broadcast : \E d \in c[2] :
        Encoded([kind |-> "server", ti |-> c[1], d |-> d],
              IF c[1].ty \in {"BigChar", "BigVarChar"} THEN Long(d.v, c[1].len)
              ELSE ColumnDataEncode(d, c[1]))

\* A parameter of an RPC, which is its own type followed by its value.
WriteParam ==
    \E c \in Columns : \E d \in c[2] :
        Encoded([kind |-> "param", ti |-> NoType, d |-> d], ColumnDataEncode(d, NoType))

\* BulkLoadRequest: the metadata, then the rows.
WriteTable ==
    \E t \in Tables :
        LET tis == [i \in 1..Len(t.cols) |-> t.cols[i].ti]
        IN Encoded([kind |-> "table", cols |-> t.cols, rows |-> t.rows],
                 FoldLeft(LAMBDA bytes, row : Then(bytes, RowEncode(row, tis)),
                          MetaDataEncode(t.cols), t.rows))

\* A row of three columns: two of Rust type R around an INT column, in the two
\* forms a server has for a row.
RowTypes(f) == <<f[2], Sized("Intn", 4), f[2]>>
WriteRow ==
    \E f \in Fields, nbc \in BOOLEAN : \E v, w \in f[3] :
        LET values == into_row(<<f[1], "i32", f[1]>>, <<v, <<>>, w>>)
        IN Encoded([kind |-> "row", R |-> f[1], tis |-> RowTypes(f), nbc |-> nbc,
                  values |-> <<v, <<>>, w>>],
                 IF nbc THEN NbcRowEncode(values, RowTypes(f))
                 ELSE RowEncode(values, RowTypes(f)))

-----------------------------------------------------------------------------
(* The reader                                                               *)

AsRow(r, tis) ==
    On(Take(r, 1), LAMBDA token :
        CASE token.v = RowToken -> RowDecode(token, tis)
          [] token.v = NbcRowToken -> NbcRowDecode(token, tis)
          [] OTHER -> Bad(r))

Decode(r) ==
    LET types(cols) == [i \in 1..Len(cols) |-> cols[i].ti]
        rows(cols) == Repeat(LAMBDA s : AsRow(s, types(cols.v)), cols, Len(job.rows))
    IN CASE job.kind \in {"column", "server"} -> ColumnDataDecode(r, job.ti)
         [] job.kind = "param" ->
              On(TypeInfoDecode(r), LAMBDA ti : On(ColumnDataDecode(ti, ti.v), LAMBDA d :
                  Yield(d, [ti |-> ti.v, d |-> d.v])))
         [] job.kind = "table" ->
              On(MetaDataDecode(Take(r, 1)), LAMBDA cols : On(rows(cols), LAMBDA t :
                  Yield(t, [cols |-> cols.v, rows |-> t.v])))
         [] job.kind = "row" -> AsRow(r, job.tis)

Read ==
    /\ job.kind # "none" /\ back = Unread /\ ~IsErr(out)
    /\ \E page, wide \in BOOLEAN :
         /\ job.kind # "server" => ~page /\ ~wide
         /\ LET lossy == [codepage |-> page, utf16 |-> wide]
            IN \E r \in {Decode([Reader(out.ok \o Behindhand) EXCEPT !.lossy = lossy])} :
                 back' = IF r.bad THEN [kind |-> "failed", lossy |-> lossy]
                         ELSE [kind |-> "read", v |-> r.v, rest |-> r.rest, lossy |-> lossy]
    /\ UNCHANGED <<job, out>>

CodecNext == \/ WriteColumn \/ ServerColumn \/ WriteParam \/ WriteTable \/ WriteRow
             \/ Read

-----------------------------------------------------------------------------
(* What a column can hold of a value, without the encoder's words.          *)

\* n / 10^at is the number closest to v / 10^s, ties going away from zero.
Closest(n, at, v, s) ==
    IF at >= s THEN n = v * Pow10(at - s)
    ELSE LET f == Pow10(s - at)
         IN /\ 2 * Abs(n * f - v) <= f
            /\ 2 * Abs(n * f - v) = f => Abs(n * f) > Abs(v)

\* t increments of 10^-at seconds, the last such moment that is not later than
\* `inc` increments of 10^-s.
Latest(t, at, inc, s) == /\ t * 10 ^ s <= inc * 10 ^ at
                         /\ inc * 10 ^ at < (t + 1) * 10 ^ s

Represents(got, d, ti) ==
    LET v == d.v
        w == got.v
    IN IF v = <<>> \/ ti.c = "none"
       THEN \/ got = d
            \/ w = <<>> /\ v = <<>> /\ (ti.c = "none" \/ ti.ty \in {"SSVariant", "Money", "Datetimen"})
       ELSE CASE ti.ty \in {"Money", "Money4"} ->
                   /\ got.k = "F64" /\ w[1] % 10 = 0
                   /\ IF d.k = "F64" THEN Closest(w[1] \div 10, MoneyScale, v[1], MoneyScale + 1)
                      ELSE Closest(w[1] \div 10, MoneyScale, v[1], v[2])
              [] ti.c = "precision" ->
                   got.k = "Numeric" /\ w[2] = ti.scale /\ Closest(w[1], ti.scale, v[1], v[2])
              [] d.k = "DateTime2" /\ ti.ty = "Datetimen" ->
                   /\ got.k = "DateTime" /\ w[1] + Days1900 = v[3]
                   /\ w[2] * 10 ^ v[2] <= v[1] * Fragments
                   /\ v[1] * Fragments < (w[2] + 1) * 10 ^ v[2]
              [] d.k = "DateTime2" /\ ti.ty = "Datetime2" ->
                   got.k = "DateTime2" /\ w[2] = ti.len /\ w[3] = v[3] /\ Latest(w[1], ti.len, v[1], v[2])
              [] OTHER -> got = d

\* Whether a value is beyond the column: only then may it be refused.
Beyond(d, ti) ==
    LET v == d.v
        half(width) == Holds(width - 1) * (ByteBase \div 2)
        limit == half(IF ti.len = 4 \/ ti.ty = "Money4" THEN 4 ELSE 8)
    IN IF v = <<>> THEN ti.c = "fixed"
       ELSE CASE d.k = "String" /\ ti.ty \in {"NVarchar", "NChar"} -> 2 * v[1] > ti.len
              [] d.k = "String" /\ ti.ty \in {"BigChar", "BigVarChar", "Text"} ->
                   LET unit == IF ti.coll \in DOMAIN Pages
                               THEN BytesPerUnit(Pages[ti.coll], v[2]) ELSE 0
                   IN unit = 0 \/ (ti.ty # "Text" /\ v[1] * unit > ti.len)
              [] d.k = "Binary" /\ ti.c = "sized" -> v[1] > ti.len
              [] d.k = "Numeric" /\ ti.c = "precision" /\ ti.ty # "Money" ->
                   \/ ti.scale >= v[2] /\ ~MulFits(v[1], Pow10(ti.scale - v[2]))
                   \/ ti.scale < v[2] /\ ~MulFits(v[1], 2)
              [] d.k = "F64" /\ ti.ty \in {"Money", "Money4"} ->
                   v[1] = NaN \/ 10 * limit - 5 <= v[1] \/ v[1] <= -10 * limit - 5
              [] d.k = "Numeric" /\ ti.ty \in {"Money", "Money4"} ->
                   Quot(v[1], Pow10(v[2])) + 1 > limit \div Pow10(MoneyScale)
              [] d.k = "DateTime2" /\ ti.ty = "Datetimen" -> v[3] < Days1900 \/ v[2] > NanoDigits
              [] d.k = "Date" -> v[1] >= Holds(3)
              [] d.k \in {"Time", "DateTime2", "DateTimeOffset"} ->
                   IsErr(TimeLen(v[2])) \/ v[1] >= Holds(3) \/ (Len(v) > 2 /\ v[3] >= Holds(3))
              [] OTHER -> FALSE

\* A value written into a column comes back from it as what the column can
\* hold of it (a number of the column's scale rounded half away from zero, a
\* moment truncated, a NULL a NULL), from exactly its own bytes; and the
\* encoder refuses only what the column cannot hold (ColumnData::encode,
\* decode).
StoredFaithful ==
    job.kind = "column" =>
        IF IsErr(out) THEN Beyond(job.d, job.ti)
        ELSE back # Unread =>
             /\ back.kind = "read" /\ back.rest = Behindhand
             /\ Represents(back.v, job.d, job.ti)

\* Whether a type, on the wire or in a declaration, is wide enough.
Holder(ti, d) ==
    CASE d.v = <<>> -> TRUE
      [] d.k = "String" -> ti.len = U16Max \/ 2 * d.v[1] <= ti.len
      [] d.k = "Binary" -> ti.len = U16Max \/ d.v[1] <= ti.len
      [] d.k = "Numeric" -> ti.scale = d.v[2] /\ Abs(d.v[1]) < Pow10(ti.prec)
      [] OTHER -> TRUE
Declared(d) ==
    LET name == type_name(d)
    IN CASE name[1] \in {"nvarchar", "varbinary"} ->
              [len |-> IF name[1] = "nvarchar" /\ name[2] # U16Max THEN 2 * name[2]
                       ELSE name[2]]
         [] name[1] = "numeric" /\ Len(name) = 3 -> [prec |-> name[2], scale |-> name[3]]
         [] OTHER -> <<>>

\* A parameter, with the type the encoder chose for it, reads back as the
\* value bound; and both that type and the one sp_executesql is told are wide
\* enough for it, whatever its length and its digits (ColumnData::encode
\* without a column, type_name).
ParamFaithful ==
    job.kind = "param" =>
        IF IsErr(out) THEN Beyond(job.d, NoType)
        ELSE back # Unread => /\ back.kind = "read" /\ back.rest = Behindhand
                              /\ Represents(back.v.d, job.d, NoType)
                              /\ Holder(back.v.ti, job.d)
                              /\ Holder(Declared(job.d), job.d)

\* A string of the server that is not well formed is an error, unless the
\* switch of its own encoding allows for a replacement; the bytes behind it
\* are read from their start all the same (lossy_utf16_decoding,
\* lossy_codepage_decoding).
LossyOnlyIfAllowed ==
    job.kind = "server" /\ back # Unread =>
        LET allowed == IF job.ti.ty \in {"BigChar", "BigVarChar", "Text"} THEN back.lossy.codepage
                       ELSE job.ti.c # "xml" /\ back.lossy.utf16
        IN IF job.d.v[2] = Broken /\ ~allowed THEN back.kind = "failed"
           ELSE back.kind = "read" /\ back.rest = Behindhand

\* The server reads the columns and the rows of a bulk load as they were
\* given: names, types, the flags that have a name, and every value of every
\* row under its own column; a row of another width is refused
\* (TokenColMetaData::encode, TokenRow::encode).
BulkFaithful ==
    job.kind = "table" =>
        IF IsErr(out)
        THEN \/ \E i \in DOMAIN job.rows : Len(job.rows[i]) # Len(job.cols)
             \/ \E i \in DOMAIN job.cols : job.cols[i].name[1] > U8Max
        ELSE back # Unread =>
             /\ back.kind = "read" /\ back.rest = Behindhand
             /\ Len(back.v.cols) = Len(job.cols) /\ Len(back.v.rows) = Len(job.rows)
             /\ \A i \in DOMAIN job.cols :
                  /\ back.v.cols[i].name = job.cols[i].name
                  /\ back.v.cols[i].ti = job.cols[i].ti
                  /\ \A bit \in FlagBits :
                        HasFlag(back.v.cols[i].flags, bit) = HasFlag(job.cols[i].flags, bit)
             /\ \A j \in DOMAIN job.rows : \A i \in DOMAIN job.cols :
                  Represents(back.v.rows[j][i], job.rows[j][i], job.cols[i].ti)

\* What a Rust type keeps of a value on its way through a column.
Kept(R, v) ==
    LET inc == 10 ^ (NanoDigits - WireScale)
        cut(nanos) == (nanos \div inc) * inc
    IN CASE v = <<>> -> v
         [] R = "NaiveTime" -> <<cut(v[1])>>
         [] R \in {"NaiveDateTime", "Utc"} -> <<v[1], cut(v[2])>>
         [] R = "FixedOffset" -> <<v[1], cut(v[2]), v[3]>>
         [] OTHER -> v

Names == <<<<"a">>, <<"b">>, <<"r#", "a">>>>
RowOf(values, tis) ==
    FoldLeft(LAMBDA row, i : WithColumn(row, Names[i], tis[i], values[i]),
             NewRow, Indices(values))

\* An application that reads a row of a response gets out of each column, by
\* its position or by its name, the Option that went into it, in the type it
\* went in as, up to the 100 ns of the wire; NULLs too, whichever of the two
\* forms of a row says so (ToSql, IntoSql, FromSql, QueryIdx, decode_nbc).
ReadsBack ==
    job.kind = "row" /\ ~IsErr(out) /\ back # Unread =>
        /\ back.kind = "read" /\ back.rest = Behindhand
        /\ LET row == RowOf(back.v, job.tis)
           IN \A i \in 1..3 :
                LET R == IF i = 2 THEN "i32" ELSE job.R
                IN /\ try_get(row, idx_of_usize(row, i - 1), R) = Ok(Kept(R, job.values[i]))
                   /\ try_get(row, idx_of_str(row, Names[i]), R) = Ok(Kept(R, job.values[i]))

\* Whatever the client writes, to a column, as a parameter or in a bulk load,
\* is what the server reads, or an error before a byte is sent.
WrittenFaithfully == StoredFaithful /\ ParamFaithful /\ BulkFaithful

\* Whatever the server writes is what the application gets, in the Rust type
\* it asks for; text that is not well formed is refused unless a lossy switch
\* of the Config allows it.
ReadFaithfully == ReadsBack /\ LossyOnlyIfAllowed

=============================================================================
