------------------------------- MODULE Tokens -------------------------------
(***************************************************************************)
(* The other tokens of a response: tds/codec/token/*.rs.                    *)
(*                                                                         *)
(* A token is [t |-> its kind, f |-> its fields]; the decoders start behind *)
(* the token byte.  Those with a length read all of it first and then look  *)
(* at a copy (Body), so that what they do not understand is skipped.        *)
(***************************************************************************)
EXTENDS Rows

CONSTANT MaxTokenBody   \* MAX_TOKEN_BODY

Tok(t, f) == [t |-> t, f |-> f]

\* EnvChangeTy; any other number is an error.
EnvCode == [database |-> 1, language |-> 2, packetsize |-> 4, collation |-> 7,
            begin |-> 8, commit |-> 9, rollback |-> 10, enlist |-> 11,
            defect |-> 12, mirror |-> 13, routing |-> 20]
IgnoredEnv == {2, 3, 5, 6, 15, 16, 17, 18, 19}

\* Five bytes are a collation, any other number of bytes none.
EnvCollation(r) ==
    On(Take(r, 1), LAMBDA n :
        IF n.v = 5 THEN On(Take(n, 4), LAMBDA info : On(Take(info, 1), LAMBDA sort :
                            Yield(sort, <<info.v, sort.v>>)))
        ELSE On(TakeBlob(n, n.v), LAMBDA t : Yield(t, <<>>)))

\* A new and an old value, read by the same reader.
NewAndOld(Read(_), r, t) ==
    On(Read(r), LAMBDA new : On(Read(new), LAMBDA old : Yield(old, Tok(t, <<new.v, old.v>>))))

\* The fields behind the type of an ENVCHANGE.
EnvChangeBody(r, ty) ==
    LET is(name) == ty = EnvCode[name]
        number(s) == On(read_b_varchar(s), LAMBDA t : Yield(t, t.v[2]))
    IN CASE is("database") -> NewAndOld(read_b_varchar, r, "database")
         [] is("packetsize") -> NewAndOld(number, r, "packetsize")
         [] is("collation") -> NewAndOld(EnvCollation, r, "collation")
         [] is("begin") \/ is("enlist") ->
              On(Take(r, 1), LAMBDA n :
                  IF n.v # 8 THEN Bad(r)
                  ELSE On(Take(n, 8), LAMBDA desc : Yield(desc, Tok("begin", <<desc.v>>))))
         [] is("commit") -> Yield(r, Tok("commit", <<>>))
         [] is("rollback") -> Yield(r, Tok("rollback", <<>>))
         [] is("defect") -> Yield(r, Tok("defect", <<>>))
         [] is("routing") ->
              On(Take(Take(Take(r, 2), 1), 2), LAMBDA port : On(read_us_varchar(port), LAMBDA t :
                  Yield(t, Tok("routing", <<port.v, t.v>>))))
         [] is("mirror") -> On(read_b_varchar(r), LAMBDA t : Yield(t, Tok("mirror", <<t.v>>)))
         [] ty \in IgnoredEnv -> Yield(r, Tok("ignored", <<ty>>))
         [] OTHER -> Bad(r)

\* A slip: the fields are read from the stream instead of the copy.
EnvChangeDecodeInPlace(r) ==
    On(Take(r, 2), LAMBDA len : On(Take(len, 1), LAMBDA ty : EnvChangeBody(ty, ty.v)))

\* TokenEnvChange::decode
EnvChangeDecode(r) ==
    On(Take(r, 2), LAMBDA len : Scoped(len, len.v, LAMBDA body :
        On(Take(body, 1), LAMBDA ty : EnvChangeBody(ty, ty.v))))

\* decode_error_info_body, for ERROR and INFO.  The line has four bytes since
\* SQL Server 2005.
ErrorInfoDecode(r, t, since2005) ==
    On(Take(r, 2), LAMBDA len : Scoped(len, len.v, LAMBDA body :
        On(Take(body, 4), LAMBDA code : On(Take(code, 1), LAMBDA state :
        On(Take(state, 1), LAMBDA class : On(read_us_varchar(class), LAMBDA message :
        On(read_b_varchar(message), LAMBDA server : On(read_b_varchar(server), LAMBDA proc :
        On(Take(proc, IF since2005 THEN 4 ELSE 2), LAMBDA line :
            Yield(line, Tok(t, <<code.v, state.v, class.v, message.v, server.v, proc.v,
                                 line.v>>)))))))))))

\* FeatureLevel: the versions a server may announce (year of the release, 9999
\* for SqlServerN), in their order.
FeatureLevels == {1998, 2000, 2001, 2005, 2008, 2010, 9999}
Since2005(version) == version >= 2005

\* TokenLoginAck::decode: the fixed part from the stream, the rest from a copy.
LoginAckDecode(r) ==
    LET fields(len, interface, version) ==
            IF len.v < 5 \/ version.v \notin FeatureLevels THEN Bad(r)
            ELSE Scoped(version, len.v - 5, LAMBDA body :
                     On(read_b_varchar(body), LAMBDA prog : On(Take(prog, 4), LAMBDA build :
                         Yield(build, Tok("loginack",
                                          <<interface.v, version.v, prog.v, build.v>>)))))
    IN On(Take(r, 2), LAMBDA len : On(Take(len, 1), LAMBDA interface :
       On(Take(interface, 4), LAMBDA version : fields(len, interface, version))))

\* TokenFeatureExtAck::decode: only federated authentication is known.
FeatureExtAckDecode(r) ==
    LET ack(s, id) ==
            On(Take(id, 4), LAMBDA len :
                IF id.v # 2 \/ len.v \notin {0, 32} THEN Bad(r)
                ELSE On(TakeBlob(len, len.v), LAMBDA nonce :
                         Yield(nonce, [f |-> Append(s.v.f, <<len.v, nonce.v>>),
                                       t |-> "featureack", done |-> FALSE])))
        next(s, u) ==
            IF s.bad \/ s.v.done THEN s
            ELSE On(Take(s, 1), LAMBDA id :
                     IF id.v = 255 THEN Yield(id, [s.v EXCEPT !.done = TRUE]) ELSE ack(s, id))
        start == Yield(r, [t |-> "featureack", f |-> <<>>, done |-> FALSE])
    IN On(FoldLeft(next, start, r.rest), LAMBDA last :
           IF last.v.done THEN Yield(last, Tok("featureack", last.v.f)) ELSE Bad(r))

\* TokenFedAuthInfo::parse: a table of (id, length, offset), the offsets being
\* those of the body.
FedAuthOption(units, i) ==
    On(Take(At(units, 4 + (i - 1) * 9), 1), LAMBDA id :
    On(Take(id, 4), LAMBDA len : On(Take(len, 4), LAMBDA offset :
        IF len.v % 2 # 0 THEN Bad(offset)
        ELSE On(TakeBlob(At(units, offset.v), len.v), LAMBDA data :
                 Yield(data, <<id.v, <<len.v \div 2, data.v>>>>)))))

\* The last option of each of the two kinds that are known.
FedAuthOptions(r, opts) ==
    LET last(id) == LET of == {i \in DOMAIN opts : opts[i].v[1] = id}
                    IN IF of = {} THEN <<>> ELSE opts[Max(of)].v[2]
    IN IF \E i \in DOMAIN opts : opts[i].bad THEN Bad(r)
       ELSE Yield(r, Tok("fedauth", <<last(1), last(2)>>))

FedAuthInfoDecode(r) ==
    On(Take(r, 4), LAMBDA len :
        IF len.v > MaxTokenBody THEN Bad(r)
        ELSE Scoped(len, len.v, LAMBDA body : On(Take(body, 4), LAMBDA count :
                 FedAuthOptions(count, [i \in 1..count.v |-> FedAuthOption(body.rest, i)]))))

\* TokenSessionState::parse: entries to the end of the body; a length of 0xff
\* announces a four-byte one.
SessionEntry(r) ==
    On(Take(r, 1), LAMBDA id : On(Take(id, 1), LAMBDA short :
    On(IF short.v = 255 THEN Take(short, 4) ELSE short, LAMBDA len :
    On(TakeBlob(len, len.v), LAMBDA data : Yield(data, <<id.v, len.v, data.v>>)))))

SessionStateDecode(r) ==
    On(Take(r, 4), LAMBDA len :
        IF len.v \notin 5..MaxTokenBody THEN Bad(r)
        ELSE Scoped(len, len.v, LAMBDA body :
                 On(Take(body, 4), LAMBDA seq : On(Take(seq, 1), LAMBDA status :
                 On(RepeatToEnd(SessionEntry, status), LAMBDA states :
                     Yield(states, Tok("session", <<seq.v, status.v, states.v>>)))))))

\* TokenOrder::decode
OrderDecode(r) ==
    On(Take(r, 2), LAMBDA len :
        IF len.v % 2 # 0 THEN Bad(r)
        ELSE On(Repeat(LAMBDA s : Take(s, 2), len, len.v \div 2), LAMBDA t :
                 Yield(t, Tok("order", t.v))))

\* The bytes of an entry of COLINFO.
ColInfoSize(entry) == IF entry[4] = <<>> THEN 3 ELSE 4 + 2 * entry[4][1][1]

ColInfoEntry(r) ==
    On(Take(r, 1), LAMBDA col : On(Take(col, 1), LAMBDA table :
    On(Take(table, 1), LAMBDA status :
        IF ~HasFlag(status.v, 5) THEN Yield(status, <<col.v, table.v, status.v, <<>>>>)
        ELSE On(read_b_varchar(status), LAMBDA name :
                 Yield(name, <<col.v, table.v, status.v, <<name.v>>>>)))))

\* TokenColInfo::decode: entries straight from the stream, each of which must
\* end within the length.
ColInfoDecode(r) ==
    LET size(cols) == FoldLeft(LAMBDA n, e : n + ColInfoSize(e), 0, cols)
        next(len, s) ==
            IF s.bad \/ size(s.v) >= len.v THEN s
            ELSE On(ColInfoEntry(s), LAMBDA e :
                     IF size(s.v) + ColInfoSize(e.v) > len.v THEN Bad(e)
                     ELSE Yield(e, Append(s.v, e.v)))
    IN On(Take(r, 2), LAMBDA len :
       On(FoldLeft(LAMBDA s, u : next(len, s), Yield(len, <<>>), len.rest), LAMBDA last :
           Yield(last, Tok("colinfo", last.v))))

\* TokenTabName::parse: tables to the end of the body, each a number of parts.
TabNameDecode(r) ==
    LET table(s) == On(Take(s, 1), LAMBDA n : Repeat(read_us_varchar, n, n.v))
    IN On(Take(r, 2), LAMBDA len : Scoped(len, len.v, LAMBDA body :
           On(RepeatToEnd(table, body), LAMBDA t : Yield(t, Tok("tabname", t.v)))))

\* TokenReturnValue::decode
ReturnValueDecode(r) ==
    On(Take(r, 2), LAMBDA ordinal : On(read_b_varchar(ordinal), LAMBDA name :
    On(Take(name, 1), LAMBDA udf :
        IF udf.v \notin {1, 2} THEN Bad(r)
        ELSE On(BaseDecode(udf), LAMBDA meta : On(ColumnDataDecode(meta, meta.v.ti), LAMBDA d :
                 Yield(d, Tok("returnvalue", <<ordinal.v, name.v, udf.v, d.v>>)))))))

\* TokenSspi::decode_async
SspiDecode(r) ==
    On(Take(r, 2), LAMBDA len : On(TakeBlob(len, len.v), LAMBDA data :
        Yield(data, Tok("sspi", <<len.v, data.v>>))))

\* The bits of DoneStatus; the decoder drops the others (from_bits_truncate).
DoneBits == {0, 1, 2, 4, 5, 7, 8}

DoneStatus(bits) ==
    FoldSet(LAMBDA bit, sum : sum + (IF HasFlag(bits, bit) THEN 2 ^ bit ELSE 0), 0, DoneBits)

\* TokenDone::decode; the row count has eight bytes since SQL Server 2005.
\* Rows are reported only when the status says that they were counted.
DoneDecode(r, since2005) ==
    On(Take(r, 2), LAMBDA status : On(Take(status, 2), LAMBDA cmd :
    On(Take(cmd, IF since2005 THEN 8 ELSE 4), LAMBDA rows :
        Yield(rows, Tok("done", <<DoneStatus(status.v), cmd.v,
                                  IF HasFlag(status.v, 4) THEN rows.v ELSE 0>>)))))

\* TokenAltMetaData::decode, TokenAltRow::decode: the columns of a COMPUTE row.
AltMetaDataDecode(r) ==
    LET column(s) == On(Take(s, 1), LAMBDA op : On(Take(op, 2), LAMBDA operand :
                     On(BaseDecode(operand), LAMBDA base : On(read_b_varchar(base), LAMBDA t :
                         Yield(t, <<op.v, operand.v, base.v.ti, t.v>>)))))
    IN On(Take(r, 2), LAMBDA count : On(Take(count, 2), LAMBDA id :
       On(Take(id, 1), LAMBDA n : On(Repeat(LAMBDA s : Take(s, 2), n, n.v), LAMBDA by :
       On(Repeat(column, by, count.v), LAMBDA cols :
           Yield(cols, Tok("altmeta", <<id.v, by.v, cols.v>>)))))))

AltRowDecode(r, id, tis) ==
    On(RowDecode(r, tis), LAMBDA row : Yield(row, Tok("altrow", <<id, row.v>>)))

=============================================================================
