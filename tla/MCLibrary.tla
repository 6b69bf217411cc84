----------------------------- MODULE MCLibrary -----------------------------
(***************************************************************************)
(* The parts of the crate around the connection, checked in one run.  They  *)
(* share operators, not state: a behaviour chooses one part and the others  *)
(* stay as they are, so that the state space is the sum of theirs.          *)
(***************************************************************************)
EXTENDS Codec, Statements, Responses, ReadFutures, Lookup, Opening, Texts, MCTlsPreloginWrapper

VARIABLE part

libraryVars == <<part, codecVars, statementVars, responseVars, readVars, lookupVars,
                 openingVars, textVars, wrapperVars>>

Init ==
    /\ part \in {"codec", "statements", "responses", "reads", "lookup", "opening", "texts",
              "tls"}
    /\ CodecIdle /\ StatementIdle /\ ResponseInit /\ Idle
    /\ IF part = "reads" THEN ReadInit ELSE ReadIdle
    /\ IF part = "opening" THEN OpeningInit ELSE OpeningIdle
    /\ IF part = "texts" THEN TextInit ELSE TextIdle
    /\ IF part = "tls" THEN WrapperInit ELSE WrapperIdle

CodecStep == /\ part = "codec" /\ CodecNext
             /\ UNCHANGED <<part, statementVars, responseVars, readVars, lookupVars,
                            openingVars, textVars, wrapperVars>>

Sqls == {<<3, Ascii>>, <<7, Han>>}
Statement ==
    \/ \E sql \in Sqls : NewQuery(sql) \/ simple_query(sql)
    \/ \E d \in Inputs : bind(d)
    \/ NewCommand(<<2, 5>>)
    \/ \E d \in Inputs, n \in InputNames : bind_param(n, d) \/ bind_out_param(n, d)
    \/ \E t \in TableTypes, n \in InputNames : bind_table(n, t)
    \/ ExecQuery \/ ExecCommand \/ ServerReads
    \/ \E kind \in DOMAIN TransactionType, level \in Levels,
          n \in InputNames \cup {Anonymous} : Transact(kind, level, n)
    \/ \E schema \in Schemas, options \in SUBSET {"KEEP_IDENTITY", "TABLOCK"},
          hints \in {<<>>, <<<<"a">>>>, <<<<"a", "-">>>>} :
          bulk_insert_with_options(schema, options, hints)
StatementStep == /\ part = "statements" /\ Statement
                 /\ UNCHANGED <<part, codecVars, responseVars, readVars, lookupVars,
                                openingVars, textVars, wrapperVars>>

ResponseStep == /\ part = "responses" /\ ResponseNext
                /\ UNCHANGED <<part, codecVars, statementVars, readVars, lookupVars,
                               openingVars, textVars, wrapperVars>>

NotReads == <<part, codecVars, statementVars, responseVars, lookupVars, openingVars, textVars,
              wrapperVars>>
ArriveStep == part = "reads" /\ Arrive /\ UNCHANGED NotReads
HangupStep == part = "reads" /\ Hangup /\ UNCHANGED NotReads
PollStep == part = "reads" /\ Poll /\ UNCHANGED NotReads

NotLookup == <<part, codecVars, statementVars, responseVars, readVars, openingVars, textVars,
               wrapperVars>>
ResolveStep == part = "lookup" /\ AskFor /\ UNCHANGED NotLookup
ClientStep == part = "lookup" /\ Client /\ UNCHANGED NotLookup
StrayStep == part = "lookup" /\ Stray /\ UNCHANGED NotLookup
TimerStep == part = "lookup" /\ Timer /\ UNCHANGED NotLookup
NetworkStep == part = "lookup" /\ Network /\ UNCHANGED NotLookup

OpeningStep == /\ part = "opening" /\ OpeningNext
               /\ UNCHANGED <<part, codecVars, statementVars, responseVars, readVars,
                              lookupVars, textVars, wrapperVars>>

TextStep == /\ part = "texts" /\ TextNext
            /\ UNCHANGED <<part, codecVars, statementVars, responseVars, readVars,
                           lookupVars, openingVars, wrapperVars>>

WrapperStep == /\ part = "tls" /\ WrapperNext
               /\ UNCHANGED <<part, codecVars, statementVars, responseVars, readVars,
                              lookupVars, openingVars, textVars>>

Next == \/ CodecStep \/ StatementStep \/ ResponseStep
        \/ ArriveStep \/ HangupStep \/ PollStep
        \/ ResolveStep \/ ClientStep \/ StrayStep \/ TimerStep \/ NetworkStep
        \/ OpeningStep \/ TextStep \/ WrapperStep

\* The executor polls a task that was woken; the runtime's timer fires; a
\* server that has not hung up sends the rest of its response.
Spec == /\ Init /\ [][Next]_libraryVars
        /\ WF_libraryVars(ArriveStep) /\ WF_libraryVars(PollStep)
        /\ WF_libraryVars(ClientStep) /\ WF_libraryVars(TimerStep)
        /\ WrapperFairness

\* Whoever waits for the network gets an answer: a reader of a response, and
\* the look-up of a server (sql_read_bytes.rs, connect_named).
WaitsEnd == ReadEnds /\ LookupEnds

-----------------------------------------------------------------------------
(* Values of the constants.                                                 *)

MCBuckets == <<2, 4, 7>>

Latin == <<1033, 0>>
ChineseTaiwan == <<0, 196>>
Chinese == <<2052, 0>>
Dos == <<1033, 49>>
NoPage == <<1, 0>>
\* Of the two tables the rows of the collations in use; 0x409, 0x804, sort 196.
MCLcidPages == (1033 :> "windows_1252") @@ (2052 :> "gb18030")
MCSortIdPages == (196 :> "big5")
MCPages == (Latin :> "windows_1252") @@ (ChineseTaiwan :> "big5")
           @@ (Chinese :> "gb18030") @@ (Dos :> "cp850")

\* Lengths on both sides of every limit: two-byte lengths end at 15, a
\* parameter is MAX from 6 bytes of UTF-8 on.
MCStrings == {<<0, 0>>} \cup
             {<<n, script>> : n \in {2, 4, 6, 8}, script \in {Ascii, Accented, Han, Emoji}}
MCBinaries == {<<0, 0>>} \cup {<<n, 5>> : n \in {1, 8, 9, 12, 13, 15, 16}}
MCInts == {<<0>>, <<1>>, <<3>>}
MCNumerics == {<<v, s>> : v \in {0, 1, -1, 15, -15, 999, 12345, -99995, 1234567, 123456789},
                          s \in 0..5}
MCMoney == {<<v>> : v \in {0, NaN, 15, -14, -15, 5000001, -2000005, 1274, 1275, -1285, -1284}}
MCMoneyNumerics == {<<12, 0>>, <<127, 4>>, <<128, 4>>, <<-12345, 6>>, <<-12350, 6>>}

Datum(k, v) == [k |-> k, v |-> v]
WithNull(k, S) == {Datum(k, v) : v \in S \cup {<<>>}}

MCColumns ==
    {<<Sized("Bitn", 1), WithNull("Bit", {<<0>>, <<1>>})>>,
     <<Sized("Intn", 1), WithNull("U8", MCInts)>>,
     <<Sized("Intn", 2), WithNull("I16", MCInts)>>,
     <<Sized("Intn", 8), WithNull("I64", MCInts)>>,
     <<Fixed("Int4"), WithNull("I32", MCInts)>>,
     <<Sized("Floatn", 4), WithNull("F32", MCInts)>>,
     <<Sized("Floatn", 8), WithNull("F64", MCInts)>>,
     <<Sized("Money", 8), WithNull("F64", MCMoney)>>,
     <<Sized("Money", 4), WithNull("F64", MCMoney)>>,
     <<Fixed("Money4"), WithNull("Numeric", MCMoneyNumerics)>>,
     <<Fixed("Money"), WithNull("Numeric", MCMoneyNumerics)>>,
     <<Sized("Guid", 16), WithNull("Guid", MCInts)>>,
     <<Collated("BigVarChar", 8, Latin), WithNull("String", MCStrings)>>,
     <<Collated("BigVarChar", U16Max, Chinese), WithNull("String", MCStrings)>>,
     <<Collated("BigChar", 8, ChineseTaiwan), WithNull("String", MCStrings)>>,
     <<Collated("BigChar", 8, NoPage), WithNull("String", MCStrings)>>,
     <<Collated("NVarchar", 8, NoPage), WithNull("String", MCStrings)>>,
     <<Collated("NVarchar", U16Max, NoPage), WithNull("String", MCStrings)>>,
     <<Collated("Text", 8, Dos), WithNull("String", MCStrings)>>,
     <<Collated("NText", 8, Dos), WithNull("String", MCStrings)>>,
     <<Sized("BigVarBin", 8), WithNull("Binary", MCBinaries)>>,
     <<Sized("BigVarBin", U16Max), WithNull("Binary", MCBinaries)>>,
     <<XmlType(<<>>), WithNull("Xml", MCStrings \ {<<0, 0>>})>>,
     <<Sized("Datetimen", 8), WithNull("DateTime", {<<0, 0>>, <<3, 7>>})>>,
     <<Sized("Datetimen", 4), WithNull("SmallDateTime", {<<0, 0>>, <<3, 7>>})>>,
     <<Sized("Daten", 3), WithNull("Date", {<<0>>, <<3>>, <<64>>})>>,
     <<Sized("Timen", 2), WithNull("Time", {<<0, 2>>, <<3, 2>>, <<63, 2>>, <<64, 2>>})>>,
     <<Sized("Datetime2", 2),
       WithNull("DateTime2", {<<0, 2, 0>>, <<3, 2, 4>>, <<63, 2, 63>>, <<64, 2, 1>>,
                              <<6, 1, 3>>, <<125, 4, 3>>})>>,
     <<Sized("Datetimen", 8),
       WithNull("DateTime2", {<<0, 2, 0>>, <<3, 2, 34>>, <<63, 2, 63>>, <<7, 1, 3>>,
                              <<125, 4, 33>>, <<3, 5, 34>>})>>,
     <<Sized("DatetimeOffsetn", 2),
       WithNull("DateTimeOffset", {<<0, 2, 0, 0>>, <<3, 2, 4, -1>>, <<63, 2, 63, 4>>,
                                   <<64, 2, 1, 1>>})>>,
     <<Precise("Numericn", 17, 9, 2), WithNull("Numeric", MCNumerics)>>,
     <<Sized("SSVariant", 8),
       WithNull("String", {<<0, 0>>, <<3, Han>>}) \cup WithNull("Numeric", MCNumerics)
       \cup WithNull("I64", MCInts) \cup WithNull("Date", {<<3>>})
       \cup WithNull("Time", {<<3, 2>>}) \cup WithNull("DateTime2", {<<3, 2, 4>>})
       \cup WithNull("Binary", {<<0, 0>>, <<3, 5>>}) \cup WithNull("Guid", MCInts)
       \cup WithNull("DateTimeOffset", {<<3, 2, 4, -1>>})
       \cup WithNull("SmallDateTime", {<<3, 7>>})>>}

MCServerStrings == {Datum("String", <<n, script>>) : n \in {2, 4}, script \in {Ascii, Broken}}
MCBroadcast ==
    {<<Collated("BigVarChar", 8, ChineseTaiwan), {Datum("String", <<4, Broken>>)}>>,
     <<Collated("NVarchar", 8, Latin), MCServerStrings>>,
     <<Collated("NText", 8, Dos), MCServerStrings>>,
     <<XmlType(<<>>), {Datum("Xml", d.v) : d \in MCServerStrings}>>}

Column(name, ti, flags) == [flags |-> flags, ti |-> ti, name |-> name, table |-> <<1, Ascii>>]
IntColumn == Column(<<1, Ascii>>, Sized("Intn", 4), 9)
MCTables ==
    {[cols |-> c, rows |-> r] :
        c \in {<<IntColumn>>} \cup
              {<<IntColumn, Column(name, Collated("BigVarChar", 8, ChineseTaiwan), flags)>> :
                  name \in {<<0, 0>>, <<3, Han>>, <<4, Ascii>>},
                  flags \in {0, 9, 16 + 64, 2 ^ 13 + 2 ^ 5}},
        r \in {<<>>, <<<<Datum("I32", <<3>>)>>>>,
               <<<<Datum("I32", <<3>>), Datum("String", <<3, Han>>)>>,
                 <<Datum("I32", <<>>), Datum("String", <<>>)>>>>}}

MCFields ==
    {<<"bool", Sized("Bitn", 1), {<<>>, <<0>>, <<1>>}>>,
     <<"u8", Sized("Intn", 1), {<<>>, <<3>>}>>, <<"u8", Sized("Intn", 4), {<<>>}>>,
     <<"i16", Sized("Intn", 2), {<<>>, <<3>>}>>, <<"i32", Sized("Intn", 4), {<<>>, <<3>>}>>,
     <<"i32", Sized("Intn", 2), {<<>>}>>,
     <<"i64", Sized("Intn", 8), {<<>>, <<3>>}>>, <<"i64", Sized("Intn", 1), {<<>>}>>,
     <<"f32", Sized("Floatn", 4), {<<>>, <<3>>}>>, <<"f64", Sized("Floatn", 8), {<<>>, <<3>>}>>,
     <<"String", Collated("NVarchar", 8, Latin), {<<>>, <<0, 0>>, <<3, Han>>}>>,
     <<"Vec", Sized("BigVarBin", 8), {<<>>, <<0, 0>>, <<3, 5>>}>>,
     <<"Numeric", Precise("Numericn", 17, 9, 2), {<<>>, <<15, 2>>, <<-99999, 2>>}>>,
     <<"XmlData", XmlType(<<>>), {<<>>, <<3, Ascii>>}>>,
     <<"Uuid", Sized("Guid", 16), {<<>>, <<3>>}>>,
     <<"NaiveDate", Sized("Daten", 3), {<<>>, <<3>>}>>,
     <<"NaiveTime", Sized("Timen", 2), {<<>>, <<1250>>, <<999>>}>>,
     <<"NaiveDateTime", Sized("Datetime2", 2), {<<>>, <<3, 1250>>, <<3, 999>>}>>,
     <<"Utc", Sized("Datetime2", 2), {<<>>, <<3, 1250>>}>>,
     <<"FixedOffset", Sized("DatetimeOffsetn", 2), {<<>>, <<3, 1250, -2>>}>>}

MCInputs == {Datum("I32", <<3>>), Datum("String", <<2, Han>>), Datum("String", <<8, Ascii>>),
             Datum("Binary", <<>>), Datum("Numeric", <<-15, 2>>)}
MCInputNames == {<<2, 11>>, <<4, 12>>}

Nameless(ti, flags) == [flags |-> flags, ti |-> ti, name |-> <<0, 0>>, table |-> <<0, 0>>]
MCTableTypes ==
    {[db_type |-> n,
      cols |-> <<Nameless(Fixed("Int4"), 8), Nameless(Collated("NVarchar", 8, Latin), 9)>>,
      rows |-> <<<<Datum("I32", <<1>>), Datum("String", <<2, Han>>)>>,
                 <<Datum("I32", <<>>), Datum("String", <<>>)>>>>] :
        n \in {<<"a">>, <<"a", ".", "A">>, <<"a", "-">>, <<"a", "a", "a", "a">>,
               <<"[", "a", "]">>, <<"a", ".", "[", "A", "]">>, <<"a", ".", "a", ".", "A">>}}
    \cup {[db_type |-> <<"a">>, cols |-> <<>>, rows |-> <<>>]}

Kept2(name, collation) == [name |-> name, collation |-> collation]
Selected(name, ti, flags) == [flags |-> flags, ti |-> ti, name |-> name, table |-> <<>>]
Varchar == Collated("BigVarChar", 8, Latin)
CaseSensitive == <<Kept2(<<"a">>, <<"A">>), Kept2(<<"A">>, <<"A", "_">>)>>
MCSchemas ==
    {[table |-> t, ask |-> <<<<"*">>>>, columns |-> c[1], selected |-> c[2]] :
        t \in {<<"a">>, <<"a", "-">>},
        c \in {<<CaseSensitive, <<Selected(<<"a">>, Varchar, 9), Selected(<<"A">>, Varchar, 4)>>>>,
               <<CaseSensitive, <<Selected(<<"A">>, Collated("NVarchar", 8, Latin), 9)>>>>,
               <<<<Kept2(<<"a">>, <<"A">>), Kept2(<<"_">>, <<>>)>>,
                 <<Selected(<<"A">>, Varchar, 9), Selected(<<"_">>, Sized("Intn", 4), 16)>>>>,
               <<<<Kept2(<<"a">>, <<"-">>)>>, <<Selected(<<"a">>, Varchar, 9)>>>>}}

MCResultSets ==
    {[cols |-> <<>>, rows |-> {}],
     [cols |-> <<IntColumn, Column(<<0, 0>>, Collated("NVarchar", 8, Latin), 9),
                 Column(<<2, Han>>, Sized("Datetimen", 8), 9)>>,
      rows |-> {<<Datum("I32", a), Datum("String", b), Datum("DateTime", c)>> :
                   a \in {<<>>, <<3>>}, b \in {<<>>, <<2, Han>>}, c \in {<<>>, <<1, 2>>}}],
     [cols |-> <<Column(<<1, Ascii>>, Collated("NText", 8, Latin), 9)>>,
      rows |-> {<<Datum("String", <<3, Accented>>)>>, <<Datum("String", <<>>)>>}]}

IntField(at, w) == [kind |-> "int", width |-> w, count |-> 0, at |-> at]
Str(at, w, n) == [kind |-> "string", width |-> w, count |-> n, at |-> at]
Run(at, n) == [kind |-> "bytes", width |-> 0, count |-> n, at |-> at]
MCLayouts == {<<IntField(0, 2), Str(2, 2, 2), IntField(8, 1)>>,
              <<Str(0, 1, 0), Str(1, 1, 2), Run(6, 5)>>}

Crate(backend, tds80, webpki, login) ==
    [tls |-> backend, tds80 |-> tds80, webpki |-> webpki, login |-> login]
MCBuilds == {Crate("rustls", TRUE, TRUE, "sql"), Crate("native-tls", FALSE, FALSE, "winauth"),
             Crate("vendored-openssl", TRUE, FALSE, "gssapi"),
             Crate("none", FALSE, FALSE, "sspi-rs")}

Ca(kind, ext, body) == [kind |-> kind, ext |-> ext, body |-> body]
MCExtraCas == {Ca("File", "pem", "pem"), Ca("File", "crt", "empty"), Ca("File", "der", "noise"),
               Ca("Bundle", "", "bom"), Ca("Bundle", "", "empty"), Ca("File", "txt", "pem"),
               Ca("File", "pem", "missing"), Ca("File", "pem", "broken")}

Maybe(key, vs) == {<<>>} \cup {key :> v : v \in vs}
AdoServers == {[parts |-> <<<<"db">>>>], [parts |-> <<<<"(local)", "SQLEXPRESS">>, 70000>>],
               [parts |-> <<<<"db", "SQLEXPRESS">>, 4200>>]}
MCDicts ==
    {[kind |-> "ado", dict |-> ("database" :> "master") @@ s @@ e @@ t @@ c] :
        s \in Maybe("server", AdoServers),
        e \in Maybe("encrypt", {"true", "no", "strict", "maybe", "DANGER_PLAINTEXT"}),
        t \in Maybe("trustservercertificate", {"yes", "no", "huh"}),
        c \in Maybe("trustservercertificateca", {Ca("File", "pem", "pem")})}
    \cup
    {[kind |-> "jdbc", dict |-> s @@ u @@ i @@ m] :
        s \in Maybe("server", {[host |-> "db", port |-> 4200, instance |-> None]}),
        u \in Maybe("uid", {<<"dom", "sa">>}),
        i \in Maybe("integrated security", {"sspi", "no", "huh"}),
        m \in Maybe("multisubnetfailover", {"true", "huh"})}

MCCertificates == {[root |-> r, name |-> n] : r \in {"public", "corporate", "nobody"},
                                              n \in {"db", "localhost"}}

MCNameChars == {"a", ".", "[", "]", "(", ")", " ", "'", "-"}
MCValueChars == {"a", "'", "\"", "{", "}", ";", "=", Space}

=============================================================================
