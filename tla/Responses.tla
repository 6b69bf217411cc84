----------------------------- MODULE Responses -----------------------------
(***************************************************************************)
(* tds/stream/token.rs (try_unfold and the get_* functions) over the        *)
(* decoders of Tokens and Rows, with tds/context.rs: a server sends tokens, *)
(* the client reads them one after the other.  Nothing but the decoders     *)
(* themselves says where a token ends, and some can be read only with what  *)
(* earlier tokens left in the Context.                                      *)
(***************************************************************************)
EXTENDS Tokens

CONSTANTS
    ResultSets, \* [cols |-> columns, rows |-> set of rows] the server may send
    MaxTokens   \* tokens of a response (bound)

VARIABLES
    wire,       \* units sent and not read
    sent,       \* the tokens they were meant to be
    srv,        \* the server's side of the session
    seen,       \* the tokens the client has read
    context,    \* the client's Context
    failed      \* the stream ended with an error

responseVars == <<wire, sent, srv, seen, context, failed>>

\* Context::new.  The alternative metadata is kept by compute id.
NewContext == [cols |-> <<>>, alts |-> <<>>, version |-> 9999, packet_size |-> 4096,
               desc |-> 0]

ResponseInit ==
    /\ wire = <<>> /\ sent = <<>> /\ seen = <<>> /\ failed = FALSE
    /\ srv = NewContext /\ context = NewContext

-----------------------------------------------------------------------------
(* The server                                                               *)

\* TokenType
TokenByte ==
    [ReturnStatus |-> 121, ColMetaData |-> ColMetaDataToken, AltMetaData |-> 136,
     TabName |-> 164, ColInfo |-> 165, Order |-> 169, Error |-> 170, Info |-> 171,
     ReturnValue |-> 172, LoginAck |-> 173, FeatureExtAck |-> 174, Row |-> RowToken,
     NbcRow |-> NbcRowToken, AltRow |-> 211, EnvChange |-> 227, SessionState |-> 228,
     Sspi |-> 237, FedAuthInfo |-> 238, Done |-> 253, DoneProc |-> 254, DoneInProc |-> 255]

\* A token is sent whole; the server's own state follows.
Send(name, units, tok, session) ==
    /\ seen = <<>> /\ ~failed /\ Len(sent) < MaxTokens
    /\ wire' = wire \o U(1, TokenByte[name]) \o units
    /\ sent' = Append(sent, tok) /\ srv' = session
    /\ UNCHANGED <<seen, context, failed>>

Counted(width, units) == U(width, Bytes(units)) \o units
Byte(s) == encode_b_varchar(s).ok
Short(s) == encode_us_varchar(s).ok
\* A newer server may put more into a body that has a length.
Newer == {<<>>, U(1, 9)}

Text == <<1, Ascii>>
NoString == <<0, 0>>

\* A column as the server describes it: the tables behind TEXT, NTEXT and
\* IMAGE in parts.
Described(col) ==
    U(4, 0) \o U(2, col.flags) \o TypeInfoEncode(col.ti).ok \o
    (IF col.ti.ty \in Pointers THEN U(1, 2) \o Short(Text) \o Short(col.table) ELSE <<>>)
Decoded(col) == [col EXCEPT !.flags = from_bits_truncate(@), !.table = NoString]

SendColMetaData ==
    \E rs \in ResultSets :
        LET cols == rs.cols
            column(i) == Described(cols[i]) \o Byte(cols[i].name)
            count == IF cols = <<>> THEN U16Max ELSE Len(cols)
        IN Send("ColMetaData",
                U(2, count) \o FlattenSeq([i \in 1..Len(cols) |-> column(i)]),
                Tok("meta", [i \in 1..Len(cols) |-> Decoded(cols[i])]),
                [srv EXCEPT !.cols = cols])

Types(cols) == [i \in 1..Len(cols) |-> cols[i].ti]

\* A row of the current result set, in either form.
SendRow ==
    \E rs \in ResultSets : \E row \in rs.rows :
        /\ rs.cols = srv.cols /\ srv.cols # <<>>
        /\ \/ Send("Row", ValuesEncode(row, Types(srv.cols)).ok, Tok("row", row), srv)
           \/ Send("NbcRow", Tail(NbcRowEncode(row, Types(srv.cols)).ok), Tok("row", row), srv)

\* COMPUTE: the columns of an id, and a row of them.
SendAltMetaData ==
    \E rs \in ResultSets : \E id \in {1, 2} :
        LET cols == rs.cols
            column(i) == U(1, 77) \o U(2, i) \o Described(cols[i]) \o Byte(cols[i].name)
        IN Send("AltMetaData",
                U(2, Len(cols)) \o U(2, id) \o U(1, 1) \o U(2, 1) \o
                    FlattenSeq([i \in 1..Len(cols) |-> column(i)]),
                Tok("altmeta", <<id, <<1>>, [i \in 1..Len(cols) |->
                                               <<77, i, cols[i].ti, cols[i].name>>]>>),
                [srv EXCEPT !.alts = (id :> Types(cols)) @@ @])

SendAltRow ==
    \E rs \in ResultSets : \E row \in rs.rows : \E id \in DOMAIN srv.alts :
        /\ Types(rs.cols) = srv.alts[id]
        /\ Send("AltRow", U(2, id) \o ValuesEncode(row, srv.alts[id]).ok,
                Tok("altrow", <<id, row>>), srv)

SendDone ==
    \E name \in {"Done", "DoneProc", "DoneInProc"}, status \in {0, 1, 16, 32} :
        Send(name, U(2, status) \o U(2, 193) \o U(IF Since2005(srv.version) THEN 8 ELSE 4, 3),
             Tok("done", <<status, 193, IF status = 16 THEN 3 ELSE 0>>), srv)

SendReturnStatus == Send("ReturnStatus", U(4, 6), Tok("status", 6), srv)

SendReturnValue ==
    LET value == [k |-> "I32", v |-> <<5>>]
        ti == Sized("Intn", 4)
        col == [flags |-> 0, ti |-> ti, name |-> NoString, table |-> NoString]
    IN Send("ReturnValue",
            U(2, 0) \o Byte(Text) \o U(1, 1) \o Described(col) \o ColumnDataEncode(value, ti).ok,
            Tok("returnvalue", <<0, Text, 1, value>>), srv)

SendMessage ==
    \E name \in {"Error", "Info"}, more \in Newer :
        LET line == IF Since2005(srv.version) THEN 4 ELSE 2
        IN Send(name,
                Counted(2, U(4, 208) \o U(1, 1) \o U(1, 16) \o Short(Text) \o Byte(NoString) \o
                           Byte(Text) \o U(line, 7) \o more),
                Tok(name, <<208, 1, 16, Text, NoString, Text, 7>>), srv)

SendOrder == Send("Order", U(2, 4) \o U(2, 2) \o U(2, 1), Tok("order", <<2, 1>>), srv)

SendColInfo ==
    Send("ColInfo", Counted(2, U(1, 1) \o U(1, 1) \o U(1, 8) \o
                               U(1, 2) \o U(1, 1) \o U(1, 32) \o Byte(Text) \o
                               U(1, 3) \o U(1, 0) \o U(1, 4)),
         Tok("colinfo", <<<<1, 1, 8, <<>>>>, <<2, 1, 32, <<Text>>>>, <<3, 0, 4, <<>>>>>>), srv)

SendTabName ==
    Send("TabName", Counted(2, U(1, 1) \o Short(Text) \o U(1, 2) \o Short(Text) \o Short(Text)),
         Tok("tabname", <<<<Text>>, <<Text, Text>>>>), srv)

\* What changes in the server's session, and how it says so.
EnvChanges ==
    {[body |-> U(1, EnvCode.database) \o Byte(Text) \o Byte(NoString),
      tok |-> Tok("database", <<Text, NoString>>), session |-> srv],
     [body |-> U(1, EnvCode.packetsize) \o Byte(<<2, 8192>>) \o Byte(<<2, 4096>>),
      tok |-> Tok("packetsize", <<8192, 4096>>),
      session |-> [srv EXCEPT !.packet_size = 8192]],
     [body |-> U(1, EnvCode.packetsize) \o Byte(<<1, 511>>) \o Byte(<<2, 4096>>),
      tok |-> Tok("packetsize", <<511, 4096>>),
      session |-> [srv EXCEPT !.packet_size = 511]],
     [body |-> U(1, EnvCode.collation) \o U(1, 5) \o U(4, 1033) \o U(1, 0) \o U(1, 0),
      tok |-> Tok("collation", <<<<1033, 0>>, <<>>>>), session |-> srv],
     [body |-> U(1, EnvCode.enlist) \o U(1, 8) \o U(8, 2) \o U(1, 0),
      tok |-> Tok("begin", <<2>>), session |-> [srv EXCEPT !.desc = 2]],
     [body |-> U(1, EnvCode.begin) \o U(1, 8) \o U(8, 1) \o U(1, 0),
      tok |-> Tok("begin", <<1>>), session |-> [srv EXCEPT !.desc = 1]],
     [body |-> U(1, EnvCode.mirror) \o Byte(Text) \o U(1, 0),
      tok |-> Tok("mirror", <<Text>>), session |-> srv],
     [body |-> U(1, EnvCode.routing) \o U(2, 7) \o U(1, 0) \o U(2, 1433) \o Short(Text) \o U(2, 0),
      tok |-> Tok("routing", <<1433, Text>>), session |-> srv],
     [body |-> U(1, EnvCode.language) \o Byte(Text) \o Byte(Text),
      tok |-> Tok("ignored", <<EnvCode.language>>), session |-> srv]}
    \cup {[body |-> U(1, EnvCode[end]) \o U(1, 0) \o U(1, 8) \o U(8, srv.desc),
           tok |-> Tok(end, <<>>), session |-> [srv EXCEPT !.desc = 0]] :
              end \in {"commit", "rollback", "defect"}}

SendEnvChange ==
    \E e \in EnvChanges, more \in Newer :
        Send("EnvChange", Counted(2, e.body \o more), e.tok, e.session)

SendLoginAck ==
    \E version \in {2000, 2008}, more \in Newer :
        Send("LoginAck", Counted(2, U(1, 1) \o U(4, version) \o Byte(Text) \o U(4, 9) \o more),
             Tok("loginack", <<1, version, Text, 9>>), [srv EXCEPT !.version = version])

SendSspi == Send("Sspi", Counted(2, U(3, 5)), Tok("sspi", <<3, 5>>), srv)

SendSessionState ==
    Send("SessionState", Counted(4, U(4, 1) \o U(1, 1) \o U(1, 4) \o U(1, 2) \o U(2, 6) \o
                                    U(1, 5) \o U(1, 255) \o U(4, 3) \o U(3, 7)),
         Tok("session", <<1, 1, <<<<4, 2, 6>>, <<5, 3, 7>>>>>>), srv)

SendFedAuthInfo ==
    Send("FedAuthInfo", Counted(4, U(4, 2) \o U(1, 2) \o U(4, 2) \o U(4, 22) \o
                                   U(1, 1) \o U(4, 4) \o U(4, 24) \o U(2, 8) \o U(4, 9)),
         Tok("fedauth", <<<<2, 9>>, <<1, 8>>>>), srv)

SendFeatureExtAck ==
    \E nonce \in {0, 32} :
        Send("FeatureExtAck", U(1, 2) \o U(4, nonce) \o Blob(nonce, 8) \o U(1, 255),
             Tok("featureack", <<<<nonce, IF nonce = 0 THEN 0 ELSE 8>>>>), srv)

Server ==
    \/ SendColMetaData \/ SendRow \/ SendAltMetaData \/ SendAltRow \/ SendDone
    \/ SendReturnStatus \/ SendReturnValue \/ SendMessage \/ SendOrder \/ SendColInfo
    \/ SendTabName \/ SendEnvChange \/ SendLoginAck \/ SendSspi \/ SendSessionState
    \/ SendFedAuthInfo \/ SendFeatureExtAck

-----------------------------------------------------------------------------
(* The client                                                               *)

\* get_alt_row: an id that was never described is an error.
get_alt_row(r) ==
    On(Take(r, 2), LAMBDA id :
        IF id.v \notin DOMAIN context.alts THEN Bad(r)
        ELSE AltRowDecode(id, id.v, context.alts[id.v]))

\* get_env_change: a packet size outside the protocol's limits is refused.
get_env_change(r) ==
    On(EnvChangeDecode(r), LAMBDA change :
        IF change.v.t = "packetsize" /\ change.v.f[1] \notin 512..32767 THEN Bad(r)
        ELSE change)

\* The decoder of a token; the row forms need the columns of the Context.
DecodeToken(name, r) ==
    LET as(at, t) == On(at, LAMBDA q : Yield(q, Tok(t, q.v)))
        since2005 == Since2005(context.version)
    IN CASE name = "ReturnStatus" -> as(Take(r, 4), "status")
         [] name = "ColMetaData" -> as(MetaDataDecode(r), "meta")
         [] name = "AltMetaData" -> AltMetaDataDecode(r)
         [] name = "Row" -> as(RowDecode(r, Types(context.cols)), "row")
         [] name = "NbcRow" -> as(NbcRowDecode(r, Types(context.cols)), "row")
         [] name = "AltRow" -> get_alt_row(r)
         [] name \in {"Done", "DoneProc", "DoneInProc"} -> DoneDecode(r, since2005)
         [] name = "ReturnValue" -> ReturnValueDecode(r)
         [] name \in {"Error", "Info"} -> ErrorInfoDecode(r, name, since2005)
         [] name = "Order" -> OrderDecode(r)
         [] name = "ColInfo" -> ColInfoDecode(r)
         [] name = "TabName" -> TabNameDecode(r)
         [] name = "EnvChange" -> get_env_change(r)
         [] name = "LoginAck" -> LoginAckDecode(r)
         [] name = "Sspi" -> SspiDecode(r)
         [] name = "SessionState" -> SessionStateDecode(r)
         [] name = "FedAuthInfo" -> FedAuthInfoDecode(r)
         [] name = "FeatureExtAck" -> FeatureExtAckDecode(r)

\* The body of try_unfold's closure: the token byte, and its decoder.
ReadToken(r) ==
    On(Take(r, 1), LAMBDA byte :
        IF TypesOf(TokenByte, byte.v) = {} THEN Bad(r)
        ELSE DecodeToken(CHOOSE n \in TypesOf(TokenByte, byte.v) : TRUE, byte))

\* What the get_* functions leave in the Context.
Remember(c, tok) ==
    CASE tok.t = "meta" -> [c EXCEPT !.cols = tok.f]
      [] tok.t = "altmeta" ->
           [c EXCEPT !.alts = (tok.f[1] :> [i \in DOMAIN tok.f[3] |-> tok.f[3][i][3]]) @@ @]
      [] tok.t = "packetsize" -> [c EXCEPT !.packet_size = tok.f[1]]
      [] tok.t = "begin" -> [c EXCEPT !.desc = tok.f[1]]
      [] tok.t \in {"commit", "rollback", "defect"} -> [c EXCEPT !.desc = 0]
      [] tok.t = "loginack" -> [c EXCEPT !.version = tok.f[2]]
      [] OTHER -> c

Receive ==
    /\ wire # <<>> /\ ~failed
    /\ \E r \in {ReadToken(Reader(wire))} :
         IF r.bad
         THEN failed' = TRUE /\ UNCHANGED <<wire, seen, context>>
         ELSE /\ wire' = r.rest /\ seen' = Append(seen, r.v)
              /\ context' = Remember(context, r.v)
              /\ UNCHANGED failed
    /\ UNCHANGED <<sent, srv>>

ResponseNext == Server \/ Receive

-----------------------------------------------------------------------------
(* Properties                                                               *)

\* Every token is read as it was sent, and the next one starts where it ends:
\* whatever tokens precede it, whichever metadata, row form or server version
\* is in force, and also when a newer server adds to a body that has a
\* length.  Only a packet size the protocol does not allow ends the stream.
TokensFaithful ==
    /\ Len(seen) <= Len(sent) /\ seen = SubSeq(sent, 1, Len(seen))
    /\ (wire = <<>>) <=> (Len(seen) = Len(sent))
    /\ failed => LET tok == sent[Len(seen) + 1] IN tok.t = "packetsize" /\ tok.f[1] < 512

\* When a response has been read, the client has the server's idea of the
\* session: transaction descriptor, packet size, version, and the columns by
\* which the next rows are to be read.
SessionAgrees ==
    wire = <<>> =>
        /\ context.desc = srv.desc /\ context.packet_size = srv.packet_size
        /\ context.version = srv.version /\ context.alts = srv.alts
        /\ Types(context.cols) = Types(srv.cols)

\* A response is read token by token as it was sent, and leaves both sides
\* with the same idea of the session (TokenStream, Context).
ResponsesUnderstood == TokensFaithful /\ SessionAgrees

=============================================================================
