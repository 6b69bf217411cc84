------------------------------ MODULE Requests ------------------------------
(***************************************************************************)
(* What the client sends: tds/codec/{login,pre_login,rpc_request,           *)
(* transaction_manager,batch_request}.rs.                                   *)
(*                                                                         *)
(* A text of PRELOGIN and LOGIN7 is <<units, content>>, as elsewhere.  The  *)
(* two messages are tables of offsets and lengths with the data behind      *)
(* them: what matters is that whoever follows an entry finds its text.      *)
(***************************************************************************)
EXTENDS Rows

CONSTANT OffsetBase   \* the offsets of LOGIN7 are kept modulo this (2^16)

NoText == <<0, <<>>>>

\* encode_all_headers_tx: one header, the transaction descriptor, and one
\* outstanding request.
AllHeaders(desc) == U(4, 22) \o U(4, 18) \o U(2, 2) \o U(8, desc) \o U(4, 1)

-----------------------------------------------------------------------------
(* login.rs                                                                 *)

\* FeatureLevel::default (the newest, see FeatureLevels in Tokens), the
\* OptionFlag2 and OptionFlag3 of LoginMessage::new, and the bits that the
\* setters add: an SSPI blob, read-only intent, a feature extension.
TdsVersion == 9999
Flags2 == 3
Flags3 == 8
IntegratedSecurity == 128
ReadOnlyIntent == 32
ExtensionUsed == 16

\* LoginMessage::new.  get_hostname: the name of the machine, or nothing.
LoginMessage(machine) ==
    [packet_size |-> 4096, flags1 |-> 96, flags2 |-> Flags2, flags3 |-> Flags3,
     type_flags |-> 0, hostname |-> machine, username |-> NoText,
     password |-> NoText, app_name |-> <<8, <<"tiberius">>>>,
     server_name |-> NoText, db_name |-> NoText, sspi |-> <<>>, fed_auth |-> <<>>]

\* The setters that do more than assign.
integrated_security(m, bytes) ==
    [m EXCEPT !.sspi = bytes,
              !.flags2 = Flags2 + IF bytes = <<>> THEN 0 ELSE IntegratedSecurity]
login_readonly(m, ro) == [m EXCEPT !.type_flags = IF ro THEN ReadOnlyIntent ELSE 0]
aad_token(m, token, echo, nonce) ==
    [m EXCEPT !.flags3 = Flags3 + ExtensionUsed,
              !.fed_auth = Some([token |-> token, echo |-> echo, nonce |-> nonce])]

FixedOverhead == 94
FedAuthOverhead == 15

\* encoded_len: what is reserved before any secret is written.
encoded_len(m) ==
    LET texts == {"hostname", "username", "password", "app_name", "server_name", "db_name"}
        fed == IF m.fed_auth = <<>> THEN 0
               ELSE FedAuthOverhead + 2 * m.fed_auth[1].token[1]
                    + IF m.fed_auth[1].nonce = <<>> THEN 0 ELSE 32
        sspi == IF m.sspi = <<>> THEN 0 ELSE m.sspi[1]
    IN FixedOverhead + FoldSet(LAMBDA f, n : n + 2 * m[f][1], 0, texts) + sspi + fed

\* The password with its nibbles swapped and XORed.
Scramble(text) == IF text[1] = 0 THEN text ELSE <<text[1], Append(text[2], "scrambled")>>

\* var_data: what the thirteen entries of the table point at, in bytes.
VarData(m) ==
    LET wide(text) == <<2 * text[1], text[2]>>
        none == <<0, <<>>>>
    IN <<wide(m.hostname), wide(m.username), wide(Scramble(m.password)),
         wide(m.app_name), wide(m.server_name), none, none, none,
         wide(m.db_name), none, IF m.sspi = <<>> THEN none ELSE m.sspi, none, none>>

ClientId == 10
SspiEntry == 11
ExtensionEntry == 6

\* A slip: the offset advances by the characters that were written.
OffsetsInCharacters(data) ==
    [i \in 1..(Len(data) + 1) |->
        FixedOverhead + FoldLeft(LAMBDA n, j : n + data[j][1] \div 2, 0, [j \in 1..(i - 1) |-> j])]

\* data_offset before each entry, and behind the last.
Offsets(data) ==
    [i \in 1..(Len(data) + 1) |->
        FixedOverhead + FoldLeft(LAMBDA n, j : n + data[j][1], 0, [j \in 1..(i - 1) |-> j])]

\* One feature: the token of a federated login, its echo bit and nonce.
FeatureExt(at, fed) ==
    LET nonce == IF fed.nonce = <<>> THEN <<>> ELSE U(32, fed.nonce[1])
        bytes == 2 * fed.token[1]
    IN U(4, at + 4) \o U(1, 2) \o U(4, 5 + bytes + Bytes(nonce)) \o
       U(1, 2 + IF fed.echo THEN 1 ELSE 0) \o U(4, bytes) \o
       Blob(bytes, fed.token[2]) \o nonce \o U(1, 255)

\* encode_to_boxed_slice.  Offsets and lengths are cut to two bytes.
LoginEncode(m) ==
    LET data == VarData(m)
        at == Offsets(data)
        cut(n) == n % OffsetBase
        fed == m.fed_auth # <<>>
        entry(i) == IF i = ClientId THEN U(4, 0) \o U(2, 42)
                    ELSE IF i = SspiEntry THEN U(2, cut(at[i])) \o U(2, cut(data[i][1]))
                    ELSE IF i = ExtensionEntry /\ fed
                    THEN U(2, cut(at[Len(data) + 1])) \o U(2, 4)
                    ELSE U(2, cut(at[i])) \o U(2, cut(data[i][1]) \div 2)
        table == FlattenSeq([i \in 1..Len(data) |-> entry(i)])
        texts == FlattenSeq([i \in 1..Len(data) |-> Blob(data[i][1], data[i][2])])
        ext == IF fed THEN FeatureExt(at[Len(data) + 1], m.fed_auth[1]) ELSE <<>>
        total == FixedOverhead + Bytes(texts) + Bytes(ext)
    IN U(4, total) \o U(4, TdsVersion) \o U(4, m.packet_size) \o U(4, 0) \o U(4, 0) \o U(4, 0)
       \o U(1, m.flags1) \o U(1, m.flags2) \o U(1, m.type_flags) \o U(1, m.flags3)
       \o U(4, 0) \o U(4, 0) \o table \o U(4, 0) \o texts \o ext

-----------------------------------------------------------------------------
(* The server's side of LOGIN7: entry i of the table, and what is there.    *)

LoginEntry(buf, i) ==
    LET skip == IF i > ClientId THEN 2 ELSE 0
        wide == IF i \in {SspiEntry, ExtensionEntry} THEN 1 ELSE 2
    IN On(Take(At(buf, 36 + 4 * (i - 1) + skip), 2), LAMBDA offset :
       On(Take(offset, 2), LAMBDA len :
           IF len.v = 0 THEN Yield(len, [at |-> offset.v, bytes |-> 0, text |-> <<>>])
           ELSE On(Take(At(buf, offset.v), wide * len.v), LAMBDA t :
                    Yield(t, [at |-> offset.v, bytes |-> wide * len.v, text |-> t.v]))))

\* The feature data behind the extension entry, and its end.
LoginFeature(buf) ==
    LET options(body) ==
            On(Take(body, 1), LAMBDA bits : On(Take(bits, 4), LAMBDA size :
            On(TakeBlob(size, size.v), LAMBDA token :
            On(IF token.rest = <<>> THEN Yield(token, <<>>)
               ELSE On(Take(token, 32), LAMBDA n : Yield(n, <<n.v>>)), LAMBDA nonce :
                Yield(nonce, [echo |-> bits.v % 2 = 1, token |-> <<size.v \div 2, token.v>>,
                              nonce |-> nonce.v])))))
    IN On(LoginEntry(buf, ExtensionEntry), LAMBDA ext :
       On(Take(At(buf, ext.v.at), 4), LAMBDA pointer :
       On(Take(Take(At(buf, pointer.v), 1), 4), LAMBDA len :
       On(Scoped(len, len.v, options), LAMBDA feature :
       On(Take(feature, 1), LAMBDA end :
           IF end.v # 255 THEN Bad(end) ELSE Yield(end, feature.v))))))

-----------------------------------------------------------------------------
(* pre_login.rs                                                             *)

PreloginCode == [version |-> 0, encryption |-> 1, instance |-> 2, thread |-> 3,
                 mars |-> 4, trace |-> 5, fedauth |-> 6, nonce |-> 7]
EncryptionByte == [Off |-> 0, On |-> 1, NotSupported |-> 2, Required |-> 3, Strict |-> 8]

PreloginMessage ==
    [version |-> 1, encryption |-> "NotSupported", instance |-> <<>>, thread |-> 0,
     mars |-> 0, trace |-> <<>>, fedauth |-> FALSE, nonce |-> <<>>]

\* The options as <<code, units of their data>>.
PreloginFields(m) ==
    LET opt(name, units) == <<[code |-> PreloginCode[name], data |-> units]>>
        inst == IF m.instance = <<>> THEN <<>> ELSE Blob(m.instance[1], m.instance[2])
    IN opt("version", U(4, m.version) \o U(2, 0)) \o
       opt("encryption", U(1, EncryptionByte[m.encryption])) \o
       opt("instance", inst \o U(1, 0)) \o
       opt("thread", U(4, m.thread)) \o opt("mars", U(1, m.mars)) \o
       (IF m.trace = <<>> THEN <<>>
        ELSE opt("trace", U(16, reorder_bytes(<<m.trace[1]>>)[1]) \o U(4, m.trace[2]))) \o
       (IF m.fedauth THEN opt("fedauth", U(1, 1)) ELSE <<>>)

\* Five bytes of table for an option, and one for the terminator.
PreloginTable(fields) == Len(fields) * 5 + 1

PreloginEncode(m) ==
    LET fields == PreloginFields(m)
        at(i) == PreloginTable(fields) +
                 FoldLeft(LAMBDA n, j : n + Bytes(fields[j].data), 0, [j \in 1..(i - 1) |-> j])
        entry(i) == U(1, fields[i].code) \o U(2, at(i)) \o U(2, Bytes(fields[i].data))
    IN FlattenSeq([i \in 1..Len(fields) |-> entry(i)]) \o U(1, 255) \o
       FlattenSeq([i \in 1..Len(fields) |-> fields[i].data])

\* One option of a received PRELOGIN, from the offset its entry gives.
PreloginOption(m, code, r, len) ==
    LET first == Take(r, 1)
        text == Take(r, r.rest[1][1])
        level == {e \in DOMAIN EncryptionByte : EncryptionByte[e] = first.v}
        id == Take(r, 16)
        sequence == Take(id, 4)
        is(name) == code = PreloginCode[name]
    IN CASE is("version") -> [m EXCEPT !.version = Take(r, 4).v]
         [] is("encryption") -> [m EXCEPT !.encryption = CHOOSE e \in level : TRUE]
         [] is("instance") -> IF first.v = 0 /\ ~first.bad THEN m
                              ELSE [m EXCEPT !.instance = <<r.rest[1][1], text.v>>]
         [] is("thread") -> [m EXCEPT !.thread = IF len = 0 THEN 0 ELSE Take(r, 4).v]
         [] is("mars") -> [m EXCEPT !.mars = first.v]
         [] is("trace") -> [m EXCEPT !.trace = <<reorder_bytes(<<id.v>>)[1], sequence.v>>]
         [] is("fedauth") -> [m EXCEPT !.fedauth = first.v # 0]
         [] is("nonce") -> [m EXCEPT !.nonce = <<Take(r, 32).v>>]

\* decode: entries until the terminator; an unknown option, an encryption
\* level without a name, a thread id of an odd size, data that is not there:
\* an error.
PreloginDecode(buf) ==
    LET fits(code, r, len) ==
            LET first == Take(r, 1)
            IN CASE code = PreloginCode.encryption ->
                      ~first.bad /\ \E e \in DOMAIN EncryptionByte : EncryptionByte[e] = first.v
                 [] code = PreloginCode.thread -> len = 0 \/ (len = 4 /\ ~Take(r, 4).bad)
                 [] code = PreloginCode.trace -> ~Take(Take(r, 16), 4).bad
                 [] code = PreloginCode.nonce -> ~Take(r, 32).bad
                 [] code = PreloginCode.version -> ~Take(Take(r, 4), 2).bad
                 [] code = PreloginCode.instance ->
                      /\ r.rest # <<>>
                      /\ (first.bad \/ first.v # 0) => ~Take(Take(r, r.rest[1][1]), 1).bad
                 [] code \in {PreloginCode.mars, PreloginCode.fedauth} -> ~first.bad
                 [] OTHER -> FALSE
        next(s, u) ==
            LET code == Take(s.at, 1)
                offset == Take(code, 2)
                len == Take(offset, 2)
                data == At(buf, offset.v)
            IN IF s.done \/ s.at.bad THEN s
               ELSE IF code.v = 255 /\ ~code.bad THEN [s EXCEPT !.done = TRUE]
               ELSE IF len.bad \/ ~fits(code.v, data, len.v) THEN [s EXCEPT !.at = Bad(@)]
               ELSE [s EXCEPT !.at = len, !.msg = PreloginOption(@, code.v, data, len.v)]
        last == FoldLeft(next, [at |-> Reader(buf), done |-> FALSE, msg |-> PreloginMessage], buf)
    IN IF last.done THEN Ok(last.msg) ELSE Err("prelogin")

-----------------------------------------------------------------------------
(* rpc_request.rs                                                           *)

\* A parameter by its value, or a table (TvpEncode).
RpcParamEncode(p) ==
    Then(Then(encode_b_varchar(p.name), Ok(U(1, p.flags))),
         IF p.table = <<>> THEN ColumnDataEncode(p.value, NoType)
         ELSE TvpEncode(p.table.schema, p.table.name, p.table.cols, p.table.rows))

\* A well-known procedure is its number behind 0xffff, any other its name.
RpcEncode(req) ==
    LET proc == IF req.proc.id # 0 THEN Ok(U(4, req.proc.id * Holds(2) + U16Max))
                ELSE encode_us_varchar(req.proc.name)
    IN FoldLeft(LAMBDA out, p : Then(out, RpcParamEncode(p)),
                Then(Then(Ok(AllHeaders(req.desc)), proc), Ok(U(2, 0))), req.params)

-----------------------------------------------------------------------------
(* transaction_manager.rs, batch_request.rs                                 *)

TransactionType == [begin |-> 5, commit |-> 7, rollback |-> 8, save |-> 9]

\* Begin carries an isolation level; commit and rollback end with flags that
\* ask for no new transaction.
TransactionEncode(desc, kind, level, name) ==
    Then(Then(Ok(AllHeaders(desc) \o U(2, TransactionType[kind]) \o
                 (IF kind = "begin" THEN U(1, level) ELSE <<>>)),
              encode_b_varchar(name)),
         Ok(IF kind \in {"commit", "rollback"} THEN U(1, 0) ELSE <<>>))

BatchEncode(desc, text) == AllHeaders(desc) \o Utf16(text)

=============================================================================
