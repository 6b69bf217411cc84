------------------------------ MODULE Opening ------------------------------
(***************************************************************************)
(* How a Config becomes a connection (Connection::connect of                *)
(* client/connection.rs): the Config is put together by setters or from a   *)
(* connection string, then the TLS backend is given its trust settings, and *)
(* PRELOGIN and LOGIN7 are filled from it.  The order of the messages, and  *)
(* what their answers do, is Handshake's subject.                           *)
(***************************************************************************)
EXTENDS TlsTrust, Requests

CONSTANT Certificates   \* what servers show: [root, name]

VARIABLE dial           \* the connection being opened

openingVars == <<build, config, via, calls, panicked, dial>>

NotDialled == [phase |-> "no"]

OpeningIdle ==
    /\ build = CHOOSE b \in Builds : TRUE
    /\ config = Default(build) /\ via = "config" /\ calls = 0 /\ panicked = FALSE
    /\ dial = NotDialled

\* Config::new or Config::builder in one of the builds.
OpeningInit ==
    /\ build \in Builds
    /\ config = Default(build) /\ via \in {"config", "builder"} /\ calls = 0
    /\ panicked = FALSE /\ dial = NotDialled

Configure == dial = NotDialled /\ Setter /\ UNCHANGED dial

\* from_ado_string, from_jdbc_string: the Config, or an error and no Config.
FromString(d) ==
    /\ dial = NotDialled /\ calls = 0 /\ via = "config"
    /\ LET c == from_config_string(d, build)
       IN IF IsErr(c) THEN dial' = [phase |-> "refused", from |-> d] /\ UNCHANGED config
          ELSE dial' = [phase |-> "parsed", from |-> d] /\ config' = c
    /\ UNCHANGED <<build, via, calls, panicked>>

Ready2Dial == ~panicked /\ via = "config" /\ dial.phase \in {"no", "parsed"}

\* tls_handshake: the backend is set up and meets a server's certificate.
TlsHandshake(os, cert) ==
    /\ Ready2Dial /\ HasTls(build) /\ config.encryption # "NotSupported"
    /\ dial' = [phase |-> "tls", os |-> os, cert |-> cert, alpn |-> Alpn(config, build),
                outcome |-> create_tls_stream(config, build, os, cert)]
    /\ UNCHANGED configVars

\* A text of the Config, as <<units, content>>.
TextOf(s) == IF s = None THEN NoText ELSE <<Len(s), <<s>>>>

\* prelogin: what the Config says, and what the server makes of it.
Prelogin ==
    /\ Ready2Dial
    /\ dial' = [phase |-> "prelogin",
                bytes |-> PreloginEncode([PreloginMessage EXCEPT
                    !.encryption = config.encryption,
                    !.fedauth = config.auth.kind = "AADToken",
                    !.instance = IF config.instance_name = None THEN <<>>
                                 ELSE TextOf(config.instance_name)])]
    /\ UNCHANGED configVars

\* login: every field the Config has, and what the authentication adds.  The
\* nonce and the echo come from the server's PRELOGIN; the bytes of SSPI from
\* the security library.
LoginOf(nonce, echo) ==
    LET c == config
        app == IF c.application_name = None THEN LoginMessage(NoText).app_name
               ELSE TextOf(c.application_name)
        machine == IF c.client_name = None THEN <<5, <<"local">>>> ELSE TextOf(c.client_name)
        m == login_readonly(
                 [LoginMessage(machine) EXCEPT
                     !.db_name = TextOf(c.database), !.server_name = TextOf(c.host),
                     !.app_name = app,
                     !.packet_size = IF c.packet_size = None THEN @ ELSE c.packet_size],
                 c.readonly)
    IN CASE c.auth.kind = "SqlServer" ->
              [m EXCEPT !.username = TextOf(c.auth.user[Len(c.auth.user)]),
                        !.password = TextOf(c.auth.password)]
         [] c.auth.kind = "AADToken" -> aad_token(m, TextOf(c.auth.token), echo, nonce)
         [] c.auth.kind \in {"Windows", "Integrated"} ->
              integrated_security(m, <<7, <<"sspi">>>>)
         [] c.auth.kind = "None" -> m

Login ==
    /\ Ready2Dial
    /\ \E nonce \in {<<>>, <<<<"nonce">>>>}, echo \in BOOLEAN :
         /\ config.auth.kind # "AADToken" => nonce = <<>> /\ ~echo
         /\ LET m == LoginOf(nonce, echo)
            IN dial' = [phase |-> "login", message |-> m, bytes |-> LoginEncode(m),
                        reserved |-> encoded_len(m)]
    /\ UNCHANGED configVars

OpeningNext ==
    \/ Configure
    \/ \E d \in Dicts : FromString(d)
    \/ \E os \in {"usable", "empty"}, cert \in Certificates : TlsHandshake(os, cert)
    \/ Prelogin
    \/ Login

OpeningSpec == OpeningInit /\ [][OpeningNext]_openingVars

-----------------------------------------------------------------------------
(* Properties                                                               *)

\* No Config both trusts every certificate and names roots to trust, in
\* whatever order the setters were called, on Config, on the builder or after
\* a conversion between them, or from a connection string.
TrustExclusive ==
    config.trust.bypass => config.trust.extra_cas = <<>> /\ config.trust.source = "Native"

\* The roots the user can mean by a Config: the base set, and the CAs of the
\* sources that hold one.
MeantRoots ==
    (IF config.trust.source = "WebpkiRoots" /\ build.tls = "rustls"
     THEN {"mozilla"} ELSE {"public"}) \cup
    (IF config.trust.extra_cas = <<>> THEN {} ELSE {ExtraRoot})

\* Unless verification was turned off by name, a handshake succeeds only with
\* a certificate of a root the Config means, for the name it means; whichever
\* backend the crate was built with (create_tls_stream, TlsStream::new).
ImposterRejected ==
    dial.phase = "tls" /\ dial.outcome = "established" =>
        \/ config.trust.bypass
        \/ dial.cert.root \in MeantRoots /\ dial.cert.name = get_hostname_in_certificate(config)

\* A CA source that was configured and holds no certificate fails the
\* connection, rather than leaving the base roots to decide (trust_anchors).
CaNotIgnored ==
    dial.phase = "tls" /\ dial.outcome = "established" /\ ~config.trust.bypass =>
        \A i \in DOMAIN config.trust.extra_cas :
            LET ca == config.trust.extra_cas[i]
            IN ca.body \in {"pem", "bom", "der"}

\* A connection string weakens nothing it does not name: verification is off
\* only after trustservercertificate=true, and a build with TLS encrypts less
\* than everything only after an `encrypt` that says so; what is not
\* understood is refused (Config::from_config_string, encrypt, parse_bool).
StringNeverWeakens ==
    dial.phase = "parsed" =>
        LET dict == dial.from.dict
            says(key, values) == key \in DOMAIN dict /\ dict[key] \in values
        IN /\ config.trust.bypass => says("trustservercertificate", {"true", "yes"})
           /\ HasTls(build) /\ config.encryption \notin {"Required", "Strict"} =>
                  says("encrypt", {"false", "no", "DANGER_PLAINTEXT"})
           /\ "trustservercertificateca" \in DOMAIN dict => config.trust.extra_cas # <<>>

\* A TLS connection trusts no more than the application said, whichever way
\* the Config came about and whichever backend is built in.
TrustRespected == TrustExclusive /\ ImposterRejected /\ CaNotIgnored /\ StringNeverWeakens

\* The server finds what the Config says in PRELOGIN, each option where its
\* entry points (PreloginMessage::encode, decode).
PreloginArrives ==
    dial.phase = "prelogin" =>
        LET m == PreloginDecode(dial.bytes)
        IN /\ ~IsErr(m)
           /\ m.ok.encryption = config.encryption
           /\ m.ok.fedauth = (config.auth.kind = "AADToken")
           /\ m.ok.instance # <<>> <=> config.instance_name # None

\* The server finds every text of LOGIN7 at the offset its entry gives, the
\* password scrambled, the token of a federated login with its nonce; the
\* message is as long as it says; and exactly as long as the buffer reserved
\* for it, so that no secret is left behind in a buffer that was outgrown
\* (LoginMessage::encode_to_boxed_slice, encoded_len).
LoginArrives ==
    dial.phase = "login" =>
        LET m == dial.message
            found(r, bytes, text) == /\ ~r.bad /\ r.v.bytes = bytes
                                     /\ bytes > 0 => r.v.text = text
            holds(i, text) == found(LoginEntry(dial.bytes, i), 2 * text[1], text[2])
        IN /\ Bytes(dial.bytes) = dial.reserved /\ dial.bytes[1] = <<4, dial.reserved>>
           /\ holds(1, m.hostname) /\ holds(2, m.username) /\ holds(3, Scramble(m.password))
           /\ holds(4, m.app_name) /\ holds(5, TextOf(config.host))
           /\ holds(9, TextOf(config.database))
           /\ m.sspi # <<>> =>
                found(LoginEntry(dial.bytes, SspiEntry), m.sspi[1], m.sspi[2])
           /\ m.fed_auth # <<>> =>
                \E f \in {LoginFeature(dial.bytes)} :
                    ~f.bad /\ f.v = m.fed_auth[1]

\* What the Config says arrives in the two messages that open a connection.
HelloArrives == PreloginArrives /\ LoginArrives

=============================================================================
