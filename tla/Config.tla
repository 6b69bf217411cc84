------------------------------- MODULE Config -------------------------------
(***************************************************************************)
(* client/config.rs, client/config/ado_net.rs, client/config/jdbc.rs and    *)
(* client/auth.rs: how a Config comes about.                                *)
(*                                                                         *)
(* A Config starts as Config::default() and is changed by the setters, in   *)
(* any order, either on the Config itself or through the by-value           *)
(* ConfigBuilder, or it is built in one go from a parsed connection string. *)
(* Every field is kept, because every setter is an action; the values are   *)
(* taken from small sets.                                                   *)
(***************************************************************************)
EXTENDS Outcome, Naturals, Sequences, TLC

CONSTANTS
    None,       \* an Option that is None
    Builds,     \* crate builds to consider: the features the code asks about
    MaxCalls,   \* setter calls before connect (bound)
    Dicts,      \* parsed connection strings to consider
    ExtraCas    \* CA sources a user may add (see TlsTrust)

\* A key of a connection string has a value, if an empty one.
ASSUME DictAssumption ==
    \A d \in Dicts : \A key \in DOMAIN d.dict : d.dict[key] # None

VARIABLES
    build,      \* the features the crate was compiled with
    config,     \* the Config under construction
    via,        \* "config": &mut setters, "builder": ConfigBuilder
    calls,      \* setter calls so far
    panicked    \* a setter panicked: the program has no Config any more

configVars == <<build, config, via, calls, panicked>>

HasTls(b) == b.tls # "none"

-----------------------------------------------------------------------------
(* The record and its defaults.                                             *)

\* The certificate trust of a connection: base roots, added CAs, and the
\* switch that turns verification off.
TrustDefault == [source |-> "Native", extra_cas |-> <<>>, bypass |-> FALSE]

\* AuthMethod::sql_server; ::windows splits DOMAIN\user at the first
\* backslash (a user name is the sequence of its backslash-separated parts).
sql_server(user, pw) == [kind |-> "SqlServer", user |-> user, password |-> pw]

windows(user, pw) ==
    LET d == IF Len(user) > 1 THEN 1 ELSE 0
    IN [kind |-> "Windows", domain |-> SubSeq(user, 1, d),
        user |-> SubSeq(user, d + 1, Len(user)), password |-> pw]

aad_token_auth(token) == [kind |-> "AADToken", token |-> token]

AuthNone == [kind |-> "None"]

\* impl Default for Config: encryption is Required when the build has a TLS
\* backend, and not supported otherwise; both timeouts are set.
Default(b) ==
    [host |-> None, port |-> None, database |-> None, instance_name |-> None,
     application_name |-> None,
     encryption |-> IF HasTls(b) THEN "Required" ELSE "NotSupported",
     trust |-> TrustDefault, auth |-> AuthNone, readonly |-> FALSE,
     packet_size |-> None, hostname_in_certificate |-> None,
     client_name |-> None, multi_subnet_failover |-> FALSE,
     handshake_timeout |-> Some(15), command_timeout |-> Some(30),
     lossy_utf16_decoding |-> FALSE, lossy_codepage_decoding |-> FALSE,
     client_cert |-> None]

-----------------------------------------------------------------------------
(* The setters.                                                             *)

\* What ConfigBuilder offers by assigning to the inner Config ...
BuilderAssigns ==
    {"host", "port", "database", "instance_name", "application_name",
     "encryption", "auth", "readonly", "handshake_timeout",
     "command_timeout", "lossy_utf16_decoding", "lossy_codepage_decoding"}

\* ... and by calling the Config setter of the same name.
BuilderDelegates == {"trust", "client_cert"}

\* A call is possible while there is a Config, and on the builder only for
\* the setters the builder has.
Callable(f) ==
    /\ ~panicked
    /\ calls < MaxCalls
    /\ via = "builder" => f \in BuilderAssigns \cup BuilderDelegates

Set(f, v) ==
    /\ Callable(f)
    /\ config' = [config EXCEPT ![f] = v]
    /\ calls' = calls + 1
    /\ UNCHANGED <<build, via, panicked>>

Panic ==
    /\ panicked' = TRUE
    /\ calls' = calls + 1
    /\ UNCHANGED <<build, config, via>>

\* Where to connect.
host == \E h \in {".", "db"} : Set("host", h)
port == Set("port", 4200)
database == Set("database", "master")
instance_name == Set("instance_name", "SQLEXPRESS")
application_name == Set("application_name", "app")
packet_size == Set("packet_size", 32767)
encryption ==
    \E e \in {"Off", "On", "NotSupported", "Required"}
             \cup (IF build.tds80 THEN {"Strict"} ELSE {}) :
        Set("encryption", e)

\* Turning verification off and adding roots exclude each other: whichever
\* comes second panics.
trust_cert ==
    /\ Callable("trust")
    /\ IF config.trust.extra_cas # <<>> \/ config.trust.source # "Native"
       THEN Panic
       ELSE Set("trust", [config.trust EXCEPT !.bypass = TRUE])

AddCa(kind) ==
    /\ Callable("trust")
    /\ IF config.trust.bypass
       THEN Panic
       ELSE \E ca \in {c \in ExtraCas : c.kind = kind} :
                Set("trust", [config.trust EXCEPT
                                 !.extra_cas = Append(@, ca)])

trust_cert_ca == AddCa("File")
trust_cert_ca_bundle == AddCa("Bundle")

trust_webpki_roots ==
    /\ build.webpki
    /\ Callable("trust")
    /\ IF config.trust.bypass
       THEN Panic
       ELSE Set("trust", [config.trust EXCEPT !.source = "WebpkiRoots"])

hostname_in_certificate == Set("hostname_in_certificate", "cert.db")
client_name == Set("client_name", "laptop")
authentication ==
    \E a \in {sql_server(<<"sa">>, "pw"), aad_token_auth("jwt"), AuthNone} : Set("auth", a)
readonly == \E b \in BOOLEAN : Set("readonly", b)
multi_subnet_failover == \E b \in BOOLEAN : Set("multi_subnet_failover", b)
handshake_timeout == Set("handshake_timeout", None)
command_timeout == \E t \in {None, Some(5)} : Set("command_timeout", t)
lossy_utf16_decoding == Set("lossy_utf16_decoding", TRUE)
lossy_codepage_decoding == Set("lossy_codepage_decoding", TRUE)

\* Mutual TLS: separate certificate and key files on every backend that
\* compiles, a PKCS#12 bundle on native-tls and openssl.
client_certificate ==
    HasTls(build) /\ Set("client_cert", [source |-> "CertAndKey", ext |-> "pem"])
client_certificate_pkcs12 ==
    /\ build.tls \in {"native-tls", "vendored-openssl"}
    /\ Set("client_cert", [source |-> "Pkcs12", ext |-> "p12"])

\* ConfigBuilder::build and the two From conversions move the same Config
\* between its two faces.
Convert ==
    /\ ~panicked /\ calls < MaxCalls
    /\ via' = IF via = "config" THEN "builder" ELSE "config"
    /\ calls' = calls + 1
    /\ UNCHANGED <<build, config, panicked>>

Setter ==
    \/ host \/ port \/ database \/ instance_name \/ application_name
    \/ packet_size \/ encryption
    \/ trust_cert \/ trust_cert_ca \/ trust_cert_ca_bundle
    \/ trust_webpki_roots
    \/ hostname_in_certificate \/ client_name \/ authentication \/ readonly
    \/ multi_subnet_failover \/ handshake_timeout \/ command_timeout
    \/ lossy_utf16_decoding \/ lossy_codepage_decoding
    \/ client_certificate \/ client_certificate_pkcs12
    \/ Convert

-----------------------------------------------------------------------------
(* What the connection asks of a Config.                                    *)

get_host(c) == IF c.host \in {None, "."} THEN "localhost" ELSE c.host

get_hostname_in_certificate(c) ==
    IF c.hostname_in_certificate # None THEN c.hostname_in_certificate
                                        ELSE get_host(c)

\* An explicit port wins; a named instance without one is asked of the SQL
\* Browser on 1434; otherwise the default port.
get_port(c) == IF c.port # None THEN c.port
               ELSE IF c.instance_name # None THEN 1434 ELSE 1433

-----------------------------------------------------------------------------
(* Connection strings: a dictionary of lower-cased keys.                    *)

\* The first of several spellings of a key that is present.
First(dict, keys) ==
    LET present == {i \in DOMAIN keys : keys[i] \in DOMAIN dict}
    IN IF present = {} THEN None
       ELSE dict[keys[CHOOSE i \in present : \A j \in present : i <= j]]

\* parse_bool knows true/yes and false/no, whatever their case and padding.
parse_bool(v) == CASE v \in {"true", "yes"} -> [ok |-> TRUE]
                   [] v \in {"false", "no"} -> [ok |-> FALSE]
                   [] OTHER -> Err("not a boolean")

is_sspi_or_truthy(v) == IF v = "sspi" THEN [ok |-> TRUE] ELSE parse_bool(v)

BoolKey(dict, key) ==
    IF key \in DOMAIN dict THEN parse_bool(dict[key]) ELSE [ok |-> FALSE]

\* The build decides what a truthy IntegratedSecurity means; without an
\* integrated-login feature the key is not even looked at.
Authentication(dict, b) ==
    LET user == First(dict, <<"uid", "username", "user", "user id">>)
        pw == First(dict, <<"password", "pwd">>)
        is == First(dict, <<"integratedsecurity", "integrated security">>)
        OrEmpty(v) == IF v = None THEN "" ELSE v
        login == IF user = None THEN <<"">> ELSE user
        truthy == is_sspi_or_truthy(is)
    IN IF b.login = "sql" \/ is = None THEN sql_server(login, OrEmpty(pw))
       ELSE IF IsErr(truthy) THEN truthy
       ELSE IF ~truthy.ok THEN sql_server(login, OrEmpty(pw))
       ELSE IF \/ b.login = "gssapi"
               \/ /\ b.login \in {"winauth", "sspi-rs+gssapi"}
                  /\ user = None /\ pw = None
            THEN [kind |-> "Integrated"]
            ELSE windows(login, OrEmpty(pw))

\* `encrypt`: with a TLS backend a missing key means Required; without one,
\* anything that asks for encryption is an error, and a missing key is not.
Encrypt(dict, b) ==
    LET v == First(dict, <<"encrypt">>)
        asBool == parse_bool(v)
        weakest == IF HasTls(b) THEN "Off" ELSE "NotSupported"
    IN IF v = None THEN [ok |-> IF HasTls(b) THEN "Required" ELSE "NotSupported"]
       ELSE IF asBool = [ok |-> FALSE] THEN [ok |-> weakest]
       ELSE IF v = "DANGER_PLAINTEXT" THEN [ok |-> "NotSupported"]
       ELSE IF HasTls(b) /\ ~IsErr(asBool) THEN [ok |-> "Required"]
       ELSE IF HasTls(b) /\ b.tds80 /\ v = "strict" THEN [ok |-> "Strict"]
       ELSE Err("encrypt")

\* ADO.NET server value: [tcp:]host[\instance][,port], where `parts` is the
\* value split at commas, its first part split at backslashes.  Whether
\* "tcp:" is in front makes no difference to what follows it.
AdoServer(v) ==
    IF v = None THEN [host |-> None, port |-> None, instance |-> None]
    ELSE LET segs == v.parts[1]
             portOf == IF Len(v.parts) = 1 THEN None ELSE v.parts[2]
         IN IF \/ Len(v.parts) >= 3
               \/ portOf # None /\ portOf \notin 0..65535
            THEN Err("server value")
            ELSE [host |-> IF segs[1] = "(local)" THEN "localhost"
                                                  ELSE segs[1],
                  port |-> portOf,
                  instance |-> IF Len(segs) > 1 THEN segs[2] ELSE None]

\* JDBC names host, port and instance apart (the connection-string crate).
JdbcServer(v) ==
    IF v = None THEN [host |-> None, port |-> None, instance |-> None] ELSE v

server(d) ==
    IF d.kind = "ado" THEN AdoServer(First(d.dict, <<"server", "data source">>))
                      ELSE JdbcServer(First(d.dict, <<"server">>))

\* Config::from_config_string: an Err, or the Config with what the string
\* says laid over the defaults.
from_config_string(d, b) ==
    LET dict == d.dict
        srv == server(d)
        auth == Authentication(dict, b)
        trustCert == BoolKey(dict, "trustservercertificate")
        ca == First(dict, <<"trustservercertificateca">>)
        enc == Encrypt(dict, b)
        multi == BoolKey(dict, "multisubnetfailover")
    IN IF \/ IsErr(srv) \/ IsErr(auth) \/ IsErr(trustCert)
          \/ trustCert.ok /\ ca # None
          \/ IsErr(enc) \/ IsErr(multi)
       THEN Err("connection string")
       ELSE [Default(b) EXCEPT
                 !.host = srv.host, !.port = srv.port,
                 !.instance_name = srv.instance, !.auth = auth,
                 !.database = First(dict, <<"database", "initial catalog",
                                            "databasename">>),
                 !.application_name = First(dict, <<"application name",
                                                    "applicationname">>),
                 !.trust.bypass = trustCert.ok,
                 !.trust.extra_cas = IF ca = None THEN <<>> ELSE <<ca>>,
                 !.hostname_in_certificate =
                     First(dict, <<"hostnameincertificate",
                                   "hostname in certificate">>),
                 !.encryption = enc.ok,
                 !.readonly = First(dict, <<"applicationintent">>) = "ReadOnly",
                 !.client_name = First(dict, <<"workstationid",
                                               "workstation id">>),
                 !.multi_subnet_failover = multi.ok]

=============================================================================
