------------------------------ MODULE TlsTrust ------------------------------
(***************************************************************************)
(* client/tls_stream.rs and client/tls_stream/{certs,rustls_tls_stream,     *)
(* native_tls_stream,opentls_tls_stream}.rs: from the trust settings of a   *)
(* Config to the roots a TLS handshake accepts, and the outcome of the      *)
(* handshake with a given server certificate.                               *)
(*                                                                         *)
(* A certificate is its issuing root.  A CA source is a record: `kind` File *)
(* or Bundle, `ext` the file extension, `body` what the bytes are:          *)
(*   "missing"  the file cannot be read     "pem"  one CA, as PEM           *)
(*   "bom"      the same after a BOM        "der"  one CA, as DER           *)
(*   "empty"    no bytes                    "noise" bytes that are neither  *)
(*   "broken"   PEM that does not parse                                     *)
(***************************************************************************)
EXTENDS Config, FiniteSets

Bodies == {"missing", "pem", "bom", "der", "empty", "noise", "broken"}

\* The root each usable CA source holds, and what is not a certificate.
ExtraRoot == "corporate"
NotACert == "junk"

-----------------------------------------------------------------------------
(* certs.rs                                                                 *)

\* strip_bom
StripBom(body) == IF body = "bom" THEN "pem" ELSE body

\* CertificateDer::pem_slice_iter: the blocks of the input, or the error of
\* the first that does not parse (external: rustls-pki-types).
PemBlocks(body) == CASE body = "pem" -> [ok |-> <<ExtraRoot>>]
                     [] body = "broken" -> Err("InvalidData")
                     [] OTHER -> [ok |-> <<>>]

\* Bytes taken as one DER certificate; whether they are one is for the
\* backend to say.
DerBlock(body) == CASE body = "empty" -> [ok |-> <<>>]
                    [] body = "der" -> [ok |-> <<ExtraRoot>>]
                    [] OTHER -> [ok |-> <<NotACert>>]

looks_like_pem(body) == body \in {"pem", "broken"}

\* certs_from_file goes by the extension.
certs_from_file(ext, body) ==
    IF body = "missing" THEN Err("InvalidData")
    ELSE CASE ext \in {"pem", "crt"} -> PemBlocks(StripBom(body))
           [] ext = "der" -> DerBlock(body)
           [] OTHER -> Err("InvalidInput")

\* certs_from_bundle goes by the bytes.
certs_from_bundle(body) ==
    LET b == StripBom(body)
    IN IF looks_like_pem(b) THEN PemBlocks(b) ELSE DerBlock(b)

\* A slip: a source without certificates adds nothing instead of failing.
trust_anchors_lenient(ca) ==
    IF ca.kind = "File" THEN certs_from_file(ca.ext, ca.body)
                        ELSE certs_from_bundle(ca.body)

\* trust_anchors: a source without a single certificate is an error.
trust_anchors(ca) ==
    LET certs == IF ca.kind = "File" THEN certs_from_file(ca.ext, ca.body)
                                     ELSE certs_from_bundle(ca.body)
    IN IF ~IsErr(certs) /\ certs.ok = <<>> THEN Err("InvalidData") ELSE certs

\* The certificates of all sources, each accepted by the backend's own
\* certificate type, or the first error (load_extra_cas and the loop of
\* build_trust_store; invalid_cert_error).
load_extra_cas(cas) ==
    LET loaded == {trust_anchors(cas[i]) : i \in DOMAIN cas}
        certs == UNION {{r.ok[j] : j \in DOMAIN r.ok} :
                            r \in {s \in loaded : ~IsErr(s)}}
    IN IF (\E r \in loaded : IsErr(r)) \/ NotACert \in certs
       THEN Err("InvalidData") ELSE [ok |-> certs]

-----------------------------------------------------------------------------
(* rustls_tls_stream.rs                                                     *)

\* load_native_roots_into: how many platform certificates were usable.
NativeRoots(os) == IF os = "usable" THEN {"public"} ELSE {}

\* build_trust_store and ensure_base_or_extra: base roots and extra CAs
\* together, and an error when neither gives anything.
build_trust_store(trust, os) ==
    LET base == IF trust.source = "Native" THEN NativeRoots(os)
                                           ELSE {"mozilla"}
        extra == load_extra_cas(trust.extra_cas)
    IN IF IsErr(extra) THEN extra
       ELSE IF base = {} /\ trust.extra_cas = <<>> THEN Err("NotFound")
       ELSE [ok |-> base \cup extra.ok]

\* load_client_auth, read_private_key: a certificate chain and a key from
\* two files; PKCS#12 is not for rustls.
RustlsIdentity(cc) == cc = None \/ (cc.source = "CertAndKey" /\ cc.ext \in {"pem", "der"})

\* get_server_name: a name that is no DNS name matters only if it is going
\* to be verified.
get_server_name(name, bypass) ==
    IF name = "db" \/ name = "cert.db" \/ name = "localhost" THEN [ok |-> name]
    ELSE IF bypass THEN [ok |-> "placeholder.domain.com"] ELSE Err("Tls")

\* TlsStream::new: NoCertVerifier accepts any certificate for any name.
RustlsRoots(c, os) ==
    IF c.trust.bypass THEN [ok |-> {"any"}] ELSE build_trust_store(c.trust, os)

-----------------------------------------------------------------------------
(* native_tls_stream.rs, opentls_tls_stream.rs                              *)

\* load_identity of native-tls: PEM files, or PKCS#12.
NativeIdentity(cc) == cc = None \/ cc.source = "Pkcs12" \/ cc.ext = "pem"

\* load_identity of openssl: PKCS#12 only.
OpentlsIdentity(cc) == cc = None \/ cc.source = "Pkcs12"

\* create_tls_stream of both: the platform roots are the library's own, extra
\* CAs are added to them, and bypass accepts invalid certificates and names.
NativeTlsRoots(c, os) ==
    LET extra == load_extra_cas(c.trust.extra_cas)
    IN IF c.trust.bypass THEN [ok |-> {"any"}]
       ELSE IF IsErr(extra) THEN extra
       ELSE [ok |-> NativeRoots(os) \cup extra.ok]

-----------------------------------------------------------------------------
(* create_tls_stream (tls_stream.rs): the backend of the build.             *)

Roots(c, b, os) == IF b.tls = "rustls" THEN RustlsRoots(c, os)
                                       ELSE NativeTlsRoots(c, os)

IdentityOk(c, b) == CASE b.tls = "rustls" -> RustlsIdentity(c.client_cert)
                      [] b.tls = "native-tls" -> NativeIdentity(c.client_cert)
                      [] b.tls = "vendored-openssl" -> OpentlsIdentity(c.client_cert)

\* TDS_ALPN_PROTOCOL_NAME is requested for strict encryption, except by
\* openssl, which cannot.
Alpn(c, b) == c.encryption = "Strict" /\ b.tls # "vendored-openssl"

\* Whether the handshake with a server that shows a certificate issued by
\* `cert.root` for `cert.name` succeeds (the verification itself is the
\* TLS library's).
create_tls_stream(c, b, os, cert) ==
    LET roots == Roots(c, b, os)
        name == IF b.tls = "rustls"
                THEN get_server_name(get_hostname_in_certificate(c), c.trust.bypass)
                ELSE [ok |-> get_hostname_in_certificate(c)]
    IN IF IsErr(roots) \/ ~IdentityOk(c, b) \/ IsErr(name) THEN "config error"
       ELSE IF "any" \in roots.ok \/ (cert.root \in roots.ok /\ cert.name = name.ok)
       THEN "established" ELSE "certificate rejected"

=============================================================================
