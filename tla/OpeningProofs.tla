--------------------------- MODULE OpeningProofs ---------------------------
(***************************************************************************)
(* Proof that a TLS connection trusts no more than the application said,    *)
(* for every set of builds, CA sources, connection strings and server       *)
(* certificates: TrustRespected is an invariant of Opening.                 *)
(***************************************************************************)
EXTENDS Opening, TLAPS

-----------------------------------------------------------------------------
(* Results.                                                                 *)

LEMMA ResultFacts ==
    ASSUME NEW v
    PROVE  ~IsErr([ok |-> v]) /\ IsErr(Err(v))
BY DEF IsErr, Err

-----------------------------------------------------------------------------
(* certs.rs: what one CA source gives.                                      *)

Usable == {"pem", "bom", "der"}

\* The three ways bytes are read: the corporate root, an error, nothing, or
\* something that is no certificate; and only usable bytes give the root.
BlockIs(r, body) ==
    \/ IsErr(r)
    \/ r = [ok |-> <<>>]
    \/ r = [ok |-> <<NotACert>>]
    \/ r = [ok |-> <<ExtraRoot>>] /\ body \in Usable

LEMMA PemBlocksFacts ==
    ASSUME NEW body
    PROVE  BlockIs(PemBlocks(StripBom(body)), body)
<1>1. CASE StripBom(body) = "pem"
  <2>1. body \in Usable
    BY <1>1 DEF StripBom, Usable
  <2> QED BY <1>1, <2>1 DEF PemBlocks, BlockIs
<1>2. CASE StripBom(body) = "broken"
  BY <1>2, ResultFacts DEF PemBlocks, BlockIs
<1>3. CASE StripBom(body) \notin {"pem", "broken"}
  BY <1>3 DEF PemBlocks, BlockIs
<1> QED BY <1>1, <1>2, <1>3

LEMMA DerBlockFacts ==
    ASSUME NEW body
    PROVE  BlockIs(DerBlock(body), body)
BY DEF DerBlock, BlockIs, Usable

LEMMA AnchorFacts ==
    ASSUME NEW ca
    PROVE  \/ IsErr(trust_anchors(ca))
           \/ trust_anchors(ca) = [ok |-> <<NotACert>>]
           \/ trust_anchors(ca) = [ok |-> <<ExtraRoot>>] /\ ca.body \in Usable
<1> DEFINE certs == IF ca.kind = "File" THEN certs_from_file(ca.ext, ca.body)
                                        ELSE certs_from_bundle(ca.body)
<1>1. BlockIs(certs_from_file(ca.ext, ca.body), ca.body)
  <2>1. CASE ca.body = "missing"
    BY <2>1, ResultFacts DEF certs_from_file, BlockIs
  <2>2. CASE ca.body # "missing" /\ ca.ext \in {"pem", "crt"}
    BY <2>2, PemBlocksFacts DEF certs_from_file
  <2>3. CASE ca.body # "missing" /\ ca.ext = "der"
    BY <2>3, DerBlockFacts DEF certs_from_file
  <2>4. CASE ca.body # "missing" /\ ca.ext \notin {"pem", "crt", "der"}
    BY <2>4, ResultFacts DEF certs_from_file, BlockIs
  <2> QED BY <2>1, <2>2, <2>3, <2>4
<1>2. BlockIs(certs_from_bundle(ca.body), ca.body)
  <2>1. CASE looks_like_pem(StripBom(ca.body))
    BY <2>1, PemBlocksFacts DEF certs_from_bundle
  <2>2. CASE ~looks_like_pem(StripBom(ca.body))
    <3>1. StripBom(ca.body) = ca.body
      BY <2>2 DEF looks_like_pem, StripBom
    <3> QED BY <2>2, <3>1, DerBlockFacts DEF certs_from_bundle
  <2> QED BY <2>1, <2>2
<1>3. BlockIs(certs, ca.body)
  BY <1>1, <1>2
<1>4. trust_anchors(ca) = IF ~IsErr(certs) /\ certs.ok = <<>> THEN Err("InvalidData") ELSE certs
  BY DEF trust_anchors
<1> HIDE DEF certs
<1>5. CASE certs = [ok |-> <<>>]
  BY <1>4, <1>5, ResultFacts
<1>6. CASE certs # [ok |-> <<>>]
  <2>1. CASE trust_anchors(ca) = certs
    BY <1>3, <1>6, <2>1 DEF BlockIs
  <2>2. CASE trust_anchors(ca) = Err("InvalidData")
    BY <2>2, ResultFacts
  <2> QED BY <1>4, <2>1, <2>2
<1> QED BY <1>5, <1>6

\* Loading the sources succeeds only when every one holds the corporate root.
LEMMA LoadFacts ==
    ASSUME NEW cas, ~IsErr(load_extra_cas(cas))
    PROVE  /\ \A i \in DOMAIN cas : cas[i].body \in Usable
           /\ load_extra_cas(cas).ok \subseteq {ExtraRoot}
           /\ load_extra_cas(cas).ok # {} => DOMAIN cas # {}
<1> DEFINE loaded == {trust_anchors(cas[i]) : i \in DOMAIN cas}
           certs == UNION {{r.ok[j] : j \in DOMAIN r.ok} : r \in {s \in loaded : ~IsErr(s)}}
<1>1. load_extra_cas(cas) = IF (\E r \in loaded : IsErr(r)) \/ NotACert \in certs
                            THEN Err("InvalidData") ELSE [ok |-> certs]
  BY DEF load_extra_cas
<1> HIDE DEF certs
<1>2. /\ \A r \in loaded : ~IsErr(r)
      /\ NotACert \notin certs /\ load_extra_cas(cas) = [ok |-> certs]
  BY <1>1, ResultFacts
<1>3. ASSUME NEW i \in DOMAIN cas
      PROVE  trust_anchors(cas[i]) = [ok |-> <<ExtraRoot>>] /\ cas[i].body \in Usable
  <2>1. trust_anchors(cas[i]) \in loaded
    OBVIOUS
  <2>2. trust_anchors(cas[i]) # [ok |-> <<NotACert>>]
    <3> SUFFICES ASSUME trust_anchors(cas[i]) = [ok |-> <<NotACert>>] PROVE NotACert \in certs
      BY <1>2
    <3> DEFINE r == trust_anchors(cas[i])
    <3>1. r \in {s \in loaded : ~IsErr(s)}
      BY <1>2, <2>1
    <3>2. r.ok = <<NotACert>>
      OBVIOUS
    <3>3. NotACert \in {r.ok[j] : j \in DOMAIN r.ok}
      <4>1. 1 \in DOMAIN r.ok /\ r.ok[1] = NotACert
        BY <3>2
      <4> QED BY <4>1
    <3> HIDE DEF r, loaded
    <3> QED BY <3>1, <3>3 DEF certs
  <2> QED BY <1>2, <2>1, <2>2, AnchorFacts
<1>4. ASSUME NEW c \in certs  PROVE c = ExtraRoot /\ DOMAIN cas # {}
  <2>1. PICK r \in {s \in loaded : ~IsErr(s)} : c \in {r.ok[j] : j \in DOMAIN r.ok}
    BY <1>4 DEF certs
  <2>2. PICK i \in DOMAIN cas : r = trust_anchors(cas[i])
    BY <2>1
  <2>3. r.ok = <<ExtraRoot>>
    BY <1>3, <2>2
  <2> QED BY <2>1, <2>2, <2>3
<1> QED BY <1>2, <1>3, <1>4

-----------------------------------------------------------------------------
(* What a handshake that succeeds shows.                                    *)

\* Both kinds of backend: without bypass, a set of roots is the base set and
\* the corporate root, the latter only if some source was named.
LEMMA RootFacts ==
    ASSUME NEW c, NEW b, NEW os, ~c.trust.bypass, ~IsErr(Roots(c, b, os)),
           c.trust.source \in {"Native", "WebpkiRoots"}
    PROVE  /\ \A i \in DOMAIN c.trust.extra_cas : c.trust.extra_cas[i].body \in Usable
           /\ \A r \in Roots(c, b, os).ok :
                \/ r = "public" /\ ~(c.trust.source = "WebpkiRoots" /\ b.tls = "rustls")
                \/ r = "mozilla" /\ c.trust.source = "WebpkiRoots" /\ b.tls = "rustls"
                \/ r = ExtraRoot /\ c.trust.extra_cas # <<>>
<1> DEFINE extra == load_extra_cas(c.trust.extra_cas)
<1>1. /\ ~IsErr(extra)
      /\ \A r \in Roots(c, b, os).ok :
            \/ r = "public" /\ ~(c.trust.source = "WebpkiRoots" /\ b.tls = "rustls")
            \/ r = "mozilla" /\ c.trust.source = "WebpkiRoots" /\ b.tls = "rustls"
            \/ r \in extra.ok
  <2>1. CASE b.tls = "rustls"
    <3> DEFINE base == IF c.trust.source = "Native" THEN NativeRoots(os) ELSE {"mozilla"}
    <3>1. Roots(c, b, os) = IF IsErr(extra) THEN extra
                            ELSE IF base = {} /\ c.trust.extra_cas = <<>> THEN Err("NotFound")
                            ELSE [ok |-> base \cup extra.ok]
      BY <2>1 DEF Roots, RustlsRoots, build_trust_store
    <3>2. \A r \in base : \/ r = "public" /\ c.trust.source = "Native"
                          \/ r = "mozilla" /\ c.trust.source = "WebpkiRoots"
      BY DEF NativeRoots
    <3> HIDE DEF extra, base
    <3>3. ~IsErr(extra) /\ Roots(c, b, os) = [ok |-> base \cup extra.ok]
      BY <3>1, ResultFacts
    <3> QED BY <2>1, <3>2, <3>3
  <2>2. CASE b.tls # "rustls"
    <3>1. Roots(c, b, os) = IF IsErr(extra) THEN extra
                            ELSE [ok |-> NativeRoots(os) \cup extra.ok]
      BY <2>2 DEF Roots, NativeTlsRoots
    <3>2. \A r \in NativeRoots(os) : r = "public"
      BY DEF NativeRoots
    <3> HIDE DEF extra
    <3>3. ~IsErr(extra) /\ Roots(c, b, os) = [ok |-> NativeRoots(os) \cup extra.ok]
      BY <3>1
    <3> QED BY <2>2, <3>2, <3>3
  <2> QED BY <2>1, <2>2
<1>2. \A r \in extra.ok : r = ExtraRoot /\ c.trust.extra_cas # <<>>
  <2>1. extra.ok # {} => DOMAIN c.trust.extra_cas # {}
    BY <1>1, LoadFacts
  <2>2. DOMAIN << >> = {}
    OBVIOUS
  <2> QED BY <1>1, <2>1, <2>2, LoadFacts
<1>3. \A i \in DOMAIN c.trust.extra_cas : c.trust.extra_cas[i].body \in Usable
  BY <1>1, LoadFacts
<1> QED BY <1>1, <1>2, <1>3

LEMMA EstablishedFacts ==
    ASSUME NEW c, NEW b, NEW os, NEW cert, ~c.trust.bypass,
           c.trust.source \in {"Native", "WebpkiRoots"},
           create_tls_stream(c, b, os, cert) = "established"
    PROVE  /\ ~IsErr(Roots(c, b, os))
           /\ cert.root \in Roots(c, b, os).ok
           /\ cert.name = get_hostname_in_certificate(c)
<1> DEFINE roots == Roots(c, b, os)
           host_ == get_hostname_in_certificate(c)
           name == IF b.tls = "rustls" THEN get_server_name(host_, c.trust.bypass)
                                       ELSE [ok |-> host_]
<1>1. create_tls_stream(c, b, os, cert) =
        IF IsErr(roots) \/ ~IdentityOk(c, b) \/ IsErr(name) THEN "config error"
        ELSE IF "any" \in roots.ok \/ (cert.root \in roots.ok /\ cert.name = name.ok)
        THEN "established" ELSE "certificate rejected"
  BY DEF create_tls_stream
<1>2. IsErr(name) \/ name = [ok |-> host_]
  BY ResultFacts DEF get_server_name
<1> HIDE DEF roots, host_, name
<1>3. ~IsErr(roots) /\ ~IsErr(name)
  BY <1>1
<1>4. "any" \notin roots.ok
  BY <1>3, RootFacts DEF roots, ExtraRoot
<1> QED BY <1>1, <1>2, <1>3, <1>4 DEF roots, host_

-----------------------------------------------------------------------------
(* What a connection string does to the trust settings.                     *)

\* A key with one spelling.
LEMMA FirstOfOne ==
    ASSUME NEW dict, NEW key
    PROVE  First(dict, <<key>>) = IF key \in DOMAIN dict THEN dict[key] ELSE None
<1> DEFINE keys == <<key>>
           present == {i \in DOMAIN keys : keys[i] \in DOMAIN dict}
<1>1. DOMAIN keys = {1} /\ keys[1] = key
  OBVIOUS
<1>2. CASE key \in DOMAIN dict
  <2>1. present = {1}
    BY <1>1, <1>2
  <2>2. (CHOOSE i \in present : \A j \in present : i <= j) = 1
    BY <2>1
  <2> QED BY <1>1, <1>2, <2>1, <2>2 DEF First
<1>3. CASE key \notin DOMAIN dict
  <2>1. present = {}
    BY <1>1, <1>3
  <2> QED BY <1>3, <2>1 DEF First
<1> QED BY <1>2, <1>3

LEMMA StringFacts ==
    ASSUME NEW d \in Dicts, NEW b, ~IsErr(from_config_string(d, b))
    PROVE  LET c == from_config_string(d, b)
               says(key, values) == key \in DOMAIN d.dict /\ d.dict[key] \in values
           IN /\ c = [f \in DOMAIN c |-> c[f]] /\ "trust" \in DOMAIN c
              /\ c.trust = [source |-> "Native", extra_cas |-> c.trust.extra_cas,
                            bypass |-> c.trust.bypass]
              /\ c.trust.bypass \in BOOLEAN
              /\ c.trust.bypass => c.trust.extra_cas = <<>>
              /\ c.trust.bypass => says("trustservercertificate", {"true", "yes"})
              /\ HasTls(b) /\ c.encryption \notin {"Required", "Strict"} =>
                    says("encrypt", {"false", "no", "DANGER_PLAINTEXT"})
              /\ "trustservercertificateca" \in DOMAIN d.dict => c.trust.extra_cas # <<>>
<1> DEFINE dict == d.dict
           srv == server(d)
           auth == Authentication(dict, b)
           trustCert == BoolKey(dict, "trustservercertificate")
           ca == First(dict, <<"trustservercertificateca">>)
           enc == Encrypt(dict, b)
           multi == BoolKey(dict, "multisubnetfailover")
           bad == \/ IsErr(srv) \/ IsErr(auth) \/ IsErr(trustCert)
                  \/ trustCert.ok /\ ca # None
                  \/ IsErr(enc) \/ IsErr(multi)
           cas == IF ca = None THEN <<>> ELSE <<ca>>
           c == from_config_string(d, b)
<1>1. ~bad
  BY ResultFacts DEF from_config_string
<1> DEFINE d1 == [Default(b) EXCEPT
                     !.host = srv.host, !.port = srv.port,
                     !.instance_name = srv.instance, !.auth = auth,
                     !.database = First(dict, <<"database", "initial catalog", "databasename">>),
                     !.application_name = First(dict, <<"application name", "applicationname">>)]
           d2 == [d1 EXCEPT !.trust.bypass = trustCert.ok]
           d3 == [d2 EXCEPT !.trust.extra_cas = cas]
           d4 == [d3 EXCEPT
                     !.hostname_in_certificate =
                         First(dict, <<"hostnameincertificate", "hostname in certificate">>),
                     !.encryption = enc.ok,
                     !.readonly = First(dict, <<"applicationintent">>) = "ReadOnly",
                     !.client_name = First(dict, <<"workstationid", "workstation id">>),
                     !.multi_subnet_failover = multi.ok]
<1>2. c = d4
  BY <1>1, Zenon DEF from_config_string
<1>3. /\ c.trust = [source |-> "Native", extra_cas |-> cas, bypass |-> trustCert.ok]
      /\ c.encryption = enc.ok /\ c = [f \in DOMAIN c |-> c[f]] /\ "trust" \in DOMAIN c
  <2> HIDE DEF srv, auth, trustCert, ca, enc, multi, cas, c, dict
  <2>1. {"trust", "encryption"} \subseteq DOMAIN Default(b) /\ Default(b).trust = TrustDefault
    BY DEF Default
  <2>2. d1.trust = TrustDefault /\ DOMAIN d1 = DOMAIN Default(b)
    BY <2>1
  <2> HIDE DEF d1
  <2>3. /\ d2.trust = [source |-> "Native", extra_cas |-> <<>>, bypass |-> trustCert.ok]
        /\ DOMAIN d2 = DOMAIN Default(b)
    BY <2>1, <2>2 DEF TrustDefault
  <2> HIDE DEF d2
  <2>4. /\ d3.trust = [source |-> "Native", extra_cas |-> cas, bypass |-> trustCert.ok]
        /\ DOMAIN d3 = DOMAIN Default(b)
    BY <2>1, <2>3
  <2> HIDE DEF d3
  <2>5. /\ d4.trust = d3.trust /\ d4.encryption = enc.ok
        /\ DOMAIN d4 = DOMAIN Default(b) /\ d4 = [f \in DOMAIN d4 |-> d4[f]]
    BY <2>1, <2>4
  <2> HIDE DEF d4
  <2> QED BY <1>2, <2>1, <2>4, <2>5
<1> HIDE DEF d1, d2, d3, d4
<1>4. /\ trustCert.ok \in BOOLEAN
      /\ trustCert.ok => /\ "trustservercertificate" \in DOMAIN dict
                         /\ dict["trustservercertificate"] \in {"true", "yes"}
  <2>1. ~IsErr(trustCert)
    BY <1>1
  <2> QED BY <2>1, ResultFacts DEF BoolKey, parse_bool
<1>5. HasTls(b) /\ enc.ok \notin {"Required", "Strict"} =>
        "encrypt" \in DOMAIN dict /\ dict["encrypt"] \in {"false", "no", "DANGER_PLAINTEXT"}
  <2> SUFFICES ASSUME HasTls(b), enc.ok \notin {"Required", "Strict"}
               PROVE  "encrypt" \in DOMAIN dict
                      /\ dict["encrypt"] \in {"false", "no", "DANGER_PLAINTEXT"}
    OBVIOUS
  <2> DEFINE v == First(dict, <<"encrypt">>)
             asBool == parse_bool(v)
  <2>1. enc = IF v = None THEN [ok |-> "Required"]
              ELSE IF asBool = [ok |-> FALSE] THEN [ok |-> "Off"]
              ELSE IF v = "DANGER_PLAINTEXT" THEN [ok |-> "NotSupported"]
              ELSE IF ~IsErr(asBool) THEN [ok |-> "Required"]
              ELSE IF b.tds80 /\ v = "strict" THEN [ok |-> "Strict"]
              ELSE Err("encrypt")
    BY DEF Encrypt
  <2>2. ~IsErr(enc)
    BY <1>1
  <2>3. asBool = [ok |-> FALSE] => v \in {"false", "no"}
    BY DEF parse_bool, Err
  <2>4. v = IF "encrypt" \in DOMAIN dict THEN dict["encrypt"] ELSE None
    BY FirstOfOne
  <2> HIDE DEF v, enc, asBool, dict
  <2>5. v # None /\ v \in {"false", "no", "DANGER_PLAINTEXT"}
    BY <2>1, <2>2, <2>3, ResultFacts
  <2> QED BY <2>4, <2>5
<1>6. "trustservercertificateca" \in DOMAIN dict => ca # None
  <2>1. ca = IF "trustservercertificateca" \in DOMAIN dict
             THEN dict["trustservercertificateca"] ELSE None
    BY FirstOfOne
  <2> QED BY <2>1, DictAssumption
<1>7. trustCert.ok => ca = None
  BY <1>1
<1>8. ca # None => cas # <<>>
  OBVIOUS
<1>9. ca = None => cas = <<>>
  OBVIOUS
<1>10. /\ c = [f \in DOMAIN c |-> c[f]] /\ "trust" \in DOMAIN c
       /\ c.trust = [source |-> "Native", extra_cas |-> c.trust.extra_cas,
                     bypass |-> c.trust.bypass]
       /\ c.trust.bypass \in BOOLEAN
       /\ c.trust.bypass => c.trust.extra_cas = <<>>
       /\ c.trust.bypass => /\ "trustservercertificate" \in DOMAIN dict
                            /\ dict["trustservercertificate"] \in {"true", "yes"}
       /\ HasTls(b) /\ c.encryption \notin {"Required", "Strict"} =>
            "encrypt" \in DOMAIN dict /\ dict["encrypt"] \in {"false", "no", "DANGER_PLAINTEXT"}
       /\ "trustservercertificateca" \in DOMAIN dict => c.trust.extra_cas # <<>>
  <2> HIDE DEF c, trustCert, enc, ca, cas, dict
  <2> QED BY <1>3, <1>4, <1>5, <1>6, <1>7, <1>8, <1>9
<1> QED BY <1>10

-----------------------------------------------------------------------------
(* The invariant.                                                           *)

\* What the setters keep of a Config's trust settings: that they are there,
\* and one of the two base sets.
TrustShape ==
    /\ config = [f \in DOMAIN config |-> config[f]]
    /\ "trust" \in DOMAIN config
    /\ config.trust = [source |-> config.trust.source, extra_cas |-> config.trust.extra_cas,
                       bypass |-> config.trust.bypass]
    /\ config.trust.source \in {"Native", "WebpkiRoots"}
    /\ config.trust.bypass \in BOOLEAN

TrustInv == TrustShape /\ TrustRespected

\* Setting another field leaves the trust settings as they are.
LEMMA OtherField ==
    ASSUME TrustShape, NEW f, NEW v, f # "trust", config' = [config EXCEPT ![f] = v]
    PROVE  TrustShape' /\ config'.trust = config.trust
BY DEF TrustShape

LEMMA TrustField ==
    ASSUME TrustShape, NEW t, config' = [config EXCEPT !["trust"] = t],
           t = [source |-> t.source, extra_cas |-> t.extra_cas, bypass |-> t.bypass],
           t.source \in {"Native", "WebpkiRoots"}, t.bypass \in BOOLEAN
    PROVE  TrustShape' /\ config'.trust = t
BY DEF TrustShape

\* The trust settings with one of their fields replaced.
LEMMA TrustRecord ==
    ASSUME TrustShape
    PROVE  LET t == config.trust
           IN \A v : /\ [t EXCEPT !.source = v] =
                          [source |-> v, extra_cas |-> t.extra_cas, bypass |-> t.bypass]
                     /\ [t EXCEPT !.extra_cas = v] =
                          [source |-> t.source, extra_cas |-> v, bypass |-> t.bypass]
                     /\ [t EXCEPT !.bypass = v] =
                          [source |-> t.source, extra_cas |-> t.extra_cas, bypass |-> v]
<1> DEFINE t == config.trust
           s == t.source
           e == t.extra_cas
           y == t.bypass
<1>1. t = [source |-> s, extra_cas |-> e, bypass |-> y]
  BY DEF TrustShape
<1> HIDE DEF t, s, e, y
<1>2. \A v : /\ [t EXCEPT !.source = v] = [source |-> v, extra_cas |-> e, bypass |-> y]
             /\ [t EXCEPT !.extra_cas = v] = [source |-> s, extra_cas |-> v, bypass |-> y]
             /\ [t EXCEPT !.bypass = v] = [source |-> s, extra_cas |-> e, bypass |-> v]
  BY <1>1
<1> QED BY <1>2 DEF t, s, e, y

\* A setter of something else than trust.
SetOther == \E f, v : f # "trust" /\ Set(f, v)

\* One setter call, whether it sets something or panics.
LEMMA SetterStep ==
    ASSUME TrustShape, TrustExclusive, Setter
    PROVE  TrustShape' /\ TrustExclusive'
<1>1. ASSUME UNCHANGED config
      PROVE  TrustShape' /\ TrustExclusive'
  BY <1>1 DEF TrustShape, TrustExclusive
<1>2. CASE SetOther
  <2>1. PICK f, v : f # "trust" /\ Set(f, v)
    BY <1>2 DEF SetOther
  <2>2. config' = [config EXCEPT ![f] = v]
    BY <2>1 DEF Set
  <2>3. TrustShape' /\ config'.trust = config.trust
    BY <2>1, <2>2, OtherField
  <2> QED BY <2>3 DEF TrustExclusive
<1>3. ASSUME NEW t, Set("trust", t),
             t = [source |-> t.source, extra_cas |-> t.extra_cas, bypass |-> t.bypass],
             t.source \in {"Native", "WebpkiRoots"}, t.bypass \in BOOLEAN,
             t.bypass => t.extra_cas = <<>> /\ t.source = "Native"
      PROVE  TrustShape' /\ TrustExclusive'
  <2>1. config' = [config EXCEPT !["trust"] = t]
    BY <1>3 DEF Set
  <2>2. TrustShape' /\ config'.trust = t
    BY <1>3, <2>1, TrustField
  <2> QED BY <1>3, <2>2 DEF TrustExclusive
<1>4. CASE Panic \/ Convert
  BY <1>1, <1>4 DEF Panic, Convert
<1>5. CASE trust_cert
  <2> DEFINE t == [config.trust EXCEPT !.bypass = TRUE]
  <2>1. CASE ~Panic
    <3>1. Set("trust", t) /\ config.trust.extra_cas = <<>> /\ config.trust.source = "Native"
      BY <1>5, <2>1 DEF trust_cert
    <3>2. t = [source |-> "Native", extra_cas |-> <<>>, bypass |-> TRUE]
      BY <3>1, TrustRecord DEF TrustShape
    <3> HIDE DEF t
    <3> QED BY <1>3, <3>1, <3>2
  <2> QED BY <1>4, <2>1
<1>6. ASSUME NEW kind, AddCa(kind)
      PROVE  TrustShape' /\ TrustExclusive'
  <2>1. CASE ~Panic
    <3>1. PICK ca \in ExtraCas :
            /\ ~config.trust.bypass
            /\ Set("trust", [config.trust EXCEPT !.extra_cas = Append(@, ca)])
      BY <1>6, <2>1 DEF AddCa
    <3> DEFINE cas == Append(config.trust.extra_cas, ca)
               t == [config.trust EXCEPT !.extra_cas = cas]
    <3>2. Set("trust", t)
      BY <3>1
    <3> HIDE DEF cas
    <3>3. t = [source |-> config.trust.source, extra_cas |-> cas, bypass |-> FALSE]
      BY <3>1, TrustRecord DEF TrustShape
    <3>4. config.trust.source \in {"Native", "WebpkiRoots"}
      BY DEF TrustShape
    <3> HIDE DEF t
    <3> QED BY <1>3, <3>2, <3>3, <3>4
  <2> QED BY <1>4, <2>1
<1>7. CASE trust_webpki_roots
  <2> DEFINE t == [config.trust EXCEPT !.source = "WebpkiRoots"]
  <2>1. CASE ~Panic
    <3>1. Set("trust", t) /\ ~config.trust.bypass
      BY <1>7, <2>1 DEF trust_webpki_roots
    <3>2. t = [source |-> "WebpkiRoots", extra_cas |-> config.trust.extra_cas, bypass |-> FALSE]
      BY <3>1, TrustRecord DEF TrustShape
    <3> HIDE DEF t
    <3> QED BY <1>3, <3>1, <3>2
  <2> QED BY <1>4, <2>1
<1>8. CASE host
  <2>1. \E h \in {".", "db"} : Set("host", h)
    BY <1>8 DEF host
  <2>2. SetOther
    BY <2>1 DEF SetOther
  <2> QED BY <1>2, <2>2
<1>9. CASE port \/ database \/ instance_name \/ application_name
  <2>1. SetOther
    BY <1>9 DEF SetOther, port, database, instance_name, application_name
  <2> QED BY <1>2, <2>1
<1>10. CASE packet_size \/ hostname_in_certificate \/ client_name \/ handshake_timeout
  <2>1. SetOther
    BY <1>10 DEF SetOther, packet_size, hostname_in_certificate, client_name, handshake_timeout
  <2> QED BY <1>2, <2>1
<1>11. CASE \/ lossy_utf16_decoding \/ lossy_codepage_decoding
            \/ client_certificate \/ client_certificate_pkcs12
  <2>1. SetOther
    BY <1>11 DEF SetOther, lossy_utf16_decoding, lossy_codepage_decoding, client_certificate,
                 client_certificate_pkcs12
  <2> QED BY <1>2, <2>1
<1>12. CASE encryption \/ authentication \/ readonly \/ multi_subnet_failover \/ command_timeout
  <2>1. SetOther
    BY <1>12 DEF SetOther, encryption, authentication, readonly, multi_subnet_failover,
                 command_timeout
  <2> QED BY <1>2, <2>1
<1>13. trust_cert_ca \/ trust_cert_ca_bundle => TrustShape' /\ TrustExclusive'
  BY <1>6 DEF trust_cert_ca, trust_cert_ca_bundle
<1> QED BY <1>4, <1>5, <1>7, <1>8, <1>9, <1>10, <1>11, <1>12, <1>13 DEF Setter

-----------------------------------------------------------------------------
(* The steps.                                                               *)

\* A server's certificate met with the settings the Config has.
LEMMA HandshakeStep ==
    ASSUME TrustInv, NEW os, NEW cert, TlsHandshake(os, cert)
    PROVE  TrustInv'
<1>1. config' = config /\ build' = build
  BY DEF TlsHandshake, configVars
<1>2. dial' = [phase |-> "tls", os |-> os, cert |-> cert, alpn |-> Alpn(config, build),
               outcome |-> create_tls_stream(config, build, os, cert)]
  BY DEF TlsHandshake
<1>3. /\ dial'.phase = "tls" /\ dial'.cert = cert
      /\ dial'.outcome = create_tls_stream(config, build, os, cert)
  BY <1>2
<1>4. TrustShape' /\ TrustExclusive'
  BY <1>1 DEF TrustInv, TrustShape, TrustRespected, TrustExclusive
<1>5. StringNeverWeakens'
  BY <1>3 DEF StringNeverWeakens
<1>6. ASSUME create_tls_stream(config, build, os, cert) = "established", ~config.trust.bypass
      PROVE  /\ cert.root \in MeantRoots
             /\ cert.name = get_hostname_in_certificate(config)
             /\ \A i \in DOMAIN config.trust.extra_cas : config.trust.extra_cas[i].body \in Usable
  <2>1. config.trust.source \in {"Native", "WebpkiRoots"}
    BY DEF TrustInv, TrustShape
  <2>2. /\ ~IsErr(Roots(config, build, os))
        /\ cert.root \in Roots(config, build, os).ok
        /\ cert.name = get_hostname_in_certificate(config)
    BY <1>6, <2>1, EstablishedFacts
  <2>3. /\ \A i \in DOMAIN config.trust.extra_cas : config.trust.extra_cas[i].body \in Usable
        /\ \/ cert.root = "public" /\ ~(config.trust.source = "WebpkiRoots" /\ build.tls = "rustls")
           \/ cert.root = "mozilla" /\ config.trust.source = "WebpkiRoots" /\ build.tls = "rustls"
           \/ cert.root = ExtraRoot /\ config.trust.extra_cas # <<>>
    BY <1>6, <2>1, <2>2, RootFacts
  <2> QED BY <2>2, <2>3 DEF MeantRoots
<1>7. ImposterRejected'
  <2>1. MeantRoots' = MeantRoots /\ get_hostname_in_certificate(config)' = get_hostname_in_certificate(config)
    BY <1>1 DEF MeantRoots
  <2> QED BY <1>1, <1>3, <1>6, <2>1 DEF ImposterRejected
<1>8. CaNotIgnored'
  BY <1>1, <1>3, <1>6 DEF CaNotIgnored, Usable
<1> QED BY <1>4, <1>5, <1>7, <1>8 DEF TrustInv, TrustRespected

LEMMA StringStep ==
    ASSUME TrustInv, NEW d \in Dicts, FromString(d)
    PROVE  TrustInv'
<1> DEFINE c == from_config_string(d, build)
<1>1. build' = build
  BY DEF FromString
<1>2. CASE IsErr(c)
  <2>1. config' = config /\ dial'.phase = "refused"
    BY <1>2 DEF FromString
  <2> QED BY <1>1, <2>1 DEF TrustInv, TrustShape, TrustRespected, TrustExclusive,
                            ImposterRejected, CaNotIgnored, StringNeverWeakens
<1>3. CASE ~IsErr(c)
  <2>1. config' = c /\ dial'.phase = "parsed" /\ dial'.from = d
    BY <1>3 DEF FromString
  <2>2. LET says(key, values) == key \in DOMAIN d.dict /\ d.dict[key] \in values
        IN /\ c = [f \in DOMAIN c |-> c[f]] /\ "trust" \in DOMAIN c
           /\ c.trust = [source |-> "Native", extra_cas |-> c.trust.extra_cas,
                         bypass |-> c.trust.bypass]
           /\ c.trust.bypass \in BOOLEAN
           /\ c.trust.bypass => c.trust.extra_cas = <<>>
           /\ c.trust.bypass => says("trustservercertificate", {"true", "yes"})
           /\ HasTls(build) /\ c.encryption \notin {"Required", "Strict"} =>
                 says("encrypt", {"false", "no", "DANGER_PLAINTEXT"})
           /\ "trustservercertificateca" \in DOMAIN d.dict => c.trust.extra_cas # <<>>
    BY <1>3, StringFacts
  <2> HIDE DEF c
  <2>3. c.trust.source = "Native"
    BY <2>2
  <2>4. TrustShape' /\ TrustExclusive'
    BY <2>1, <2>2, <2>3 DEF TrustShape, TrustExclusive
  <2>5. ImposterRejected' /\ CaNotIgnored'
    BY <2>1 DEF ImposterRejected, CaNotIgnored
  <2>6. HasTls(build)' = HasTls(build)
    BY <1>1 DEF HasTls
  <2>7. StringNeverWeakens'
    BY <2>1, <2>2, <2>6 DEF StringNeverWeakens
  <2> QED BY <2>4, <2>5, <2>7 DEF TrustInv, TrustRespected
<1> QED BY <1>2, <1>3

LEMMA TrustStep ==
    ASSUME TrustInv, [OpeningNext]_openingVars
    PROVE  TrustInv'
<1>1. CASE Configure
  <2>1. dial'.phase = "no"
    BY <1>1 DEF Configure, NotDialled
  <2>2. TrustShape' /\ TrustExclusive'
    BY <1>1, SetterStep DEF Configure, TrustInv, TrustRespected
  <2> QED BY <2>1, <2>2 DEF TrustInv, TrustRespected, ImposterRejected, CaNotIgnored,
                            StringNeverWeakens
<1>2. CASE \E d \in Dicts : FromString(d)
  BY <1>2, StringStep
<1>3. CASE \E os \in {"usable", "empty"}, cert \in Certificates : TlsHandshake(os, cert)
  BY <1>3, HandshakeStep
<1>4. CASE Prelogin \/ Login
  <2>1. config' = config /\ dial'.phase \in {"prelogin", "login"}
    BY <1>4 DEF Prelogin, Login, configVars
  <2> QED BY <2>1 DEF TrustInv, TrustShape, TrustRespected, TrustExclusive, ImposterRejected,
                      CaNotIgnored, StringNeverWeakens
<1>5. CASE UNCHANGED openingVars
  <2>1. config' = config /\ dial' = dial /\ build' = build
    BY <1>5 DEF openingVars
  <2> QED BY <2>1 DEF TrustInv, TrustShape, TrustRespected, TrustExclusive, ImposterRejected,
                      CaNotIgnored, StringNeverWeakens, MeantRoots
<1> QED BY <1>1, <1>2, <1>3, <1>4, <1>5 DEF OpeningNext

\* Whatever the order of the setters, the connection string, the backend the
\* crate is built with, the CA sources and the certificate the server shows:
\* a TLS connection trusts no more than the application said (the setters of
\* Config, from_config_string, trust_anchors and create_tls_stream).
THEOREM TrustsNoMore == OpeningSpec => []TrustRespected
<1>1. OpeningInit => TrustInv
  <2> SUFFICES ASSUME OpeningInit PROVE TrustInv
    OBVIOUS
  <2>1. dial.phase = "no" /\ config = Default(build)
    BY DEF OpeningInit, NotDialled
  <2>2. /\ config.trust = TrustDefault /\ "trust" \in DOMAIN config
        /\ config = [f \in DOMAIN config |-> config[f]]
    BY <2>1 DEF Default
  <2> QED BY <2>1, <2>2 DEF TrustInv, TrustShape, TrustRespected, TrustExclusive, TrustDefault,
                            ImposterRejected, CaNotIgnored, StringNeverWeakens
<1>2. TrustInv /\ [OpeningNext]_openingVars => TrustInv'
  BY TrustStep
<1>3. TrustInv => TrustRespected
  BY DEF TrustInv
<1> QED BY <1>1, <1>2, <1>3, PTL DEF OpeningSpec

=============================================================================
