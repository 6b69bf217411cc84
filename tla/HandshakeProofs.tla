--------------------------- MODULE HandshakeProofs ---------------------------
(***************************************************************************)
(* The login is as protected as the configuration asks for, whatever the   *)
(* server answers: proofs about Handshake.                                 *)
(***************************************************************************)
EXTENDS Handshake, Integers, TLAPS

Demands == cfg.encryption \in {"On", "Required", "Strict"}

PreloginStages == {"send_prelogin", "flush_prelogin", "prelogin"}
LoginStages == {"send_login", "flush_login", "sspi", "send_sspi", "flush_sspi",
                "response", "connected"}

\* What the transport is at each stage, and that what turns TLS off after a
\* login has not been negotiated where encryption is demanded.
StrictFromTheStart ==
    cfg.encryption = "Strict" /\ cfg.backend /\ pc \in PreloginStages \cup LoginStages =>
        transport = "tls"

NoLoginWithoutBackend ==
    Demands /\ ~cfg.backend => pc \notin LoginStages \cup {"tls_handshake"}

NeverTurnedOff ==
    Demands /\ pc \in LoginStages \cup {"tls_handshake"} => encryption # "Off"

LoginOverTls ==
    /\ Demands /\ pc \in LoginStages => transport = "tls"
    /\ cfg.encryption = "Off" /\ cfg.backend /\ pc = "send_login" => transport = "tls"

EncryptionInv ==
    /\ StrictFromTheStart
    /\ NoLoginWithoutBackend
    /\ NeverTurnedOff
    /\ LoginOverTls
    /\ DemandedEncryption

-----------------------------------------------------------------------------
\* negotiated_encryption never settles for less than was demanded, and never
\* for a clear-text login if Off was asked for.
LEMMA NegotiationHolds ==
    ASSUME NEW expected, NEW server
    PROVE  /\ expected = "Strict" => NegotiatedWithTls(expected, server) = "Strict"
           /\ expected \in {"On", "Required"} =>
                NegotiatedWithTls(expected, server) \in {"On", "error"}
           /\ expected = "Off" => NegotiatedWithTls(expected, server) \in {"Off", "On"}
<1>1. CASE expected = "Strict"
  BY <1>1 DEF NegotiatedWithTls
<1>2. CASE expected \in {"On", "Required"}
  <2>1. CASE server \in {"Off", "NotSupported"}
    BY <1>2, <2>1 DEF NegotiatedWithTls
  <2>2. CASE server \notin {"Off", "NotSupported"}
    BY <1>2, <2>2 DEF NegotiatedWithTls
  <2> QED BY <1>2, <2>1, <2>2
<1>3. CASE expected = "Off"
  <2>1. CASE server = "Off"
    BY <1>3, <2>1 DEF NegotiatedWithTls
  <2>2. CASE server # "Off"
    BY <1>3, <2>2 DEF NegotiatedWithTls
  <2> QED BY <1>3, <2>1, <2>2
<1> QED BY <1>1, <1>2, <1>3

\* A step that ends in failure, with the transport and the messages as they are.
LEMMA FailureIsSafe ==
    ASSUME EncryptionInv, pc' = "failed", UNCHANGED <<cfg, sent>>
    PROVE  EncryptionInv'
BY DEF EncryptionInv, StrictFromTheStart, NoLoginWithoutBackend, NeverTurnedOff,
       LoginOverTls, DemandedEncryption, Demands, PreloginStages, LoginStages

\* A step that changes nothing the invariant speaks of.
LEMMA SilentIsSafe ==
    ASSUME EncryptionInv, UNCHANGED <<cfg, pc, transport, encryption, sent>>
    PROVE  EncryptionInv'
BY DEF EncryptionInv, StrictFromTheStart, NoLoginWithoutBackend, NeverTurnedOff,
       LoginOverTls, DemandedEncryption, Demands

\* A step from one stage of the login to another.
LEMMA LoginStageIsSafe ==
    ASSUME EncryptionInv, pc \in LoginStages, pc' \in LoginStages \ {"send_login"},
           UNCHANGED <<cfg, transport, encryption, sent>>
    PROVE  EncryptionInv'
BY DEF EncryptionInv, StrictFromTheStart, NoLoginWithoutBackend, NeverTurnedOff,
       LoginOverTls, DemandedEncryption, Demands, LoginStages

LEMMA InitIsSafe == Init => EncryptionInv
BY DEF Init, EncryptionInv, StrictFromTheStart, NoLoginWithoutBackend, NeverTurnedOff,
       LoginOverTls, DemandedEncryption, Demands, PreloginStages, LoginStages

LEMMA EstablishIsSafe == EncryptionInv /\ Establish => EncryptionInv'
BY DEF Establish, Hello, connVars, EncryptionInv, StrictFromTheStart, NoLoginWithoutBackend,
       NeverTurnedOff, LoginOverTls, DemandedEncryption, Demands, PreloginStages, LoginStages

\* Each message is sent over the transport of its stage.
LEMMA WriteIsSafe ==
    EncryptionInv /\ (SendPrelogin \/ SendLogin \/ SendSspi) => EncryptionInv'
<1> SUFFICES ASSUME EncryptionInv, SendPrelogin \/ SendLogin \/ SendSspi
             PROVE  EncryptionInv'
  OBVIOUS
<1> USE DEF Write, EncryptionInv, StrictFromTheStart, NoLoginWithoutBackend, NeverTurnedOff,
            LoginOverTls, DemandedEncryption, Demands, PreloginStages, LoginStages
<1>1. CASE SendPrelogin
  BY <1>1 DEF SendPrelogin
<1>2. CASE SendLogin
  BY <1>2 DEF SendLogin
<1>3. CASE SendSspi
  BY <1>3 DEF SendSspi
<1> QED BY <1>1, <1>2, <1>3

LEMMA FlushIsSafe == EncryptionInv /\ Flush => EncryptionInv'
<1> SUFFICES ASSUME EncryptionInv, Flush
             PROVE  EncryptionInv'
  OBVIOUS
<1> USE DEF Flush, PostLogin, EncryptionInv, StrictFromTheStart, NoLoginWithoutBackend,
            NeverTurnedOff, LoginOverTls, DemandedEncryption, Demands, PreloginStages, LoginStages
<1>1. CASE pc = "flush_prelogin"
  BY <1>1
<1>2. CASE pc = "flush_login"
  <2>1. pc' \in {"sspi", "response"}
    BY <1>2
  <2> QED BY <1>2, <2>1
<1>3. CASE pc = "flush_sspi"
  BY <1>3
<1> QED BY <1>1, <1>2, <1>3

LEMMA PreloginAnswerIsSafe == EncryptionInv /\ PreloginAnswer => EncryptionInv'
<1> SUFFICES ASSUME EncryptionInv, PreloginAnswer
             PROVE  EncryptionInv'
  OBVIOUS
<1> DEFINE level == NegotiatedEncryption(cfg.encryption, Head(s2c).encryption)
<1>0. UNCHANGED <<cfg, transport>>
  BY DEF PreloginAnswer
<1>1. CASE pc' = "failed" /\ UNCHANGED sent
  BY <1>0, <1>1, FailureIsSafe
<1>2. CASE /\ level # "error" /\ encryption' = level /\ pc' = AfterPrelogin(level)
           /\ IF pc' = "tls_handshake" THEN Hello("wrapped") ELSE UNCHANGED <<c2s, sent>>
  <2>0. pc = "prelogin"
    BY DEF PreloginAnswer
  <2>1. pc' \in {"failed", "send_login", "tls_handshake"}
    BY <1>2 DEF AfterPrelogin
  <2>2. \A m \in sent' : m.kind # "hello" => m \in sent
    BY <1>2 DEF Hello
  <2>3. pc' # "connected"
    BY <2>1
  <2>4. DemandedEncryption'
    BY <1>0, <2>2, <2>3 DEF EncryptionInv, DemandedEncryption
  <2>5. NoLoginWithoutBackend'
    BY <1>0, <1>2 DEF NoLoginWithoutBackend, AfterPrelogin, Demands, LoginStages
  <2>6. Demands /\ cfg.backend => encryption' \in {"On", "Strict"}
    BY <1>2, NegotiationHolds DEF NegotiatedEncryption, Demands
  <2>7. NeverTurnedOff'
    BY <1>0, <2>5, <2>6 DEF NeverTurnedOff, NoLoginWithoutBackend, Demands
  <2>8. StrictFromTheStart'
    BY <1>0, <2>0 DEF EncryptionInv, StrictFromTheStart, PreloginStages
  <2>9. ASSUME cfg.backend, cfg.encryption \in {"On", "Required", "Off"}
        PROVE  pc' \notin LoginStages
    <3>1. level \in {"On", "Off"}
      BY <1>2, <2>9, NegotiationHolds DEF NegotiatedEncryption
    <3> QED BY <1>2, <2>9, <3>1 DEF AfterPrelogin, LoginStages
  <2>10. LoginOverTls'
    BY <1>0, <2>5, <2>8, <2>9
       DEF LoginOverTls, NoLoginWithoutBackend, StrictFromTheStart, Demands, LoginStages
  <2> QED BY <2>4, <2>5, <2>7, <2>8, <2>10 DEF EncryptionInv
<1>3. \/ pc' = "failed" /\ UNCHANGED sent
      \/ /\ level # "error" /\ encryption' = level /\ pc' = AfterPrelogin(level)
         /\ IF pc' = "tls_handshake" THEN Hello("wrapped") ELSE UNCHANGED <<c2s, sent>>
  BY DEF PreloginAnswer, Fail
<1> QED BY <1>1, <1>2, <1>3

LEMMA TlsDoneIsSafe == EncryptionInv /\ TlsDone => EncryptionInv'
BY DEF TlsDone, EncryptionInv, StrictFromTheStart, NoLoginWithoutBackend, NeverTurnedOff,
       LoginOverTls, DemandedEncryption, Demands, PreloginStages, LoginStages

LEMMA NextIsSafe == EncryptionInv /\ [Next]_vars => EncryptionInv'
<1> SUFFICES ASSUME EncryptionInv, [Next]_vars
             PROVE  EncryptionInv'
  OBVIOUS
<1>1. CASE Establish
  BY <1>1, EstablishIsSafe
<1>2. CASE SendPrelogin \/ SendLogin \/ SendSspi
  BY <1>2, WriteIsSafe
<1>3. CASE PreloginAnswer
  BY <1>3, PreloginAnswerIsSafe
<1>4. CASE TlsDone
  BY <1>4, TlsDoneIsSafe
<1>5. CASE Flush
  BY <1>5, FlushIsSafe
<1>6. CASE TlsFails \/ AuthFails \/ AnswerEnds \/ ReadFails \/ WriteFails \/ TimesOut
  <2>1. pc' = "failed" /\ UNCHANGED <<cfg, sent>>
    BY <1>6 DEF TlsFails, AuthFails, AnswerEnds, ReadFails, WriteFails, TimesOut, Fail
  <2> QED BY <2>1, FailureIsSafe
<1>7. CASE ReadToken
  <2>1. /\ UNCHANGED <<cfg, transport, encryption, sent>>
        /\ pc' = "failed" \/ pc' = pc
    BY <1>7 DEF ReadToken, Fail
  <2> QED BY <2>1, FailureIsSafe, SilentIsSafe
<1>8. CASE ReadSspi
  <2>1. /\ UNCHANGED <<cfg, transport, encryption, sent>>
        /\ pc \in LoginStages
        /\ pc' \in {"failed", "send_sspi", "flush_sspi"}
    BY <1>8 DEF ReadSspi, Fail, LoginStages
  <2> QED BY <2>1, FailureIsSafe, LoginStageIsSafe DEF LoginStages
<1>9. CASE ReadDone
  <2>1. /\ UNCHANGED <<cfg, transport, encryption, sent>>
        /\ pc \in LoginStages
        /\ pc' \in {"failed", "connected"}
    BY <1>9 DEF ReadDone, Fail, LoginStages
  <2> QED BY <2>1, FailureIsSafe, LoginStageIsSafe DEF LoginStages
<1>10. CASE Server \/ SrvClose \/ SrvStall \/ UNCHANGED vars
  <2>1. UNCHANGED <<cfg, pc, transport, encryption, sent>>
    BY <1>10 DEF Server, SrvPrelogin, SrvTls, SrvLogin, SrvChallenge, SrvSspi, SrvRefuses,
                 SrvClose, SrvStall, vars, connVars
  <2> QED BY <2>1, SilentIsSafe
<1> QED BY <1>1, <1>2, <1>3, <1>4, <1>5, <1>6, <1>7, <1>8, <1>9, <1>10 DEF Next, Client

\* Whatever the server answers, what is sent of a login and what a connection
\* ends up with is as protected as the configuration asks for (establish,
\* negotiated_encryption, tls_handshake, post_login_encryption).
THEOREM LoginProtected == Spec => []DemandedEncryption
<1>1. EncryptionInv => DemandedEncryption
  BY DEF EncryptionInv
<1> QED BY InitIsSafe, NextIsSafe, <1>1, PTL DEF Spec

-----------------------------------------------------------------------------
(***************************************************************************)
(* Types of what Handshake keeps.                                          *)
(***************************************************************************)
Vias == {"raw", "tls", "wrapped"}
ClientMessage ==
    [kind : {"hello", "prelogin", "login", "sspi"}, via : Vias, encryption : Levels, auth : Auths]
ServerUnit ==
    [kind : {"tls", "prelogin", "token"}, via : Vias,
     encryption : Levels \cup {"invalid", "none"}, instanceOk : BOOLEAN,
     token : Tokens \cup Challenges \cup {"none"}, last : BOOLEAN]

Typed ==
    /\ cfg \in Configs /\ transport \in {"raw", "tls"}
    /\ out \in Seq(ClientMessage) /\ c2s \in Seq(ClientMessage) /\ s2c \in Seq(ServerUnit)
    /\ srv.via \in {"raw", "tls"}
    /\ srv = [reply |-> srv.reply, client |-> srv.client, via |-> srv.via]
    /\ srv.reply \in Levels \cup {"invalid", "none"} /\ srv.client \in Levels \cup {"none"}
    /\ resp \in Seq(Tokens)
    /\ last_error \in Errors \cup {"none"} /\ routing \in Routes \cup {"none"}

\* Facts about sequences.
LEMMA EmptyIsTyped == \A S : << >> \in Seq(S)
OBVIOUS

LEMMA MessageType ==
    ASSUME Typed, NEW kind \in {"hello", "prelogin", "login", "sspi"}, NEW via \in Vias
    PROVE  /\ Message(kind, via) \in ClientMessage
           /\ Message(kind, via).kind = kind /\ Message(kind, via).via = via
           /\ Message(kind, via).encryption = WireValue(cfg.encryption)
           /\ Message(kind, via).auth = cfg.auth
BY HandshakeAssumption DEF Typed, Message, ClientMessage, WireValue, Levels

\* The units of an answer.
LEMMA AnswerFacts ==
    ASSUME NEW via \in Vias, NEW tokens \in Seq(Tokens \cup Challenges)
    PROVE  /\ Answer(tokens, via) \in Seq(ServerUnit)
           /\ Len(Answer(tokens, via)) = Len(tokens)
           /\ \A i \in 1..Len(tokens) : /\ Answer(tokens, via)[i].token = tokens[i]
                                        /\ Answer(tokens, via)[i].via = via
<1>1. Len(tokens) \in Nat
  OBVIOUS
<1>2. \A i \in 1..Len(tokens) :
        /\ Unit("token", via, "none", TRUE, tokens[i], i = Len(tokens)) \in ServerUnit
        /\ Unit("token", via, "none", TRUE, tokens[i], i = Len(tokens)).token = tokens[i]
        /\ Unit("token", via, "none", TRUE, tokens[i], i = Len(tokens)).via = via
  <2> SUFFICES ASSUME NEW i \in 1..Len(tokens)
               PROVE  /\ Unit("token", via, "none", TRUE, tokens[i], i = Len(tokens)) \in ServerUnit
                      /\ Unit("token", via, "none", TRUE, tokens[i], i = Len(tokens)).token = tokens[i]
                      /\ Unit("token", via, "none", TRUE, tokens[i], i = Len(tokens)).via = via
    OBVIOUS
  <2>1. tokens[i] \in Tokens \cup Challenges
    OBVIOUS
  <2> DEFINE l == i = Len(tokens)
  <2>2. l \in BOOLEAN
    OBVIOUS
  <2> HIDE DEF l
  <2>3. /\ Unit("token", via, "none", TRUE, tokens[i], l) \in ServerUnit
        /\ Unit("token", via, "none", TRUE, tokens[i], l).token = tokens[i]
        /\ Unit("token", via, "none", TRUE, tokens[i], l).via = via
    BY <2>1, <2>2 DEF Unit, ServerUnit
  <2> QED BY <2>3 DEF l
<1> DEFINE U(i) == Unit("token", via, "none", TRUE, tokens[i], i = Len(tokens))
<1>3. Answer(tokens, via) = [i \in 1..Len(tokens) |-> U(i)]
  BY DEF Answer
<1>4. \A i \in 1..Len(tokens) : U(i) \in ServerUnit /\ U(i).token = tokens[i] /\ U(i).via = via
  BY <1>2
<1> HIDE DEF U
<1> QED BY <1>1, <1>3, <1>4

\* A transport with one message, and an empty one.
LEMMA Single ==
    ASSUME NEW S, NEW s \in Seq(S), Len(s) <= 1, s # << >>
    PROVE  Head(s) = s[1] /\ Tail(s) = << >> /\ Len(s) = 1 /\ s[1] \in S
<1>1. Len(s) = 1 /\ Head(s) = s[1] /\ s[1] \in S
  OBVIOUS
<1>2. Tail(s) \in Seq(S) /\ Len(Tail(s)) = 0
  BY <1>1
<1>3. \A t \in Seq(S) : Len(t) = 0 => t = << >>
  OBVIOUS
<1> QED BY <1>1, <1>2, <1>3

LEMMA EmptyConcat ==
    ASSUME NEW S, NEW s \in Seq(S)
    PROVE  << >> \o s = s /\ s \o << >> = s
OBVIOUS

LEMMA Shifted ==
    ASSUME NEW S, NEW s \in Seq(S), s # << >>
    PROVE  /\ Head(s) = s[1] /\ s[1] \in S /\ Tail(s) \in Seq(S) /\ Len(s) \in Nat \ {0}
           /\ Len(Tail(s)) = Len(s) - 1
           /\ \A i \in 1..Len(Tail(s)) : Tail(s)[i] = s[i + 1]
OBVIOUS

LEMMA OneElement ==
    ASSUME NEW S, NEW m \in S
    PROVE  /\ Append(<< >>, m) \in Seq(S) /\ Len(Append(<< >>, m)) = 1
           /\ Append(<< >>, m)[1] = m /\ Append(<< >>, m) # << >>
OBVIOUS

LEMMA NotEmpty ==
    ASSUME NEW S, NEW s \in Seq(S), Len(s) = 1
    PROVE  s # << >>
OBVIOUS

-----------------------------------------------------------------------------
(***************************************************************************)
(* Client and server change over between packets and TLS records at the    *)
(* same place, and what connect reports is what the answer said.           *)
(***************************************************************************)
\* The stages after the login has been written.
Speaking == {"sspi", "send_sspi", "flush_sspi", "response"}

\* One message at a time, in one place.
OneAtATime ==
    /\ Len(c2s) <= 1
    /\ c2s # << >> => pc \in {"strict_tls", "prelogin", "tls_handshake", "sspi", "response",
                              "connected", "failed"}
    /\ pc \in {"establish", "send_prelogin", "flush_prelogin", "send_login", "flush_login",
               "send_sspi"} => c2s = << >> /\ s2c = << >>
    /\ pc \notin {"flush_prelogin", "flush_login", "flush_sspi", "connected", "failed"} => out = << >>
    /\ pc \in {"flush_prelogin", "flush_login"} =>
         /\ Len(out) = 1 /\ out[1].via = transport /\ out[1].auth = cfg.auth
         /\ out[1].encryption = WireValue(cfg.encryption)
         /\ out[1].kind = IF pc = "flush_login" THEN "login" ELSE "prelogin"
    /\ pc = "flush_sspi" =>
         /\ c2s = << >>
         /\ out # << >> => /\ Len(out) = 1 /\ out[1].kind = "sspi" /\ out[1].via = transport
                           /\ s2c = << >> /\ resp = << >>
    /\ pc \in {"strict_tls", "prelogin", "tls_handshake"} =>
         Len(s2c) <= 1 /\ (c2s # << >> => s2c = << >>)

\* Both sides have switched, or the message that makes the server switch is
\* under way; both agree on whether TLS ends with the login.
Changeover ==
    /\ pc \in {"establish", "send_prelogin", "flush_prelogin", "prelogin", "send_login",
               "flush_login"} => transport = srv.via
    /\ pc \in {"strict_tls", "tls_handshake"} =>
         (c2s # << >> => c2s[1].kind = "hello") /\ (s2c # << >> => srv.via = "tls")
    /\ pc = "prelogin" =>
         /\ c2s # << >> => c2s[1].kind = "prelogin" /\ c2s[1].encryption = WireValue(cfg.encryption)
         /\ s2c # << >> => /\ s2c[1].via = transport /\ s2c[1].encryption = srv.reply
                           /\ srv.client = WireValue(cfg.encryption)
    /\ ~cfg.backend => transport = "raw" /\ pc \notin {"strict_tls", "tls_handshake"}
    /\ cfg.backend /\ pc \in {"tls_handshake", "send_login", "flush_login"} =>
         (encryption = "Off" <=> srv.client = "Off" /\ srv.reply = "Off")
    /\ pc \in Speaking =>
         /\ c2s # << >> =>
              /\ s2c = << >> /\ resp = << >>
              /\ \/ /\ c2s[1].kind = "login" /\ AfterLogin = transport
                    /\ pc = "sspi" \/ (pc = "response" /\ c2s[1].auth = "oneshot")
                 \/ c2s[1].kind = "sspi" /\ srv.via = transport /\ pc = "response"
         /\ c2s = << >> => srv.via = transport
         /\ \A i \in 1..Len(s2c) : s2c[i].via = transport

\* How much of the answer has been read; -1 with a challenge before it.
Consumed == Len(resp) - Len(s2c)

FirstErrorKept ==
    /\ last_error = "none" => \A i \in 1..Consumed : resp[i] \notin Errors
    /\ last_error # "none" => \E i \in 1..Consumed :
         resp[i] = last_error /\ \A j \in 1..(i - 1) : resp[j] \notin Errors

RoutingKept ==
    /\ routing = "none" /\ pc # "sspi" => \A i \in 1..Consumed : resp[i] \notin Routes
    /\ routing # "none" => \E i \in 1..Consumed : resp[i] = routing

\* What is still to be read is the rest of the answer.
RestUnread ==
    /\ Consumed >= -1
    /\ Consumed = -1 => /\ pc = "sspi" /\ s2c[1].token \in Challenges /\ last_error = "none"
                        /\ routing = "none"
                        /\ s2c[1].token = "sspi" => Len(s2c) = 1
    /\ \A i \in 1..Len(s2c) : Consumed + i >= 1 => s2c[i].token = resp[Consumed + i]
    /\ \A i \in 1..Consumed : resp[i] # "badsize"
    /\ pc \in {"send_sspi", "flush_sspi"} => Consumed = 0

Answering ==
    /\ resp \in Responses \cup {<< >>}
    /\ resp # << >> => c2s = << >> /\ pc \in {"sspi", "flush_sspi", "response", "connected", "failed"}
    /\ pc \notin Speaking \cup {"connected", "failed"} =>
         resp = << >> /\ last_error = "none" /\ routing = "none"
    /\ pc \in Speaking => RestUnread /\ FirstErrorKept /\ RoutingKept

Reported ==
    /\ SidesAgree /\ OutcomeFaithful
    /\ outcome \in Errors \cup Routes \cup {"ok"} => resp # << >>
    /\ ~Ended => outcome = "none"

\* The inductive invariant.
Agreement == Typed /\ OneAtATime /\ Changeover /\ Answering /\ Reported

LEMMA AgreementInit == Init => Agreement
<1> SUFFICES ASSUME Init PROVE Agreement
  OBVIOUS
<1>1. /\ cfg \in Configs /\ pc = "establish" /\ transport = "raw" /\ out = << >> /\ c2s = << >> /\ s2c = << >>
      /\ srv = [reply |-> "none", client |-> "none", via |-> "raw"] /\ resp = << >>
      /\ last_error = "none" /\ routing = "none" /\ outcome = "none"
  BY DEF Init
<1>2. Typed
  BY <1>1, EmptyIsTyped DEF Typed
<1>3. OneAtATime /\ Changeover /\ Answering
  BY <1>1 DEF OneAtATime, Changeover, Answering, Speaking
<1>4. Reported
  BY <1>1 DEF Reported, SidesAgree, OutcomeFaithful, Errors, Routes, Ended
<1> QED BY <1>2, <1>3, <1>4 DEF Agreement

\* The call fails: all that matters is what it reports.
LEMMA AgreementFails ==
    ASSUME Agreement, Typed', pc' = "failed", UNCHANGED <<cfg, transport, resp>>,
           c2s' = c2s, ~Ended,
           outcome' \notin Errors \cup Routes \cup {"ok", "garbled"} \/ (Reported' /\ resp # << >>)
    PROVE  Agreement'
<1>1. OneAtATime'
  BY DEF Agreement, OneAtATime
<1>2. Changeover' /\ Answering'
  BY DEF Agreement, Changeover, Answering, Speaking
<1>3. Reported'
  BY DEF Reported, SidesAgree, OutcomeFaithful, Ended
<1> QED BY <1>1, <1>2, <1>3 DEF Agreement

\* The server's moves once the call is over change nothing it reported.
LEMMA AgreementOver ==
    ASSUME Agreement, Typed', Ended, UNCHANGED <<pc, outcome, cfg, transport>>,
           Len(c2s') <= 1, resp' \in Responses \cup {<< >>}, resp' # << >> => c2s' = << >>,
           UNCHANGED resp \/ resp = << >>
    PROVE  Agreement'
<1>0. pc \in {"connected", "failed"}
  BY DEF Ended
<1>1. OneAtATime' /\ Changeover' /\ Answering'
  BY <1>0 DEF Agreement, OneAtATime, Changeover, Answering, Speaking
<1>2. Reported'
  <2>1. CASE UNCHANGED resp
    BY <2>1 DEF Agreement, Reported, SidesAgree, OutcomeFaithful, Ended, Has, First
  <2>2. CASE resp = << >>
    BY <2>2 DEF Agreement, Reported, SidesAgree, OutcomeFaithful, Ended
  <2> QED BY <2>1, <2>2
<1> QED BY <1>1, <1>2 DEF Agreement

\* The steps before the first message, and those that write one.
LEMMA AgreementWrites ==
    ASSUME Agreement, Establish \/ SendPrelogin \/ SendLogin \/ SendSspi
    PROVE  Agreement'
<1>1. c2s = << >> /\ s2c = << >> /\ out = << >> /\ ~Ended /\ resp = << >>
  BY DEF Establish, SendPrelogin, SendLogin, SendSspi, Agreement, OneAtATime, Answering, Ended
<1>2. CASE Establish
  <2>1. /\ UNCHANGED <<cfg, transport, encryption, out, last_error, routing, outcome, s2c, srv, resp>>
        /\ pc = "establish" /\ transport = srv.via /\ last_error = "none" /\ routing = "none"
    BY <1>2 DEF Establish, connVars, replyVars, srvVars, Agreement, Changeover, Answering, Speaking
  <2> DEFINE m == Message("hello", "raw")
  <2>2. \/ c2s' = Append(<< >>, m) /\ pc' = "strict_tls" /\ cfg.backend
        \/ c2s' = << >> /\ pc' = "send_prelogin"
    BY <1>1, <1>2 DEF Establish, Hello
  <2>3. m \in ClientMessage /\ m.kind = "hello"
    BY MessageType DEF Agreement, Vias
  <2> HIDE DEF m
  <2>4. c2s' \in Seq(ClientMessage) /\ Len(c2s') <= 1 /\ (c2s' # << >> => c2s'[1].kind = "hello")
    <3>1. CASE c2s' = Append(<< >>, m)
      BY <2>3, <3>1, OneElement
    <3>2. CASE c2s' = << >>
      BY <3>2, EmptyIsTyped
    <3> QED BY <2>2, <3>1, <3>2
  <2>5. Typed'
    BY <2>1, <2>4 DEF Agreement, Typed
  <2>6. OneAtATime' /\ Changeover'
    BY <1>1, <2>1, <2>2, <2>4 DEF Agreement, OneAtATime, Changeover, Speaking
  <2>7. Answering'
    BY <1>1, <2>1, <2>2 DEF Answering, Speaking
  <2>8. Reported'
    BY <2>1, <2>2 DEF Agreement, Reported, SidesAgree, OutcomeFaithful, Ended, Has, First
  <2> QED BY <2>5, <2>6, <2>7, <2>8 DEF Agreement
<1>3. CASE SendPrelogin \/ SendLogin \/ SendSspi
  <2>1. UNCHANGED <<cfg, transport, encryption, last_error, routing, outcome, c2s, s2c, srv, resp>>
    BY <1>3 DEF SendPrelogin, SendLogin, SendSspi, Write, replyVars, srvVars
  <2>2. PICK kind \in {"prelogin", "login", "sspi"} :
          /\ out' = Append(<< >>, Message(kind, transport))
          /\ kind = "prelogin" => pc = "send_prelogin" /\ pc' = "flush_prelogin"
          /\ kind = "login" => pc = "send_login" /\ pc' = "flush_login"
          /\ kind = "sspi" => pc = "send_sspi" /\ pc' = "flush_sspi"
    BY <1>1, <1>3 DEF SendPrelogin, SendLogin, SendSspi, Write
  <2> DEFINE m == Message(kind, transport)
  <2>3. /\ m \in ClientMessage /\ m.kind = kind /\ m.via = transport /\ m.auth = cfg.auth
        /\ m.encryption = WireValue(cfg.encryption)
    <3>1. transport \in Vias /\ kind \in {"hello", "prelogin", "login", "sspi"}
      BY DEF Agreement, Typed, Vias
    <3> QED BY <3>1, MessageType DEF Agreement
  <2> HIDE DEF m
  <2>4. out' \in Seq(ClientMessage) /\ Len(out') = 1 /\ out'[1] = m
    BY <2>2, <2>3 DEF m
  <2>5. Typed'
    BY <2>1, <2>4 DEF Agreement, Typed
  <2>6. OneAtATime'
    BY <1>1, <2>1, <2>2, <2>3, <2>4 DEF OneAtATime
  <2>7. Changeover'
    BY <1>1, <2>1, <2>2 DEF Agreement, Changeover, Speaking
  <2>8. Answering'
    BY <1>1, <2>1, <2>2 DEF Agreement, Answering, Speaking, RestUnread, FirstErrorKept, RoutingKept, Consumed
  <2>9. Reported'
    BY <2>1, <2>2 DEF Agreement, Reported, SidesAgree, OutcomeFaithful, Ended, Has, First
  <2> QED BY <2>5, <2>6, <2>7, <2>8, <2>9 DEF Agreement
<1> QED BY <1>2, <1>3

\* Flushing: the message is under way, and after a login the client has made
\* the switch that the server makes when it reads it.
LEMMA AgreementFlush ==
    ASSUME Agreement, Flush
    PROVE  Agreement'
<1>1. /\ c2s = << >> /\ out \in Seq(ClientMessage) /\ c2s' = << >> \o out /\ out' = << >>
      /\ UNCHANGED <<cfg, encryption, last_error, routing, outcome, s2c, srv, resp>>
      /\ pc \in {"flush_prelogin", "flush_login", "flush_sspi"}
  BY DEF Flush, Flushed, replyVars, srvVars, Agreement, Typed, OneAtATime
<1>2. c2s' = out /\ Len(out) <= 1
  BY <1>1, EmptyConcat, EmptyIsTyped DEF Agreement, OneAtATime
<1>3. /\ pc = "flush_prelogin" => pc' = "prelogin" /\ UNCHANGED transport
      /\ pc = "flush_login" => /\ transport' = PostLogin(encryption, transport)
                               /\ pc' = IF cfg.auth # "oneshot" THEN "sspi" ELSE "response"
      /\ pc = "flush_sspi" => pc' = "response" /\ UNCHANGED transport
  <2>1. CASE pc = "flush_prelogin"
    BY <2>1 DEF Flush
  <2>2. CASE pc = "flush_login"
    BY <2>2 DEF Flush
  <2>3. CASE pc = "flush_sspi"
    BY <2>3 DEF Flush
  <2> QED BY <2>1, <2>2, <2>3
<1>4. Typed'
  BY <1>1, <1>2, <1>3, EmptyIsTyped DEF Agreement, Typed, PostLogin
<1>5. pc' \in {"prelogin", "sspi", "response"}
  BY <1>1, <1>3
<1>6. OneAtATime'
  BY <1>1, <1>2, <1>3, <1>5 DEF Agreement, OneAtATime
<1>7. Changeover'
  <2>1. CASE pc = "flush_prelogin"
    BY <1>1, <1>2, <1>3, <2>1 DEF Agreement, OneAtATime, Changeover, Speaking
  <2>2. CASE pc = "flush_login"
    <3>1. /\ transport = srv.via /\ s2c = << >> /\ resp = << >> /\ out[1].auth = cfg.auth
          /\ out[1].kind = "login" /\ Len(out) = 1
      BY <2>2 DEF Agreement, OneAtATime, Changeover, Answering, Speaking
    <3>2. transport' = AfterLogin' /\ (~cfg.backend => transport' = "raw")
      BY <1>1, <1>3, <2>2, <3>1 DEF Agreement, Changeover, AfterLogin, PostLogin
    <3>3. pc' = "sspi" \/ (pc' = "response" /\ cfg.auth = "oneshot")
      BY <1>3, <2>2
    <3>4. out # << >>
      BY <1>1, <3>1, NotEmpty
    <3> QED BY <1>1, <1>2, <3>1, <3>2, <3>3, <3>4 DEF Changeover, Speaking
  <2>3. CASE pc = "flush_sspi"
    <3>1. /\ transport = srv.via
          /\ out # << >> => out[1].kind = "sspi" /\ s2c = << >> /\ resp = << >>
          /\ \A i \in 1..Len(s2c) : s2c[i].via = transport
      BY <1>1, <2>3 DEF Agreement, OneAtATime, Changeover, Speaking
    <3>2. ~cfg.backend => transport = "raw"
      BY DEF Agreement, Changeover
    <3> QED BY <1>1, <1>2, <1>3, <2>3, <3>1, <3>2 DEF Changeover, Speaking
  <2> QED BY <1>1, <2>1, <2>2, <2>3
<1>8. Answering'
  <2>1. CASE pc = "flush_prelogin"
    BY <1>1, <1>3, <2>1 DEF Agreement, Answering, Speaking
  <2>2. CASE pc = "flush_login"
    <3>1. s2c = << >> /\ resp = << >> /\ last_error = "none" /\ routing = "none"
      BY <2>2 DEF Agreement, OneAtATime, Answering, Speaking
    <3> QED BY <1>1, <1>5, <3>1 DEF Answering, Speaking, RestUnread, FirstErrorKept, RoutingKept, Consumed
  <2>3. CASE pc = "flush_sspi"
    <3>1. /\ resp \in Responses \cup {<< >>} /\ RestUnread /\ FirstErrorKept /\ RoutingKept
          /\ resp # << >> => out = << >>
      BY <2>3 DEF Agreement, OneAtATime, Answering, Speaking
    <3>2. Consumed' = Consumed /\ Consumed = 0
      BY <1>1, <2>3, <3>1 DEF Consumed, RestUnread
    <3>3. RestUnread' /\ FirstErrorKept' /\ RoutingKept'
      BY <1>1, <1>3, <2>3, <3>1, <3>2 DEF RestUnread, FirstErrorKept, RoutingKept
    <3> QED BY <1>1, <1>2, <1>3, <2>3, <3>1, <3>3 DEF Answering, Speaking
  <2> QED BY <1>1, <2>1, <2>2, <2>3
<1>9. Reported'
  BY <1>1, <1>5 DEF Agreement, Reported, SidesAgree, OutcomeFaithful, Ended, Has, First
<1> QED BY <1>4, <1>6, <1>7, <1>8, <1>9 DEF Agreement

\* Off is negotiated exactly if both sides said Off, and strict mode is not Off
\* to the server.
LEMMA OffAgreed ==
    ASSUME NEW expected \in Levels, NEW server
    PROVE  NegotiatedWithTls(expected, server) = "Off" <=> WireValue(expected) = "Off" /\ server = "Off"
<1>1. CASE expected \in {"NotSupported", "Off"} /\ server = expected
  BY <1>1 DEF NegotiatedWithTls, WireValue
<1>2. CASE expected \in {"NotSupported", "Off"} /\ server # expected
  BY <1>2 DEF NegotiatedWithTls, WireValue
<1>3. CASE expected \in {"On", "Required"}
  BY <1>3, NegotiationHolds DEF WireValue
<1>4. CASE expected = "Strict"
  BY <1>4, NegotiationHolds DEF WireValue
<1> QED BY <1>1, <1>2, <1>3, <1>4 DEF Levels

\* The answer to the prelogin, and the end of the TLS handshake.
LEMMA AgreementNegotiates ==
    ASSUME Agreement, PreloginAnswer \/ TlsDone
    PROVE  Agreement'
<1>1. /\ pc \in {"prelogin", "strict_tls", "tls_handshake"} /\ s2c # << >> /\ s2c' = Tail(s2c)
      /\ UNCHANGED <<cfg, out, last_error, routing, srv, resp>>
  BY DEF PreloginAnswer, TlsDone, Readable, replyVars, srvVars
<1>2. /\ c2s = << >> /\ Head(s2c) = s2c[1] /\ s2c' = << >> /\ out = << >> /\ ~Ended
      /\ resp = << >> /\ last_error = "none" /\ routing = "none" /\ outcome = "none"
  BY <1>1, Single DEF Agreement, Typed, OneAtATime, Answering, Speaking, Reported, Ended
<1>3. CASE TlsDone
  <2>1. /\ transport' = "tls" /\ srv.via = "tls" /\ c2s' = << >> /\ cfg.backend /\ outcome' = "none"
        /\ \/ pc = "strict_tls" /\ pc' = "send_prelogin"
           \/ pc = "tls_handshake" /\ pc' = "send_login"
        /\ encryption' = encryption
    BY <1>1, <1>2, <1>3 DEF TlsDone, Agreement, Changeover
  <2>2. Typed'
    BY <1>1, <1>2, <2>1 DEF Agreement, Typed
  <2>3. OneAtATime' /\ Changeover'
    BY <1>1, <1>2, <2>1 DEF Agreement, OneAtATime, Changeover, Speaking
  <2>4. Answering'
    BY <1>1, <1>2, <2>1 DEF Agreement, Answering, Speaking
  <2>5. Reported'
    BY <1>1, <1>2, <2>1 DEF Agreement, Reported, SidesAgree, OutcomeFaithful, Ended, Errors, Routes
  <2> QED BY <2>2, <2>3, <2>4, <2>5 DEF Agreement
<1>4. CASE PreloginAnswer /\ pc' = "failed"
  <2>1. outcome' \in {"protocol", "tls"} /\ UNCHANGED <<transport, c2s>>
    BY <1>2, <1>4 DEF PreloginAnswer, Fail, Hello
  <2>2. Typed'
    BY <1>1, <1>2, <2>1 DEF Agreement, Typed
  <2> QED BY <1>1, <1>2, <1>4, <2>1, <2>2, AgreementFails DEF Errors, Routes
<1>5. CASE PreloginAnswer /\ pc' # "failed"
  <2> DEFINE level == NegotiatedEncryption(cfg.encryption, s2c[1].encryption)
             m == Message("hello", "wrapped")
  <2>1. /\ pc = "prelogin" /\ transport = srv.via /\ UNCHANGED transport /\ outcome' = "none"
        /\ encryption' = level /\ pc' = AfterPrelogin(level)
        /\ IF pc' = "tls_handshake" THEN c2s' = Append(<< >>, m) ELSE c2s' = << >>
    BY <1>2, <1>5 DEF PreloginAnswer, Fail, Hello, Agreement, Changeover
  <2>2. /\ pc' \in {"tls_handshake", "send_login"} /\ (~cfg.backend => pc' = "send_login")
        /\ ~cfg.backend => transport = "raw"
    BY <1>5, <2>1 DEF AfterPrelogin, Agreement, Changeover
  <2>3. m \in ClientMessage /\ m.kind = "hello"
    BY MessageType DEF Agreement, Vias
  <2> HIDE DEF m
  <2>4. c2s' \in Seq(ClientMessage) /\ Len(c2s') <= 1
        /\ (c2s' # << >> => pc' = "tls_handshake" /\ c2s'[1].kind = "hello")
    <3>1. CASE pc' = "tls_handshake"
      <4>1. c2s' = Append(<< >>, m)
        BY <2>1, <3>1
      <4> QED BY <2>3, <3>1, <4>1, OneElement
    <3>2. CASE pc' # "tls_handshake"
      BY <2>1, <3>2, EmptyIsTyped
    <3> QED BY <3>1, <3>2
  <2>5. cfg.backend => (encryption' = "Off" <=> srv.client = "Off" /\ srv.reply = "Off")
    <3>1. cfg.encryption \in Levels
      BY HandshakeAssumption DEF Agreement, Typed
    <3>2. s2c[1].encryption = srv.reply /\ srv.client = WireValue(cfg.encryption)
      BY <1>1, <2>1 DEF Agreement, Changeover
    <3>3. cfg.backend => encryption' = NegotiatedWithTls(cfg.encryption, srv.reply)
      BY <2>1, <3>2 DEF NegotiatedEncryption
    <3> QED BY <3>1, <3>2, <3>3, OffAgreed
  <2>6. Typed'
    BY <1>1, <1>2, <2>1, <2>4 DEF Agreement, Typed
  <2>7. OneAtATime' /\ Changeover'
    BY <1>1, <1>2, <2>1, <2>2, <2>4, <2>5 DEF Agreement, OneAtATime, Changeover, Speaking
  <2>8. Answering'
    BY <1>1, <1>2, <2>2 DEF Agreement, Answering, Speaking
  <2>9. Reported'
    BY <1>1, <1>2, <2>1, <2>2 DEF Agreement, Reported, SidesAgree, OutcomeFaithful, Ended, Errors, Routes
  <2> QED BY <2>6, <2>7, <2>8, <2>9 DEF Agreement
<1> QED BY <1>3, <1>4, <1>5

\* Taking a unit of the answer.
LEMMA NextUnit ==
    ASSUME Agreement, pc \in Speaking, s2c # << >>, s2c' = Tail(s2c), UNCHANGED resp
    PROVE  /\ Head(s2c) = s2c[1] /\ Len(s2c) \in Nat \ {0} /\ s2c' \in Seq(ServerUnit)
           /\ Len(s2c') = Len(s2c) - 1 /\ c2s = << >> /\ srv.via = transport
           /\ \A i \in 1..Len(s2c') : s2c'[i] = s2c[i + 1] /\ i + 1 \in 1..Len(s2c)
           /\ \A i \in 1..Len(s2c') : s2c'[i].via = transport
           /\ Len(resp) \in Nat /\ Consumed \in Int /\ Consumed' = Consumed + 1 /\ Consumed >= -1
           /\ Consumed >= 0 => Consumed + 1 \in 1..Len(resp) /\ s2c[1].token = resp[Consumed + 1]
           /\ \A i \in 1..Len(s2c') : Consumed' + i >= 1 => s2c'[i].token = resp[Consumed' + i]
<1>1. /\ Head(s2c) = s2c[1] /\ Len(s2c) \in Nat \ {0} /\ s2c' \in Seq(ServerUnit)
      /\ Len(s2c') = Len(s2c) - 1
      /\ \A i \in 1..Len(s2c') : s2c'[i] = s2c[i + 1]
      /\ Len(resp) \in Nat
  BY Shifted DEF Agreement, Typed
<1>2. \A i \in 1..Len(s2c') : i + 1 \in 1..Len(s2c)
  BY <1>1
<1>3. c2s = << >> /\ srv.via = transport /\ RestUnread /\ \A i \in 1..Len(s2c) : s2c[i].via = transport
  BY DEF Agreement, Changeover, Answering
<1>4. Consumed \in Int /\ Consumed' = Consumed + 1 /\ Consumed >= -1
  <2>1. Consumed \in Int /\ Consumed' = Consumed + 1
    BY <1>1 DEF Consumed
  <2>2. Consumed >= -1
    BY <1>3 DEF RestUnread
  <2> QED BY <2>1, <2>2
<1>5. Consumed >= 0 => Consumed + 1 \in 1..Len(resp) /\ s2c[1].token = resp[Consumed + 1]
  <2>1. Consumed >= 0 => Consumed + 1 \in 1..Len(resp)
    BY <1>1 DEF Consumed
  <2>2. 1 \in 1..Len(s2c) /\ (Consumed >= 0 => Consumed + 1 >= 1)
    BY <1>1, <1>4
  <2> QED BY <1>3, <2>1, <2>2 DEF RestUnread
<1>6. ASSUME NEW i \in 1..Len(s2c'), Consumed' + i >= 1
      PROVE  s2c'[i].token = resp[Consumed' + i]
  <2>1. Consumed + (i + 1) >= 1 /\ Consumed' + i = Consumed + (i + 1)
    BY <1>4, <1>6
  <2> QED BY <1>1, <1>2, <1>3, <2>1 DEF RestUnread
<1> QED BY <1>1, <1>2, <1>3, <1>4, <1>5, <1>6

\* The first error of an answer.
LEMMA FirstIs ==
    ASSUME NEW i \in 1..Len(resp), resp \in Seq(Tokens), resp[i] \in Errors,
           \A j \in 1..(i - 1) : resp[j] \notin Errors
    PROVE  First(resp, Errors) = resp[i]
<1> DEFINE P(k) == resp[k] \in Errors /\ \A j \in 1..(k - 1) : resp[j] \notin Errors
           c == CHOOSE k \in DOMAIN resp : P(k)
<1>1. DOMAIN resp = 1..Len(resp) /\ Len(resp) \in Nat
  OBVIOUS
<1>2. P(i) /\ i \in DOMAIN resp
  BY <1>1
<1>3. c \in DOMAIN resp /\ P(c)
  BY <1>2
<1>4. First(resp, Errors) = resp[c]
  BY DEF First
<1>5. c = i
  <2>1. c \in Int /\ i \in Int /\ c >= 1 /\ i >= 1
    BY <1>1, <1>3
  <2>2. ~(c < i) /\ ~(i < c)
    <3>1. c < i => c \in 1..(i - 1)
      BY <2>1
    <3>2. i < c => i \in 1..(c - 1)
      BY <2>1
    <3> QED BY <1>2, <1>3, <3>1, <3>2
  <2> HIDE DEF c
  <2> QED BY <2>1, <2>2
<1> QED BY <1>4, <1>5

\* What a reported error says.
LEMMA ErrorIsFirst ==
    ASSUME Agreement, pc \in Speaking, last_error # "none"
    PROVE  last_error \in Errors /\ last_error = First(resp, Errors) /\ resp # << >>
<1>1. PICK i \in 1..Consumed : resp[i] = last_error /\ \A j \in 1..(i - 1) : resp[j] \notin Errors
  BY DEF Agreement, Answering, FirstErrorKept
<1>2. resp \in Seq(Tokens) /\ last_error \in Errors /\ s2c \in Seq(ServerUnit)
  BY DEF Agreement, Typed
<1>3. i \in 1..Len(resp)
  <2>1. Len(resp) \in Nat /\ Len(s2c) \in Nat
    BY <1>2
  <2> QED BY <2>1 DEF Consumed
<1>4. resp # << >>
  BY <1>3
<1> QED BY <1>1, <1>2, <1>3, <1>4, FirstIs

LEMMA AgreementToken ==
    ASSUME Agreement, ReadToken
    PROVE  Agreement'
<1>1. /\ pc \in {"sspi", "response"} /\ s2c # << >> /\ s2c' = Tail(s2c) /\ Token \in Tokens
      /\ UNCHANGED <<cfg, transport, out, encryption, c2s, srv, resp>> /\ ~Ended
      /\ last_error' = IF Token \in Errors /\ last_error = "none" THEN Token ELSE last_error
      /\ routing' = IF pc = "response" /\ Token \in Routes THEN Token ELSE routing
      /\ IF SizeAccepted(Token) = "refused" THEN Fail("protocol") ELSE UNCHANGED <<pc, outcome>>
  BY DEF ReadToken, Readable, Remember, srvVars, Ended
<1>2. /\ Head(s2c) = s2c[1] /\ s2c' \in Seq(ServerUnit) /\ c2s = << >> /\ srv.via = transport
      /\ Len(resp) \in Nat /\ Consumed \in Int /\ Consumed' = Consumed + 1 /\ Consumed >= -1
      /\ Consumed >= 0 => Consumed + 1 \in 1..Len(resp) /\ s2c[1].token = resp[Consumed + 1]
      /\ \A i \in 1..Len(s2c') : s2c'[i].via = transport
      /\ \A i \in 1..Len(s2c') : Consumed' + i >= 1 => s2c'[i].token = resp[Consumed' + i]
  BY <1>1, NextUnit DEF Speaking
<1>3. RestUnread /\ FirstErrorKept /\ RoutingKept
  BY <1>1 DEF Agreement, Answering, Speaking
<1>4. /\ Consumed >= 0 /\ Consumed' = Consumed + 1 /\ Consumed \in Int
      /\ Consumed + 1 \in 1..Len(resp) /\ Token = resp[Consumed + 1]
  <2>1. Consumed # -1
    <3>1. Consumed = -1 => s2c[1].token \in Challenges
      BY <1>3 DEF RestUnread
    <3>2. Tokens \cap Challenges = {}
      BY DEF Tokens, Challenges, Errors, Routes
    <3> QED BY <1>1, <1>2, <3>1, <3>2 DEF Token
  <2> QED BY <1>2, <2>1 DEF Token
<1>5. Typed'
  BY <1>1, <1>2 DEF Agreement, Typed
<1>6. CASE pc' = "failed" /\ outcome' = "protocol"
  BY <1>1, <1>5, <1>6, AgreementFails DEF Errors, Routes
<1>7. CASE SizeAccepted(Token) # "refused"
  <2>1. UNCHANGED <<pc, outcome>> /\ Token # "badsize"
    BY <1>1, <1>7 DEF SizeAccepted
  <2>2. OneAtATime'
    BY <1>1, <2>1 DEF Agreement, OneAtATime
  <2>3. Changeover'
    BY <1>1, <1>2, <2>1 DEF Agreement, Changeover, Speaking
  <2>4. \A i \in 1..Consumed' : i \in 1..Consumed \/ i = Consumed + 1
    BY <1>4
  <2>5. RestUnread'
    BY <1>1, <1>2, <1>3, <1>4, <2>1, <2>4 DEF RestUnread
  <2>6. FirstErrorKept'
    <3>1. CASE last_error = "none" /\ Token \notin Errors
      BY <1>1, <1>3, <1>4, <2>4, <3>1 DEF FirstErrorKept
    <3>2. CASE last_error = "none" /\ Token \in Errors
      <4>1. Consumed + 1 \in 1..Consumed' /\ (Consumed + 1) - 1 = Consumed
        BY <1>4
      <4>2. last_error' = Token /\ Token # "none"
        BY <1>1, <3>2 DEF Errors
      <4> QED BY <1>1, <1>3, <1>4, <3>2, <4>1, <4>2 DEF FirstErrorKept
    <3>3. CASE last_error # "none"
      <4>1. PICK i \in 1..Consumed : resp[i] = last_error /\ \A j \in 1..(i - 1) : resp[j] \notin Errors
        BY <1>3, <3>3 DEF FirstErrorKept
      <4>2. i \in 1..Consumed' /\ last_error' = last_error
        BY <1>1, <1>4, <3>3
      <4> QED BY <1>1, <3>3, <4>1, <4>2 DEF FirstErrorKept
    <3> QED BY <3>1, <3>2, <3>3
  <2>7. RoutingKept'
    <3>1. Consumed + 1 \in 1..Consumed' /\ \A i \in 1..Consumed : i \in 1..Consumed'
      BY <1>4
    <3>2. CASE pc = "response" /\ Token \in Routes
      BY <1>1, <1>4, <2>1, <3>1, <3>2 DEF RoutingKept, Routes
    <3>3. CASE ~(pc = "response" /\ Token \in Routes)
      BY <1>1, <1>3, <1>4, <2>1, <2>4, <3>1, <3>3 DEF RoutingKept
    <3> QED BY <3>2, <3>3
  <2>8. Answering'
    BY <1>1, <2>1, <2>5, <2>6, <2>7 DEF Agreement, Answering, Speaking
  <2>9. Reported'
    BY <1>1, <2>1 DEF Agreement, Reported, SidesAgree, OutcomeFaithful, Ended, Has, First
  <2> QED BY <1>5, <2>2, <2>3, <2>8, <2>9 DEF Agreement
<1> QED BY <1>1, <1>6, <1>7 DEF Fail

LEMMA AgreementSspi ==
    ASSUME Agreement, ReadSspi
    PROVE  Agreement'
<1>1. /\ pc = "sspi" /\ s2c # << >> /\ s2c' = Tail(s2c) /\ Token \in Challenges
      /\ UNCHANGED <<cfg, transport, out, encryption, c2s, srv, resp, routing>> /\ ~Ended
      /\ last_error' = "none" /\ out = << >>
      /\ \/ Token = "sspi" /\ pc' = "send_sspi" /\ UNCHANGED outcome
         \/ pc' = "flush_sspi" /\ UNCHANGED outcome
         \/ pc' = "failed" /\ outcome' = "protocol"
  BY DEF ReadSspi, Readable, Fail, srvVars, Ended, Agreement, OneAtATime
<1>2. /\ Head(s2c) = s2c[1] /\ s2c' \in Seq(ServerUnit) /\ c2s = << >> /\ srv.via = transport
      /\ Len(s2c') = Len(s2c) - 1 /\ Len(s2c) \in Nat \ {0}
      /\ Len(resp) \in Nat /\ Consumed \in Int /\ Consumed' = Consumed + 1 /\ Consumed >= -1
      /\ Consumed >= 0 => Consumed + 1 \in 1..Len(resp) /\ s2c[1].token = resp[Consumed + 1]
      /\ \A i \in 1..Len(s2c') : s2c'[i].via = transport
      /\ \A i \in 1..Len(s2c') : Consumed' + i >= 1 => s2c'[i].token = resp[Consumed' + i]
  BY <1>1, NextUnit DEF Speaking
<1>3. Consumed = -1
  <2>1. Tokens \cap Challenges = {}
    BY DEF Tokens, Challenges, Errors, Routes
  <2>2. resp \in Seq(Tokens)
    BY DEF Agreement, Typed
  <2>3. Consumed >= 0 => s2c[1].token \in Tokens
    BY <1>2, <2>2
  <2> QED BY <1>1, <1>2, <2>1, <2>3 DEF Token
<1>4. /\ Consumed' = 0 /\ routing = "none"
      /\ Token = "sspi" => Len(s2c) = 1
  BY <1>1, <1>2, <1>3 DEF Agreement, Answering, Speaking, RestUnread, Token
<1>5. Token = "sspi" => s2c' = << >> /\ resp = << >>
  <2>1. \A t \in Seq(ServerUnit) : Len(t) = 0 => t = << >>
    OBVIOUS
  <2>2. resp \in Seq(Tokens) /\ \A t \in Seq(Tokens) : Len(t) = 0 => t = << >>
    BY DEF Agreement, Typed
  <2>3. Token = "sspi" => Len(s2c') = 0
    <3>1. Len(s2c') = Len(s2c) - 1 /\ (Token = "sspi" => Len(s2c) = 1)
      BY <1>2, <1>4, Zenon
    <3> QED BY <3>1
  <2>4. Token = "sspi" => Len(resp) = 0
    BY <1>1, <1>2, <1>3, <1>4 DEF Consumed
  <2> QED BY <1>2, <2>1, <2>2, <2>3, <2>4
<1>6. Typed'
  BY <1>1, <1>2 DEF Agreement, Typed
<1>7. CASE pc' = "failed" /\ outcome' = "protocol"
  BY <1>1, <1>6, <1>7, AgreementFails DEF Errors, Routes
<1>8. CASE ((Token = "sspi" /\ pc' = "send_sspi") \/ pc' = "flush_sspi") /\ UNCHANGED outcome
  <2>1. OneAtATime'
    BY <1>1, <1>2, <1>5, <1>8 DEF Agreement, OneAtATime
  <2>2. Changeover'
    BY <1>1, <1>2, <1>8 DEF Agreement, Changeover, Speaking
  <2>3. RestUnread' /\ FirstErrorKept' /\ RoutingKept'
    BY <1>1, <1>2, <1>4, <1>8 DEF RestUnread, FirstErrorKept, RoutingKept
  <2>4. Answering'
    BY <1>1, <1>2, <1>5, <1>8, <2>3 DEF Agreement, Answering, Speaking
  <2>5. Reported'
    BY <1>1, <1>8 DEF Agreement, Reported, SidesAgree, OutcomeFaithful, Ended, Has, First
  <2> QED BY <1>6, <2>1, <2>2, <2>4, <2>5 DEF Agreement
<1> QED BY <1>1, <1>7, <1>8

\* DONE ends the answer: everything before it has been read.
LEMMA AgreementDone ==
    ASSUME Agreement, ReadDone
    PROVE  Agreement'
<1>1. /\ pc = "response" /\ s2c # << >> /\ s2c' = Tail(s2c) /\ Token = "done"
      /\ UNCHANGED <<cfg, transport, out, encryption, c2s, srv, resp, last_error, routing>> /\ ~Ended
      /\ \/ DoneResult = "ok" /\ pc' = "connected" /\ outcome' = "ok"
         \/ DoneResult # "ok" /\ pc' = "failed" /\ outcome' = DoneResult
  BY DEF ReadDone, Readable, Fail, srvVars, replyVars, Ended
<1>2. /\ Head(s2c) = s2c[1] /\ s2c' \in Seq(ServerUnit) /\ c2s = << >>
      /\ Len(resp) \in Nat /\ Consumed \in Int /\ Consumed >= -1
      /\ Consumed >= 0 => Consumed + 1 \in 1..Len(resp) /\ s2c[1].token = resp[Consumed + 1]
  BY <1>1, NextUnit DEF Speaking
<1>3. RestUnread /\ FirstErrorKept /\ RoutingKept
  BY <1>1 DEF Agreement, Answering, Speaking
<1>4. Consumed >= 0 /\ Consumed + 1 \in 1..Len(resp) /\ resp[Consumed + 1] = "done"
  <2>1. Consumed # -1
    BY <1>1, <1>3 DEF RestUnread
  <2> QED BY <1>1, <1>2, <2>1 DEF Token
<1>5. resp # << >> /\ Consumed + 1 = Len(resp)
  <2>1. resp # << >>
    BY <1>4
  <2>2. resp \in Responses
    BY <2>1 DEF Agreement, Answering
  <2> QED BY <1>4, <2>1, <2>2, DoneEndsAnswer
<1>6. \A i \in 1..Len(resp) : i \in 1..Consumed \/ resp[i] = "done"
  BY <1>2, <1>4, <1>5
<1>7. "done" \notin Errors \cup Routes \cup {"badsize", "none"} /\ DOMAIN resp = 1..Len(resp)
  BY DEF Errors, Routes, Agreement, Typed
<1>8. \A i \in 1..Consumed : i \in 1..Len(resp)
  BY <1>2, <1>4
<1>9. OutcomeFaithful' /\ outcome' # "garbled" /\ outcome' \in Errors \cup Routes \cup {"ok"}
  <2>1. CASE last_error # "none"
    <3>1. last_error \in Errors /\ last_error = First(resp, Errors)
      BY <1>1, <2>1, ErrorIsFirst DEF Speaking
    <3>2. outcome' = last_error
      BY <1>1, <2>1, <3>1 DEF DoneResult, Errors
    <3>3. First(resp, Errors)' = First(resp, Errors)
      BY <1>1 DEF First
    <3> QED BY <3>1, <3>2, <3>3 DEF OutcomeFaithful, Errors, Routes
  <2>2. CASE last_error = "none" /\ routing # "none"
    <3>1. outcome' = routing /\ routing \in Routes
      BY <1>1, <2>2 DEF DoneResult, Agreement, Typed, Routes
    <3>2. \A i \in 1..Len(resp) : resp[i] \notin Errors
      BY <1>3, <1>6, <1>7, <2>2 DEF FirstErrorKept
    <3>3. \E i \in 1..Len(resp) : resp[i] = routing
      BY <1>3, <1>8, <2>2 DEF RoutingKept
    <3> QED BY <1>1, <1>7, <3>1, <3>2, <3>3 DEF OutcomeFaithful, Has, Errors, Routes
  <2>3. CASE last_error = "none" /\ routing = "none"
    <3>1. outcome' = "ok"
      BY <1>1, <2>3 DEF DoneResult
    <3>2. \A i \in 1..Len(resp) : resp[i] \notin Errors \cup Routes \cup {"badsize"}
      BY <1>1, <1>3, <1>6, <1>7, <2>3 DEF FirstErrorKept, RoutingKept, RestUnread
    <3>3. \E i \in 1..Len(resp) : resp[i] = "done"
      BY <1>4
    <3>4. Has(resp, {"done"}) /\ ~Has(resp, Errors \cup Routes \cup {"badsize"})
      BY <1>7, <3>2, <3>3 DEF Has
    <3> QED BY <1>1, <3>1, <3>4 DEF OutcomeFaithful, Has, Errors, Routes
  <2> QED BY <2>1, <2>2, <2>3
<1>10. Reported'
  BY <1>1, <1>5, <1>9 DEF Reported, SidesAgree, Ended
<1>11. Typed'
  BY <1>1, <1>2 DEF Agreement, Typed
<1>12. OneAtATime' /\ Changeover' /\ Answering'
  BY <1>1, <1>2 DEF Agreement, OneAtATime, Changeover, Answering, Speaking
<1> QED BY <1>10, <1>11, <1>12 DEF Agreement

\* The other ways a call fails.  Bytes are never taken for what they are not.
LEMMA AgreementEnds ==
    ASSUME Agreement,
           WriteFails \/ TlsFails \/ AuthFails \/ AnswerEnds \/ ReadFails \/ TimesOut
    PROVE  Agreement'
<1>1. /\ UNCHANGED <<cfg, transport, out, c2s, s2c, srv, resp, last_error, routing>> /\ pc' = "failed"
      /\ ~Ended
  BY DEF WriteFails, TlsFails, AuthFails, AnswerEnds, ReadFails, TimesOut, Fail, Ended,
     connVars, replyVars, srvVars
<1>2. Typed'
  BY <1>1 DEF Agreement, Typed
<1>3. CASE AnswerEnds /\ last_error # "none"
  <2>1. pc \in Speaking /\ outcome' = last_error
    BY <1>3 DEF AnswerEnds, Fail, Speaking
  <2>2. last_error \in Errors /\ last_error = First(resp, Errors) /\ resp # << >>
    BY <1>3, <2>1, ErrorIsFirst
  <2>3. First(resp, Errors)' = First(resp, Errors)
    BY <1>1 DEF First
  <2>4. Reported'
    BY <1>1, <2>1, <2>2, <2>3 DEF Reported, SidesAgree, OutcomeFaithful, Ended, Errors, Routes
  <2> QED BY <1>1, <1>2, <2>2, <2>4, AgreementFails
<1>4. CASE ReadFails
  <2>1. pc \in {"prelogin", "sspi", "response"} /\ s2c # << >> => Readable
    <3>1. s2c # << >> => Head(s2c) = s2c[1] /\ 1 \in 1..Len(s2c)
      <4>1. s2c # << >> => Head(s2c) = s2c[1] /\ Len(s2c) \in Nat \ {0}
        BY Shifted DEF Agreement, Typed
      <4> QED BY <4>1
    <3> QED BY <3>1 DEF Readable, Agreement, Changeover, Speaking
  <2>2. outcome' = "io"
    BY <1>4, <2>1 DEF ReadFails, Fail
  <2> QED BY <1>1, <1>2, <2>2, AgreementFails DEF Errors, Routes
<1>5. CASE ~(AnswerEnds /\ last_error # "none") /\ ~ReadFails
  <2>1. outcome' \in {"io", "tls", "auth", "protocol", "timed out"}
    BY <1>5 DEF WriteFails, TlsFails, AuthFails, AnswerEnds, TimesOut, Fail
  <2> QED BY <1>1, <1>2, <2>1, AgreementFails DEF Errors, Routes
<1> QED BY <1>3, <1>4, <1>5

\* The server takes the message: what it sends travels the way the client reads.
LEMMA AgreementServer ==
    ASSUME Agreement, Server
    PROVE  Agreement'
<1>1. UNCHANGED <<cfg, pc, transport, encryption, out, last_error, routing, outcome>> /\ c2s # << >>
  BY DEF Server, SrvPrelogin, SrvTls, SrvLogin, SrvChallenge, SrvSspi, SrvRefuses, SrvLive,
     connVars, replyVars
<1>2. Head(c2s) = c2s[1] /\ Tail(c2s) = << >> /\ c2s[1] \in ClientMessage /\ resp = << >>
  BY <1>1, Single DEF Agreement, Typed, OneAtATime, Answering
<1>3. CASE SrvRefuses
  <2>1. UNCHANGED <<c2s, s2c, srv, resp>>
    BY <1>3 DEF SrvRefuses
  <2>2. Typed' /\ OneAtATime'
    BY <1>1, <2>1 DEF Agreement, Typed, OneAtATime
  <2>3. Changeover'
    BY <1>1, <2>1 DEF Agreement, Changeover, AfterLogin
  <2>4. Answering'
    BY <1>1, <2>1 DEF Agreement, Answering, RestUnread, FirstErrorKept, RoutingKept, Consumed
  <2>5. Reported'
    BY <1>1, <2>1 DEF Agreement, Reported, SidesAgree, OutcomeFaithful, Ended, Has, First
  <2> QED BY <2>2, <2>3, <2>4, <2>5 DEF Agreement
<1>4. CASE (\E level \in Levels \cup {"invalid"}, ok \in BOOLEAN : SrvPrelogin(level, ok)) \/ SrvTls
  <2>1. PICK u \in ServerUnit :
          /\ s2c' = Append(s2c, u) /\ c2s' = << >> /\ UNCHANGED resp
          /\ \/ /\ c2s[1].kind = "prelogin" /\ u.via = srv.via /\ u.encryption = srv'.reply
                /\ srv'.client = c2s[1].encryption /\ srv'.via = srv.via
             \/ c2s[1].kind = "hello" /\ srv'.via = "tls"
          /\ srv' = [reply |-> srv'.reply, client |-> srv'.client, via |-> srv'.via]
          /\ srv'.reply \in Levels \cup {"invalid", "none"} /\ srv'.client \in Levels \cup {"none"}
    <3>1. CASE SrvTls
      <4> DEFINE u == Unit("tls", c2s[1].via, "none", TRUE, "none", TRUE)
      <4>1. u \in ServerUnit
        BY <1>2 DEF Unit, ServerUnit, ClientMessage
      <4>2. /\ s2c' = Append(s2c, u) /\ c2s' = << >> /\ UNCHANGED resp /\ c2s[1].kind = "hello"
            /\ srv' = [srv EXCEPT !.via = "tls"]
        BY <1>2, <3>1 DEF SrvTls
      <4>3. /\ srv'.via = "tls"
            /\ srv' = [reply |-> srv'.reply, client |-> srv'.client, via |-> srv'.via]
            /\ srv'.reply = srv.reply /\ srv'.client = srv.client
        BY <4>2 DEF Agreement, Typed
      <4> QED BY <4>1, <4>2, <4>3 DEF Agreement, Typed
    <3>2. CASE \E level \in Levels \cup {"invalid"}, ok \in BOOLEAN : SrvPrelogin(level, ok)
      <4>1. PICK level \in Levels \cup {"invalid"}, ok \in BOOLEAN : SrvPrelogin(level, ok)
        BY <3>2
      <4> DEFINE u == Unit("prelogin", srv.via, level, ok, "none", TRUE)
      <4>2. u \in ServerUnit /\ u.via = srv.via /\ u.encryption = level
        BY DEF Unit, ServerUnit, Agreement, Typed, Vias
      <4>3. /\ s2c' = Append(s2c, u) /\ c2s' = << >> /\ UNCHANGED resp /\ c2s[1].kind = "prelogin"
            /\ srv' = [srv EXCEPT !.reply = level, !.client = c2s[1].encryption]
        BY <1>2, <4>1 DEF SrvPrelogin
      <4>4. /\ srv'.via = srv.via
            /\ srv' = [reply |-> srv'.reply, client |-> srv'.client, via |-> srv'.via]
            /\ srv'.reply = level /\ srv'.client = c2s[1].encryption
        BY <4>3 DEF Agreement, Typed
      <4>5. c2s[1].encryption \in Levels
        BY <1>2 DEF ClientMessage
      <4> QED BY <4>2, <4>3, <4>4, <4>5
    <3> QED BY <1>4, <3>1, <3>2
  <2>2. pc \in {"prelogin", "strict_tls", "tls_handshake"} \/ Ended
    BY <1>1, <2>1 DEF Agreement, OneAtATime, Changeover, Speaking, Ended, Typed, Answering
  <2>3. s2c' \in Seq(ServerUnit)
    BY <2>1 DEF Agreement, Typed
  <2>4. Typed'
    BY <1>1, <2>1, <2>3, EmptyIsTyped DEF Agreement, Typed
  <2>5. CASE Ended
    BY <1>1, <1>2, <2>1, <2>4, <2>5, AgreementOver
  <2>6. CASE pc \in {"prelogin", "strict_tls", "tls_handshake"}
    <3>1. s2c = << >>
      BY <1>1, <2>6 DEF Agreement, OneAtATime
    <3>2. Len(s2c') = 1 /\ s2c'[1] = u /\ s2c' # << >>
      BY <2>1, <3>1, OneElement
    <3>3. OneAtATime'
      BY <1>1, <2>1, <2>6, <3>2 DEF Agreement, OneAtATime
    <3>4. Changeover'
      <4>1. CASE pc = "prelogin"
        BY <1>1, <2>1, <3>2, <4>1 DEF Agreement, Changeover, Speaking
      <4>2. CASE pc \in {"strict_tls", "tls_handshake"}
        <5>1. c2s[1].kind = "hello" /\ srv'.via = "tls"
          BY <1>1, <2>1, <4>2 DEF Agreement, Changeover
        <5>2. cfg.backend /\ pc = "tls_handshake" =>
                (encryption = "Off" <=> srv'.client = "Off" /\ srv'.reply = "Off")
          BY <4>2, <2>1, <1>1, <1>4, <5>1, <1>2 DEF Agreement, Changeover, SrvTls, SrvPrelogin, Typed
        <5> QED BY <1>1, <2>1, <3>2, <4>2, <5>1, <5>2 DEF Agreement, Changeover, Speaking
      <4> QED BY <2>6, <4>1, <4>2
    <3>5. Answering'
      BY <1>1, <1>2, <2>1, <2>6 DEF Agreement, Answering, Speaking
    <3>6. Reported'
      BY <1>1, <2>1 DEF Agreement, Reported, SidesAgree, OutcomeFaithful, Ended, Has, First
    <3> QED BY <2>4, <3>3, <3>4, <3>5, <3>6 DEF Agreement
  <2> QED BY <2>2, <2>5, <2>6
<1>5. CASE \E tokens \in Responses :
             \/ SrvLogin(tokens)
             \/ \E token \in Challenges : SrvChallenge(token, tokens)
             \/ SrvSspi(tokens)
  <2>1. PICK tokens \in Responses :
             \/ SrvLogin(tokens)
             \/ \E token \in Challenges : SrvChallenge(token, tokens)
             \/ SrvSspi(tokens)
    BY <1>5
  <2>2. tokens \in Seq(Tokens) /\ tokens # << >> /\ tokens \in Seq(Tokens \cup Challenges)
    BY HandshakeAssumption
  <2> DEFINE via == IF SrvSspi(tokens) THEN srv.via ELSE AfterLogin
  <2>3. c2s[1].kind \in {"login", "sspi"} /\ (c2s[1].kind = "sspi" <=> SrvSspi(tokens))
    BY <1>2, <2>1 DEF SrvLogin, SrvChallenge, SrvSspi
  <2>4. via \in {"raw", "tls"} /\ via \in Vias
    BY DEF AfterLogin, Agreement, Typed, Vias
  <2>5. srv'.via = via /\ srv' = [srv EXCEPT !.via = via] /\ c2s' = << >>
    <3>1. CASE SrvSspi(tokens)
      BY <1>2, <3>1 DEF SrvSspi, Agreement, Typed
    <3>2. CASE ~SrvSspi(tokens)
      <4>1. srv' = [srv EXCEPT !.via = AfterLogin] /\ c2s' = << >>
        BY <1>2, <2>1, <3>2 DEF SrvLogin, SrvChallenge
      <4> QED BY <3>2, <4>1 DEF Agreement, Typed
    <3> QED BY <3>1, <3>2
  <2>6. pc \in {"sspi", "response"} \/ Ended
    BY <1>1, <2>3 DEF Agreement, OneAtATime, Changeover, Speaking, Ended, Typed, Answering
  <2>7. pc \in {"sspi", "response"} => via = transport /\ s2c = << >>
    BY <1>1, <2>3 DEF Agreement, Changeover, Speaking
  <2> HIDE DEF via
  <2>8. \/ s2c' = s2c \o Answer(tokens, via) /\ resp' = tokens
        \/ /\ s2c' = s2c \o Answer(<<"sspi">>, via) \o << >> /\ resp' = resp /\ c2s[1].auth # "oneshot"
           /\ c2s[1].kind = "login"
        \/ /\ s2c' = s2c \o Answer(<<"sspi_last">>, via) \o Answer(tokens, via) /\ resp' = tokens
           /\ c2s[1].auth # "oneshot" /\ c2s[1].kind = "login"
    <3>1. CASE SrvSspi(tokens)
      BY <3>1 DEF SrvSspi, via
    <3>2. CASE ~SrvSspi(tokens)
      <4>1. via = AfterLogin
        BY <3>2 DEF via
      <4>2. CASE SrvLogin(tokens)
        BY <4>1, <4>2 DEF SrvLogin
      <4>3. CASE \E token \in Challenges : SrvChallenge(token, tokens)
        <5>1. PICK token \in Challenges : SrvChallenge(token, tokens)
          BY <4>3
        <5>2. /\ s2c' = s2c \o Answer(<<token>>, via)
                         \o (IF token = "sspi_last" THEN Answer(tokens, via) ELSE <<>>)
              /\ resp' = IF token = "sspi_last" THEN tokens ELSE resp
              /\ c2s[1].auth # "oneshot" /\ c2s[1].kind = "login"
          BY <1>2, <4>1, <5>1 DEF SrvChallenge
        <5>3. token = "sspi" \/ token = "sspi_last"
          BY DEF Challenges
        <5> QED BY <5>2, <5>3
      <4> QED BY <2>1, <3>2, <4>2, <4>3
    <3> QED BY <3>1, <3>2
  <2>9. /\ \A t \in {tokens, <<"sspi">>, <<"sspi_last">>} : Answer(t, via) \in Seq(ServerUnit)
        /\ Len(Answer(tokens, via)) = Len(tokens)
        /\ \A i \in 1..Len(tokens) : /\ Answer(tokens, via)[i].token = tokens[i]
                                     /\ Answer(tokens, via)[i].via = via
        /\ \A c \in Challenges : /\ Len(Answer(<<c>>, via)) = 1
                                 /\ Answer(<<c>>, via)[1].token = c
                                 /\ Answer(<<c>>, via)[1].via = via
    <3>1. \A c \in Challenges : <<c>> \in Seq(Tokens \cup Challenges) /\ Len(<<c>>) = 1 /\ <<c>>[1] = c
      OBVIOUS
    <3>2. \A c \in Challenges : /\ Answer(<<c>>, via) \in Seq(ServerUnit)
                                /\ Len(Answer(<<c>>, via)) = 1
                                /\ Answer(<<c>>, via)[1].token = c
                                /\ Answer(<<c>>, via)[1].via = via
      <4> SUFFICES ASSUME NEW c \in Challenges
                   PROVE  /\ Answer(<<c>>, via) \in Seq(ServerUnit)
                          /\ Len(Answer(<<c>>, via)) = 1
                          /\ Answer(<<c>>, via)[1].token = c
                          /\ Answer(<<c>>, via)[1].via = via
        OBVIOUS
      <4> DEFINE t == <<c>>
      <4>1. t \in Seq(Tokens \cup Challenges) /\ Len(t) = 1 /\ t[1] = c
        BY <3>1
      <4> HIDE DEF t
      <4>2. /\ Answer(t, via) \in Seq(ServerUnit)
            /\ Len(Answer(t, via)) = Len(t)
            /\ \A i \in 1..Len(t) : Answer(t, via)[i].token = t[i] /\ Answer(t, via)[i].via = via
        BY <2>4, <4>1, AnswerFacts
      <4>3. 1 \in 1..Len(t)
        BY <4>1
      <4>4. Answer(t, via) \in Seq(ServerUnit) /\ Len(Answer(t, via)) = 1
            /\ Answer(t, via)[1].token = c /\ Answer(t, via)[1].via = via
        BY <4>1, <4>2, <4>3
      <4> QED BY <4>4 DEF t
    <3>3. "sspi" \in Challenges /\ "sspi_last" \in Challenges
      BY DEF Challenges
    <3> QED BY <2>2, <2>4, <3>2, <3>3, AnswerFacts
  <2>10. s2c' \in Seq(ServerUnit)
    <3>1. \A s \in Seq(ServerUnit), t \in Seq(ServerUnit) : s \o t \in Seq(ServerUnit)
      OBVIOUS
    <3>2. /\ Answer(tokens, via) \in Seq(ServerUnit) /\ Answer(<<"sspi">>, via) \in Seq(ServerUnit)
          /\ Answer(<<"sspi_last">>, via) \in Seq(ServerUnit)
      BY <2>9
    <3>3. s2c \in Seq(ServerUnit) /\ << >> \in Seq(ServerUnit)
      BY EmptyIsTyped DEF Agreement, Typed
    <3>4. /\ s2c \o Answer(tokens, via) \in Seq(ServerUnit)
          /\ s2c \o Answer(<<"sspi">>, via) \o << >> \in Seq(ServerUnit)
          /\ s2c \o Answer(<<"sspi_last">>, via) \o Answer(tokens, via) \in Seq(ServerUnit)
      BY <3>1, <3>2, <3>3, Zenon
    <3> QED BY <2>8, <3>4, Zenon
  <2>11. Typed'
    BY <1>1, <2>2, <2>4, <2>5, <2>8, <2>10, EmptyIsTyped DEF Agreement, Typed
  <2>12. CASE Ended
    BY <1>1, <1>2, <2>5, <2>8, <2>11, <2>12, AgreementOver
  <2>13. CASE pc \in {"sspi", "response"}
    <3>1. /\ \/ s2c' = Answer(tokens, via) /\ resp' = tokens
             \/ s2c' = Answer(<<"sspi">>, via) /\ resp' = << >> /\ pc = "sspi"
             \/ s2c' = Answer(<<"sspi_last">>, via) \o Answer(tokens, via) /\ resp' = tokens /\ pc = "sspi"
      <4>1. c2s[1].auth # "oneshot" /\ c2s[1].kind = "login" => pc = "sspi"
        BY <1>1, <2>13 DEF Agreement, Changeover, Speaking
      <4>2. /\ << >> \o Answer(tokens, via) = Answer(tokens, via)
            /\ (<< >> \o Answer(<<"sspi">>, via)) \o << >> = Answer(<<"sspi">>, via)
            /\ << >> \o Answer(<<"sspi_last">>, via) = Answer(<<"sspi_last">>, via)
        BY <2>9, EmptyConcat
      <4> QED BY <1>2, <2>7, <2>8, <2>13, <4>1, <4>2
    <3>2. /\ Len(s2c') \in Nat /\ Len(tokens) \in Nat /\ Len(<< >>) = 0
          /\ \/ Len(s2c') = Len(tokens) /\ resp' = tokens
             \/ Len(s2c') = 1 /\ resp' = << >> /\ s2c'[1].token = "sspi" /\ pc = "sspi"
             \/ Len(s2c') = 1 + Len(tokens) /\ resp' = tokens /\ s2c'[1].token = "sspi_last" /\ pc = "sspi"
          /\ \A i \in 1..Len(s2c') : s2c'[i].via = transport
          /\ \A i \in 1..Len(s2c') : Consumed' + i >= 1 => s2c'[i].token = resp'[Consumed' + i]
      <4>0. Len(s2c') \in Nat /\ Len(tokens) \in Nat /\ Len(<< >>) = 0 /\ via = transport
        BY <2>2, <2>7, <2>10, <2>13
      <4>1. CASE s2c' = Answer(tokens, via) /\ resp' = tokens
        <5>1. Len(s2c') = Len(tokens) /\ Consumed' = 0
          BY <2>9, <4>0, <4>1 DEF Consumed
        <5> QED BY <2>9, <4>0, <4>1, <5>1
      <4>2. CASE s2c' = Answer(<<"sspi">>, via) /\ resp' = << >> /\ pc = "sspi"
        <5>1. Len(s2c') = 1 /\ s2c'[1].token = "sspi" /\ s2c'[1].via = via
          BY <2>9, <4>2 DEF Challenges
        <5>2. Consumed' = -1 /\ \A i \in 1..Len(s2c') : i = 1
          <6>1. Len(resp') = 0
            BY <4>0, <4>2, Zenon
          <6> QED BY <5>1, <6>1 DEF Consumed
        <5> QED BY <4>0, <4>2, <5>1, <5>2
      <4>3. CASE s2c' = Answer(<<"sspi_last">>, via) \o Answer(tokens, via) /\ resp' = tokens /\ pc = "sspi"
        <5> DEFINE a == Answer(<<"sspi_last">>, via)
                   b == Answer(tokens, via)
        <5>1. a \in Seq(ServerUnit) /\ Len(a) = 1 /\ a[1].token = "sspi_last" /\ a[1].via = via
          BY <2>9 DEF Challenges
        <5>2. b \in Seq(ServerUnit) /\ Len(b) = Len(tokens)
              /\ \A i \in 1..Len(tokens) : b[i].token = tokens[i] /\ b[i].via = via
          BY <2>9
        <5>3. s2c' = a \o b
          BY <4>3
        <5> HIDE DEF a, b
        <5>4. Len(s2c') = 1 + Len(tokens) /\ s2c'[1] = a[1]
              /\ \A i \in 1..Len(tokens) : s2c'[1 + i] = b[i]
          <6>1. /\ Len(s2c') = Len(a) + Len(b)
                /\ \A i \in 1..Len(a) : s2c'[i] = a[i]
                /\ \A i \in 1..Len(b) : s2c'[Len(a) + i] = b[i]
            <7>1. /\ Len(a \o b) = Len(a) + Len(b)
                  /\ \A i \in 1..Len(a) : (a \o b)[i] = a[i]
                  /\ \A i \in 1..Len(b) : (a \o b)[Len(a) + i] = b[i]
              <8>1. a \in Seq(ServerUnit) /\ b \in Seq(ServerUnit)
                BY <5>1, <5>2
              <8> QED BY <8>1
            <7> QED BY <5>3, <7>1, Zenon
          <6> QED BY <5>1, <5>2, <6>1
        <5>5. Consumed' = -1
          BY <4>0, <4>3, <5>4 DEF Consumed
        <5>6. \A i \in 1..Len(s2c') : i = 1 \/ (i - 1 \in 1..Len(tokens) /\ 1 + (i - 1) = i /\ -1 + i = i - 1)
          BY <4>0, <5>4
        <5>7. \A i \in 1..Len(s2c') : i = 1 \/ s2c'[i] = b[i - 1]
          BY <5>4, <5>6
        <5>8. \A i \in 1..Len(s2c') : s2c'[i].via = transport
          <6> SUFFICES ASSUME NEW i \in 1..Len(s2c') PROVE s2c'[i].via = via
            BY <4>0
          <6>1. CASE i = 1
            BY <5>1, <5>4, <6>1
          <6>2. CASE i # 1
            BY <5>2, <5>6, <5>7, <6>2
          <6> QED BY <6>1, <6>2
        <5>9. ASSUME NEW i \in 1..Len(s2c'), Consumed' + i >= 1
              PROVE  s2c'[i].token = resp'[Consumed' + i]
          <6>1. i # 1 /\ Consumed' + i = i - 1
            BY <5>5, <5>9
          <6> QED BY <4>3, <5>2, <5>6, <5>7, <6>1
        <5> QED BY <4>0, <4>3, <5>1, <5>4, <5>8, <5>9
      <4> QED BY <3>1, <4>1, <4>2, <4>3
    <3>3. /\ Consumed' \in {0, -1}
          /\ Consumed' = -1 => pc = "sspi" /\ s2c'[1].token \in Challenges
                               /\ (s2c'[1].token = "sspi" => Len(s2c') = 1)
      <4>1. CASE Len(s2c') = Len(tokens) /\ resp' = tokens
        <5>1. Consumed' = 0
          BY <3>2, <4>1 DEF Consumed
        <5> QED BY <5>1
      <4>2. CASE Len(s2c') = 1 /\ resp' = << >> /\ s2c'[1].token = "sspi" /\ pc = "sspi"
        <5>0. Len(resp') = 0
          BY <3>2, <4>2, Zenon
        <5>1. Consumed' = -1
          BY <4>2, <5>0 DEF Consumed
        <5> QED BY <4>2, <5>1 DEF Challenges
      <4>3. CASE Len(s2c') = 1 + Len(tokens) /\ resp' = tokens /\ s2c'[1].token = "sspi_last" /\ pc = "sspi"
        <5>1. Consumed' = -1
          BY <3>2, <4>3 DEF Consumed
        <5> QED BY <4>3, <5>1 DEF Challenges
      <4> QED BY <3>2, <4>1, <4>2, <4>3
    <3>4. last_error = "none" /\ routing = "none"
      <4>1. s2c = << >> /\ resp = << >> /\ FirstErrorKept /\ RoutingKept
        BY <1>2, <2>7, <2>13 DEF Agreement, Answering, Speaking
      <4>2. Consumed = 0
        BY <4>1 DEF Consumed
      <4> QED BY <4>1, <4>2 DEF FirstErrorKept, RoutingKept
    <3>5. RestUnread' /\ FirstErrorKept' /\ RoutingKept'
      <4>1. Consumed' >= -1 /\ \A i \in 1..Consumed' : FALSE
        BY <3>3
      <4>2. \A i \in 1..Len(s2c') : Consumed' + i >= 1 => s2c'[i].token = resp'[Consumed' + i]
        BY <3>2
      <4>3. UNCHANGED <<pc, last_error, routing>>
        BY <1>1
      <4>4. RestUnread'
        BY <2>13, <3>3, <3>4, <4>1, <4>2, <4>3, Zenon DEF RestUnread
      <4> QED BY <3>4, <4>1, <4>3, <4>4 DEF FirstErrorKept, RoutingKept
    <3>6. Answering'
      BY <1>1, <2>5, <2>13, <3>2, <3>5 DEF Answering, Speaking
    <3>7. OneAtATime'
      BY <1>1, <2>5, <2>13 DEF Agreement, OneAtATime
    <3>8. Changeover'
      BY <1>1, <2>5, <2>7, <2>13, <3>2 DEF Agreement, Changeover, Speaking
    <3>9. Reported'
      BY <1>1, <2>13 DEF Agreement, Reported, SidesAgree, OutcomeFaithful, Ended, Errors, Routes
    <3> QED BY <2>11, <3>6, <3>7, <3>8, <3>9 DEF Agreement
  <2> QED BY <2>6, <2>12, <2>13
<1> QED BY <1>3, <1>4, <1>5 DEF Server

LEMMA AgreementStep == Agreement /\ [Next]_vars => Agreement'
<1> SUFFICES ASSUME Agreement, [Next]_vars
             PROVE  Agreement'
  OBVIOUS
<1>1. CASE SrvClose \/ SrvStall \/ UNCHANGED vars
  <2>1. UNCHANGED <<cfg, pc, transport, encryption, out, last_error, routing, outcome, c2s, s2c, srv, resp>>
    BY <1>1 DEF SrvClose, SrvStall, vars, connVars, replyVars, srvVars
  <2>2. Typed' /\ OneAtATime'
    BY <2>1 DEF Agreement, Typed, OneAtATime
  <2>3. Changeover'
    BY <2>1 DEF Agreement, Changeover, AfterLogin
  <2>4. Answering'
    BY <2>1 DEF Agreement, Answering, RestUnread, FirstErrorKept, RoutingKept, Consumed
  <2>5. Reported'
    BY <2>1 DEF Agreement, Reported, SidesAgree, OutcomeFaithful, Ended, Has, First
  <2> QED BY <2>2, <2>3, <2>4, <2>5 DEF Agreement
<1> QED
  BY <1>1, AgreementWrites, AgreementFlush, AgreementNegotiates, AgreementToken, AgreementSspi,
     AgreementDone, AgreementEnds, AgreementServer DEF Next, Client

\* The client never takes TLS records for packets or packets for TLS records,
\* whatever the server answers to the prelogin (tls_handshake,
\* post_login_encryption).
THEOREM SidesChangeTogether == Spec => []SidesAgree
<1>1. Agreement => SidesAgree
  BY DEF Agreement, Reported
<1> QED BY AgreementInit, AgreementStep, <1>1, PTL DEF Spec

\* What connect reports is what the answer to the login said, wherever in it the
\* errors and redirections are (flush_sspi, flush_done, try_unfold).
THEOREM OutcomeIsAnswer == Spec => []OutcomeFaithful
<1>1. Agreement => OutcomeFaithful
  BY DEF Agreement, Reported
<1> QED BY AgreementInit, AgreementStep, <1>1, PTL DEF Spec

-----------------------------------------------------------------------------
\* The context has no command timeout before the end of the login.
ArmedLast ==
    /\ armed => Ended
    /\ last_error # "timed out" /\ routing # "timed out"
    /\ WaitsIfTold

\* Without a handshake_timeout connect never times out (establish).
THEOREM WaitsUnlessTold == Spec => []WaitsIfTold
<1>1. Init => ArmedLast
  BY DEF Init, ArmedAtFirst, ArmedLast, WaitsIfTold
<1>2. ArmedLast /\ [Next]_vars => ArmedLast'
  <2> SUFFICES ASSUME ArmedLast, [Next]_vars PROVE ArmedLast'
    OBVIOUS
  <2> USE DEF ArmedLast, WaitsIfTold
  <2>1. CASE Establish \/ SendPrelogin \/ SendLogin \/ SendSspi \/ TlsDone \/ Flush
    <3>1. UNCHANGED <<cfg, outcome, last_error, routing, armed>> /\ ~Ended
      BY <2>1 DEF Establish, SendPrelogin, SendLogin, SendSspi, TlsDone, Flush, Write,
         connVars, replyVars, Ended
    <3> QED BY <3>1
  <2>2. CASE WriteFails \/ TlsFails \/ AuthFails \/ AnswerEnds \/ ReadFails
    <3>1. UNCHANGED <<cfg, last_error, routing, armed>> /\ Ended'
          /\ outcome' \in {"io", "tls", "auth", "protocol", "garbled", last_error}
      BY <2>2 DEF WriteFails, TlsFails, AuthFails, AnswerEnds, ReadFails, Fail,
         connVars, replyVars, Ended
    <3> QED BY <3>1
  <2>3. CASE TimesOut
    <3>1. UNCHANGED <<cfg, last_error, routing, armed>> /\ Ended' /\ ~Ended /\ Deadline
      BY <2>3 DEF TimesOut, Fail, connVars, replyVars, Ended
    <3> QED BY <3>1 DEF Deadline
  <2>4. CASE PreloginAnswer
    <3>1. /\ UNCHANGED <<cfg, last_error, routing, armed>> /\ ~Ended
          /\ outcome' \in {"protocol", "tls", outcome}
      BY <2>4 DEF PreloginAnswer, Fail, replyVars, Ended
    <3> QED BY <3>1
  <2>5. CASE ReadToken \/ ReadSspi
    <3>1. /\ UNCHANGED <<cfg, armed>> /\ ~Ended
          /\ outcome' \in {"protocol", outcome}
          /\ last_error' \in Errors \cup {"none", last_error} /\ routing' \in Routes \cup {routing}
      BY <2>5 DEF ReadToken, ReadSspi, Remember, Fail, Ended
    <3> QED BY <3>1 DEF Errors, Routes
  <2>6. CASE ReadDone
    <3>1. UNCHANGED <<cfg, last_error, routing>> /\ Ended' /\ outcome' \in {"ok", last_error, routing}
      BY <2>6 DEF ReadDone, DoneResult, Fail, replyVars, Ended
    <3> QED BY <3>1
  <2>7. CASE Server \/ SrvClose \/ SrvStall \/ UNCHANGED vars
    <3>1. UNCHANGED <<cfg, pc, outcome, last_error, routing, armed>>
      BY <2>7 DEF Server, SrvPrelogin, SrvTls, SrvLogin, SrvChallenge, SrvSspi, SrvRefuses,
         SrvClose, SrvStall, vars, connVars, replyVars
    <3> QED BY <3>1 DEF Ended
  <2> QED BY <2>1, <2>2, <2>3, <2>4, <2>5, <2>6, <2>7 DEF Next, Client
<1>3. ArmedLast => WaitsIfTold
  BY DEF ArmedLast
<1> QED BY <1>1, <1>2, <1>3, PTL DEF Spec

==============================================================================
