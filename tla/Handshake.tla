------------------------------ MODULE Handshake ------------------------------
(***************************************************************************)
(* Opening a connection: Connection::connect, establish, prelogin,         *)
(* tls_handshake, login and post_login_encryption                          *)
(* (src/src/client/connection.rs), the negotiation of encryption           *)
(* (src/src/tds/codec/pre_login.rs) and the reading of the answer          *)
(* (flush_sspi and flush_done of src/src/tds/stream/token.rs), against a   *)
(* server that may answer anything, fall silent or go away.                *)
(*                                                                         *)
(* A message is a unit; how messages become packets is PacketFraming, how  *)
(* the TLS handshake travels in prelogin packets is TlsPreloginWrapper.    *)
(***************************************************************************)
EXTENDS Naturals, SequencesExt

CONSTANTS
    Configs,    \* configurations, with the way the crate was built
    Responses   \* answers to a login: sequences of tokens

Levels == {"Off", "On", "NotSupported", "Required", "Strict"}
\* With "oneshot" the login is all there is (AuthMethod::SqlServer, AADToken,
\* None).  The others answer a challenge; without an answer "winauth" fails,
\* and "gssapi" (sspi-rs too) sends an empty one.
Auths == {"oneshot", "winauth", "gssapi"}
Errors == {"error1", "error2"}
Routes == {"route1", "route2"}
Tokens == Errors \cup Routes \cup {"info", "size", "badsize", "done"}
Challenges == {"sspi", "sspi_last"}   \* the last one asks for no answer

ASSUME HandshakeAssumption ==
    /\ Configs \subseteq [encryption : Levels,
                          auth : Auths,
                          backend : BOOLEAN,            \* built with a TLS backend
                          instance : BOOLEAN,           \* instance_name is given
                          handshake_timeout : BOOLEAN,  \* is set
                          command_timeout : BOOLEAN]    \* is set
    /\ Responses \subseteq Seq(Tokens) \ {<<>>}

\* A DONE ends the answer to a login.
ASSUME DoneEndsAnswer ==
    \A r \in Responses : \A i \in 1..Len(r) : r[i] = "done" => i = Len(r)

VARIABLES
    cfg,
    pc,         \* where the call is
    transport,  \* MaybeTlsStream: "raw" or "tls"
    encryption, \* what has been negotiated
    out,        \* written to the transport and not flushed
    flushed,    \* the field of Connection
    size,       \* packet_size of the context
    armed,      \* command_timeout of the context
    last_error, routing,   \* of flush_sspi and flush_done
    outcome,    \* what connect returns
    c2s, s2c,   \* the two directions, with how each unit travels
    srv,        \* the server: what it answered, how it reads and writes
    closed, stalled,  \* it has gone away, or says nothing any more
    sent,       \* history: what has been written, and how
    resp        \* history: the answer to the login

connVars == <<transport, encryption, out, flushed, size, armed>>
replyVars == <<last_error, routing>>
srvVars == <<srv, closed, stalled, resp>>
vars == <<cfg, pc, connVars, replyVars, outcome, c2s, s2c, srvVars, sent>>

Ended == pc \in {"connected", "failed"}

\* A slip of establish: the command timeout is armed before the handshake.
ArmedAtOnce(c) == c.command_timeout

\* Context::new: no command timeout yet.
ArmedAtFirst(c) == FALSE

Init ==
    /\ cfg \in Configs
    /\ pc = "establish"
    /\ transport = "raw" /\ encryption = "none" /\ out = <<>> /\ flushed = FALSE
    /\ size = "default" /\ armed = ArmedAtFirst(cfg)
    /\ last_error = "none" /\ routing = "none" /\ outcome = "none"
    /\ c2s = <<>> /\ s2c = <<>>
    /\ srv = [reply |-> "none", client |-> "none", via |-> "raw"]
    /\ closed = FALSE /\ stalled = FALSE /\ sent = {} /\ resp = <<>>

\* connect returns; the connection is dropped unless it is established.
Fail(o) == pc' = "failed" /\ outcome' = o

-----------------------------------------------------------------------------
(* Writing                                                                  *)

\* as_wire_value: strict mode is not told in the prelogin.
WireValue(level) == IF level = "Strict" THEN "Required" ELSE level

\* A message of the client, with what the server takes from it.
Message(kind, via) ==
    [kind |-> kind, via |-> via, encryption |-> WireValue(cfg.encryption), auth |-> cfg.auth]

\* send, send_sensitive_login: the message is written, to be flushed next.
Write(kind, next) ==
    /\ out' = Append(out, Message(kind, transport))
    /\ sent' = sent \cup {[kind |-> kind, via |-> transport]}
    /\ flushed' = FALSE
    /\ pc' = next
    /\ UNCHANGED <<cfg, transport, encryption, size, armed, replyVars, outcome, c2s, s2c, srvVars>>

\* A slip of send_sensitive_login: the login is written but not flushed.
LoginKept(msgs) == IF pc = "flush_login" THEN <<>> ELSE msgs

\* flush_sink, or flush of the TLS stream: everything reaches the socket.
Flushed(msgs) == msgs

\* A slip of post_login_encryption: TLS stays on.
TlsStaysOn(level, tr) == tr

\* post_login_encryption
PostLogin(level, tr) == IF level = "Off" THEN "raw" ELSE tr

\* The message is out; after a login TLS may be turned off, with whatever the
\* TLS stream still holds.
Flush ==
    /\ pc \in {"flush_prelogin", "flush_login", "flush_sspi"}
    /\ c2s' = c2s \o Flushed(out)
    /\ out' = <<>>
    /\ transport' = IF pc = "flush_login" THEN PostLogin(encryption, transport) ELSE transport
    /\ pc' = CASE pc = "flush_prelogin" -> "prelogin"
               [] pc = "flush_login" /\ cfg.auth # "oneshot" -> "sspi"
               [] OTHER -> "response"
    /\ UNCHANGED <<cfg, encryption, flushed, size, armed, replyVars, outcome, s2c, srvVars, sent>>

\* Writing to a connection that is closed may fail.
WriteFails ==
    /\ pc \in {"flush_prelogin", "flush_login", "flush_sspi"} /\ closed
    /\ Fail("io")
    /\ UNCHANGED <<cfg, connVars, replyVars, c2s, s2c, srvVars, sent>>

-----------------------------------------------------------------------------
(* establish, prelogin, tls_handshake                                       *)

\* The first flight of the TLS library, raw or in prelogin packets.
Hello(via) ==
    /\ c2s' = Append(c2s, Message("hello", via))
    /\ sent' = sent \cup {[kind |-> "hello", via |-> via]}

\* In strict mode TLS comes before everything else.
Establish ==
    /\ pc = "establish"
    /\ IF cfg.encryption = "Strict" /\ cfg.backend
       THEN Hello("raw") /\ pc' = "strict_tls"
       ELSE pc' = "send_prelogin" /\ UNCHANGED <<c2s, sent>>
    /\ UNCHANGED <<cfg, connVars, replyVars, outcome, s2c, srvVars>>

SendPrelogin ==
    /\ pc = "send_prelogin"
    /\ Write("prelogin", "flush_prelogin")

\* A slip of negotiated_encryption: what is required can be declined.
NegotiatedWithDowngrade(expected, server) ==
    IF expected = "Strict" THEN "Strict"
    ELSE IF server \in {"Off", "NotSupported"} THEN server ELSE "On"

\* negotiated_encryption, with a TLS backend.  "error" is an error.
NegotiatedWithTls(expected, server) ==
    CASE expected \in {"NotSupported", "Off"} /\ server = expected -> expected
      [] expected \in {"On", "Required"} /\ server \in {"Off", "NotSupported"} -> "error"
      [] expected = "Strict" -> "Strict"
      [] OTHER -> "On"

NegotiatedEncryption(expected, server) ==
    IF cfg.backend THEN NegotiatedWithTls(expected, server) ELSE "NotSupported"

\* tls_handshake does nothing for some levels; without a backend it refuses the
\* ones that cannot be had (check_tls_backend_available).
AfterPrelogin(level) ==
    IF ~cfg.backend
    THEN IF cfg.encryption \in {"On", "Required", "Strict"} THEN "failed" ELSE "send_login"
    ELSE IF level \in {"NotSupported", "Strict"} THEN "send_login" ELSE "tls_handshake"

\* What the client can make of the first unit in s2c.
Readable == s2c # <<>> /\ Head(s2c).via = transport

\* collect_from, validate_instance, negotiated_encryption and the head of
\* tls_handshake.
PreloginAnswer ==
    /\ pc = "prelogin" /\ Readable
    /\ s2c' = Tail(s2c)
    /\ flushed' = TRUE
    /\ LET answer == Head(s2c)
           level == NegotiatedEncryption(cfg.encryption, answer.encryption)
       IN  IF \/ answer.encryption = "invalid"
              \/ cfg.instance /\ ~answer.instanceOk
              \/ level = "error"
           THEN Fail("protocol") /\ UNCHANGED <<encryption, c2s, sent>>
           ELSE /\ encryption' = level
                /\ pc' = AfterPrelogin(level)
                /\ outcome' = IF pc' = "failed" THEN "tls" ELSE outcome
                /\ IF pc' = "tls_handshake" THEN Hello("wrapped") ELSE UNCHANGED <<c2s, sent>>
    /\ UNCHANGED <<cfg, transport, out, size, armed, replyVars, srvVars>>

\* The TLS library is done; the wrapper passes bytes on from here.
TlsDone ==
    /\ pc \in {"strict_tls", "tls_handshake"}
    /\ s2c # <<>> /\ Head(s2c).kind = "tls"
    /\ s2c' = Tail(s2c)
    /\ transport' = "tls" /\ flushed' = FALSE
    /\ pc' = IF pc = "strict_tls" THEN "send_prelogin" ELSE "send_login"
    /\ UNCHANGED <<cfg, encryption, out, size, armed, replyVars, outcome, c2s, srvVars, sent>>

\* The TLS library gives up: its settings, or what the server has sent.
TlsFails ==
    /\ pc \in {"strict_tls", "tls_handshake"}
    /\ Fail("tls")
    /\ UNCHANGED <<cfg, connVars, replyVars, c2s, s2c, srvVars, sent>>

-----------------------------------------------------------------------------
(* login                                                                    *)

SendLogin ==
    /\ pc = "send_login"
    /\ Write("login", "flush_login")

\* An authentication library fails, before the login or at the challenge.
AuthFails ==
    /\ pc \in {"send_login", "send_sspi"} /\ cfg.auth # "oneshot"
    /\ Fail("auth")
    /\ UNCHANGED <<cfg, connVars, replyVars, c2s, s2c, srvVars, sent>>

\* The first token of the answer, of those that are not SSPI.
Token == Head(s2c).token

\* get_error keeps the first error, get_env_change checks the packet size.
Remember ==
    /\ last_error' = IF Token \in Errors /\ last_error = "none" THEN Token ELSE last_error
    /\ flushed' = Head(s2c).last
    /\ s2c' = Tail(s2c)

\* get_env_change refuses packet sizes out of range.
SizeAccepted(token) == IF token = "badsize" THEN "refused" ELSE token

\* flush_sspi, flush_done: a token that does not end the loop.
SetSize(n) == size' = IF n = "size" THEN "agreed" ELSE IF n = "badsize" THEN "bad" ELSE size

ReadToken ==
    /\ pc \in {"sspi", "response"} /\ ~flushed /\ Readable
    /\ Token \in Tokens /\ ~(pc = "response" /\ Token = "done")
    /\ Remember
    /\ routing' = IF pc = "response" /\ Token \in Routes THEN Token ELSE routing
    /\ SetSize(SizeAccepted(Token))
    /\ IF SizeAccepted(Token) = "refused" THEN Fail("protocol") ELSE UNCHANGED <<pc, outcome>>
    /\ UNCHANGED <<cfg, transport, encryption, out, armed, c2s, srvVars, sent>>

\* flush_sspi: the challenge.  The library answers it, or has nothing to say: a
\* token without bytes makes no packet, but send clears `flushed` all the same.
ReadSspi ==
    /\ pc = "sspi" /\ ~flushed /\ Readable /\ Token \in Challenges
    /\ s2c' = Tail(s2c)
    /\ last_error' = "none"
    /\ flushed' = (Token = "sspi" /\ Head(s2c).last)
    /\ IF Token = "sspi" THEN pc' = "send_sspi" /\ UNCHANGED outcome
       ELSE IF cfg.auth = "gssapi" THEN pc' = "flush_sspi" /\ UNCHANGED outcome
       ELSE Fail("protocol")
    /\ UNCHANGED <<cfg, transport, encryption, out, size, armed, routing, c2s, srvVars, sent>>

\* The second message of the login.
SendSspi ==
    /\ pc = "send_sspi"
    /\ Write("sspi", "flush_sspi")

\* A slip of flush_done: where to go wins over what went wrong.
RoutingWins == IF routing # "none" THEN routing ELSE IF last_error # "none" THEN last_error ELSE "ok"

\* flush_done at a DONE token.
DoneResult == IF last_error # "none" THEN last_error ELSE IF routing # "none" THEN routing ELSE "ok"

\* The command timeout is armed at the very end.
ReadDone ==
    /\ pc = "response" /\ ~flushed /\ Readable /\ Token = "done"
    /\ flushed' = Head(s2c).last
    /\ s2c' = Tail(s2c)
    /\ IF DoneResult = "ok" THEN pc' = "connected" /\ outcome' = "ok" /\ armed' = cfg.command_timeout
       ELSE Fail(DoneResult) /\ UNCHANGED armed
    /\ UNCHANGED <<cfg, transport, encryption, out, size, replyVars, c2s, srvVars, sent>>

\* The answer ends without SSPI or DONE: try_unfold gives the error it has.
AnswerEnds ==
    /\ pc \in {"sspi", "response"} /\ flushed
    /\ Fail(IF last_error # "none" THEN last_error ELSE "protocol")
    /\ UNCHANGED <<cfg, connVars, replyVars, c2s, s2c, srvVars, sent>>

\* The connection ends, or its bytes are not what the client takes them for.
ReadFails ==
    /\ \/ /\ pc \in {"prelogin", "strict_tls", "tls_handshake", "sspi", "response"}
          /\ closed /\ s2c = <<>>
       \/ /\ pc \in {"prelogin", "sspi", "response"}
          /\ s2c # <<>> /\ ~Readable
    /\ Fail(IF s2c = <<>> THEN "io" ELSE "garbled")
    /\ UNCHANGED <<cfg, connVars, replyVars, c2s, s2c, srvVars, sent>>

-----------------------------------------------------------------------------
(* Time                                                                     *)

\* A deadline passes: that of connect, or of RoundTripTimeout if the context has
\* a command timeout.
Deadline ==
    \/ cfg.handshake_timeout
    \/ armed /\ pc \in {"sspi", "response"}

TimesOut ==
    /\ ~Ended /\ Deadline
    /\ Fail("timed out")
    /\ UNCHANGED <<cfg, connVars, replyVars, c2s, s2c, srvVars, sent>>

-----------------------------------------------------------------------------
(* The server                                                               *)

SrvLive == ~closed /\ ~stalled /\ c2s # <<>>

\* What the server sends: TLS, an answer to the prelogin, or a token.
Unit(kind, via, level, ok, token, last) ==
    [kind |-> kind, via |-> via, encryption |-> level, instanceOk |-> ok, token |-> token, last |-> last]

\* The units of an answer; the last one ends the message.
Answer(tokens, via) ==
    [i \in 1..Len(tokens) |-> Unit("token", via, "none", TRUE, tokens[i], i = Len(tokens))]

\* Any answer to the prelogin, sent the way the prelogin came.
SrvPrelogin(level, ok) ==
    /\ SrvLive /\ Head(c2s).kind = "prelogin" /\ Head(c2s).via = srv.via
    /\ srv' = [srv EXCEPT !.reply = level, !.client = Head(c2s).encryption]
    /\ s2c' = Append(s2c, Unit("prelogin", srv.via, level, ok, "none", TRUE))
    /\ c2s' = Tail(c2s)
    /\ UNCHANGED <<cfg, pc, connVars, replyVars, outcome, closed, stalled, resp, sent>>

\* A TLS handshake: first thing (strict), or if the prelogin has left it open.
SrvTls ==
    /\ SrvLive /\ Head(c2s).kind = "hello"
    /\ srv.reply # "NotSupported"
    /\ srv' = [srv EXCEPT !.via = "tls"]
    /\ s2c' = Append(s2c, Unit("tls", Head(c2s).via, "none", TRUE, "none", TRUE))
    /\ c2s' = Tail(c2s)
    /\ UNCHANGED <<cfg, pc, connVars, replyVars, outcome, closed, stalled, resp, sent>>

\* The login is read if it comes as agreed on; if both sides said Off it is the
\* last that is encrypted.
LoginAcceptable == Head(c2s).via = srv.via /\ (srv.via = "tls" \/ srv.reply = "NotSupported")
AfterLogin == IF srv.client = "Off" /\ srv.reply = "Off" THEN "raw" ELSE srv.via

SrvLogin(tokens) ==
    /\ SrvLive /\ Head(c2s).kind = "login" /\ LoginAcceptable
    /\ srv' = [srv EXCEPT !.via = AfterLogin]
    /\ resp' = tokens
    /\ s2c' = s2c \o Answer(tokens, AfterLogin)
    /\ c2s' = Tail(c2s)
    /\ UNCHANGED <<cfg, pc, connVars, replyVars, outcome, closed, stalled, sent>>

\* A challenge; after the last one the answer follows unasked.
SrvChallenge(token, tokens) ==
    /\ SrvLive /\ Head(c2s).kind = "login" /\ LoginAcceptable
    /\ Head(c2s).auth # "oneshot"
    /\ srv' = [srv EXCEPT !.via = AfterLogin]
    /\ s2c' = s2c \o Answer(<<token>>, AfterLogin)
                  \o (IF token = "sspi_last" THEN Answer(tokens, AfterLogin) ELSE <<>>)
    /\ resp' = IF token = "sspi_last" THEN tokens ELSE resp
    /\ c2s' = Tail(c2s)
    /\ UNCHANGED <<cfg, pc, connVars, replyVars, outcome, closed, stalled, sent>>

SrvSspi(tokens) ==
    /\ SrvLive /\ Head(c2s).kind = "sspi" /\ Head(c2s).via = srv.via
    /\ resp' = tokens
    /\ s2c' = s2c \o Answer(tokens, srv.via)
    /\ c2s' = Tail(c2s)
    /\ UNCHANGED <<cfg, pc, connVars, replyVars, outcome, srv, closed, stalled, sent>>

\* What it cannot accept makes it close the connection.
SrvRefuses ==
    /\ SrvLive
    /\ \/ Head(c2s).kind = "hello" /\ srv.reply = "NotSupported"
       \/ Head(c2s).kind = "login" /\ ~LoginAcceptable
       \/ Head(c2s).kind \in {"prelogin", "sspi"} /\ Head(c2s).via # srv.via
    /\ closed' = TRUE
    /\ UNCHANGED <<cfg, pc, connVars, replyVars, outcome, c2s, s2c, srv, stalled, resp, sent>>

SrvClose ==
    /\ ~closed /\ ~Ended
    /\ closed' = TRUE
    /\ UNCHANGED <<cfg, pc, connVars, replyVars, outcome, c2s, s2c, srv, stalled, resp, sent>>

SrvStall ==
    /\ ~closed /\ ~stalled /\ ~Ended
    /\ stalled' = TRUE
    /\ UNCHANGED <<cfg, pc, connVars, replyVars, outcome, c2s, s2c, srv, closed, resp, sent>>

-----------------------------------------------------------------------------
Client ==
    \/ Establish \/ SendPrelogin \/ PreloginAnswer \/ TlsDone
    \/ SendLogin \/ AuthFails \/ ReadToken \/ ReadSspi \/ SendSspi
    \/ ReadDone \/ AnswerEnds \/ ReadFails \/ Flush \/ WriteFails

Server ==
    \/ \E level \in Levels \cup {"invalid"}, ok \in BOOLEAN : SrvPrelogin(level, ok)
    \/ SrvTls
    \/ \E tokens \in Responses :
        \/ SrvLogin(tokens)
        \/ \E token \in Challenges : SrvChallenge(token, tokens)
        \/ SrvSspi(tokens)
    \/ SrvRefuses

Next ==
    \/ Client \/ TlsFails \/ TimesOut
    \/ Server \/ SrvClose \/ SrvStall
    \/ Ended /\ UNCHANGED vars

Spec == Init /\ [][Next]_vars

\* connect is polled, the server answers unless it falls silent, time passes.
FairSpec == Spec /\ WF_vars(Client) /\ WF_vars(Server) /\ WF_vars(TimesOut)

-----------------------------------------------------------------------------
(* Properties                                                               *)

\* Whatever the server answers, nothing of the login leaves in the clear if the
\* configuration asks for encryption, and a connection is encrypted if it asks
\* for that: Off protects the login message, On and Required everything after
\* the prelogin, Strict the prelogin too (negotiated_encryption, tls_handshake,
\* post_login_encryption, check_tls_backend_available).  With Off and no TLS
\* backend the login is not protected: that is not refused by the code.
DemandedEncryption ==
    /\ cfg.encryption \in {"On", "Required", "Strict"} =>
        /\ \A m \in sent : m.kind \in {"login", "sspi"} => m.via = "tls"
        /\ pc = "connected" => transport = "tls"
    /\ cfg.encryption = "Strict" /\ cfg.backend =>
        \A m \in sent : m.kind = "prelogin" => m.via = "tls"
    /\ cfg.encryption = "Off" /\ cfg.backend =>
        \A m \in sent : m.kind = "login" => m.via = "tls"

\* The client never takes TLS records for packets or packets for TLS records:
\* both sides change over at the same place, whatever was negotiated.
SidesAgree == outcome # "garbled"

Has(tokens, kinds) == \E i \in DOMAIN tokens : tokens[i] \in kinds
First(tokens, kinds) ==
    tokens[CHOOSE i \in DOMAIN tokens :
             tokens[i] \in kinds /\ \A j \in 1..(i - 1) : tokens[j] \notin kinds]

\* What connect reports is what the server said: no connection if there was an
\* error or a redirection anywhere in the answer, the first error if there was
\* any, and the redirection otherwise (flush_done, flush_sspi, try_unfold).
OutcomeFaithful ==
    /\ outcome = "ok" => Has(resp, {"done"}) /\ ~Has(resp, Errors \cup Routes \cup {"badsize"})
    /\ outcome \in Errors => outcome = First(resp, Errors)
    /\ outcome \in Routes => Has(resp, {outcome}) /\ ~Has(resp, Errors)

\* Without a handshake_timeout connect waits for as long as it takes, whatever
\* command_timeout is (establish arms it at the end).
WaitsIfTold == outcome = "timed out" => cfg.handshake_timeout

\* connect returns, unless the server falls silent and no deadline was set.
ConnectEnds == <>(Ended \/ (stalled /\ ~cfg.handshake_timeout))

==============================================================================
