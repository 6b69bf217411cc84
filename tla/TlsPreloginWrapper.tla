-------------------------- MODULE TlsPreloginWrapper --------------------------
(***************************************************************************)
(* The stream between the TLS library and the socket                       *)
(* (src/src/client/tls.rs).  Until the TLS handshake is complete each      *)
(* flush of the TLS library is wrapped in a PRELOGIN packet and the        *)
(* packets of the server are unwrapped; after it the wrapper only passes   *)
(* calls on.                                                               *)
(*                                                                         *)
(* A byte is a record: the pos-th byte of the TLS stream of its side       *)
(* ("tls"), the pos-th byte of a packet header that says len ("hdr"; "bad" *)
(* if its type or status is wrong), or the placeholder of a header         *)
(* ("zero").                                                               *)
(***************************************************************************)
EXTENDS Integers, FiniteSetsExt, Sequences

CONSTANTS
    HeaderBytes,   \* HEADER_BYTES, 8 in the code
    LengthMax,     \* the largest header length, u16::MAX in the code
    Flights,       \* Flights[i]: handshake bytes the client (c) and the server (s) have
                   \* sent after their i-th flights
    RawBytes,      \* bytes each side sends after the handshake
    Faults         \* what may go wrong in this run

FaultKinds ==
    {"tail",    \* a short write may leave no more than HeaderBytes bytes
     "close",   \* the server closes the connection
     "empty",   \* the server sends a prelogin packet without payload
     "bad"}     \* the server sends a header that is not a prelogin packet's

ASSUME WrapperAssumption ==
    /\ HeaderBytes \in Nat \ {0}
    /\ LengthMax \in Nat
    /\ Flights \in Seq([c : Nat, s : Nat])
    /\ Len(Flights) > 0
    /\ RawBytes \in Nat
    /\ Faults \subseteq FaultKinds

VARIABLES
    pending,     \* pending_handshake
    hdrBuf,      \* header_buf[..header_pos]
    remaining,   \* read_remaining
    wrBuf,       \* wr_buf
    hdrWritten,  \* header_written
    tls,         \* the TLS library: "write", "flush", "read", "done", "failed", "eof"
    round,       \* the flight the TLS library is at
    wrote,       \* bytes the TLS library has written
    got,         \* bytes the wrapper has handed to the TLS library
    outgoing, incoming,    \* the socket, to the server and from it
    srvGot,      \* TLS bytes the server has received
    srvLeft,     \* what is left of the packet the server is reading
    srvSent,     \* TLS bytes the server has sent
    srvState,    \* "open", "misframed" (it met no header), "closed"
    srvHollow    \* history: the server has sent a packet without payload

wrapVars == <<pending, hdrBuf, remaining, wrBuf, hdrWritten>>
tlsVars == <<tls, round, wrote, got>>
srvVars == <<srvGot, srvLeft, srvSent, srvState, srvHollow>>
wrapperVars == <<wrapVars, tlsVars, outgoing, incoming, srvVars>>

Tls(i) == [kind |-> "tls", pos |-> i, len |-> 0]
TlsBytes(from, n) == [i \in 1..n |-> Tls(from + i)]
Zeros == [i \in 1..HeaderBytes |-> [kind |-> "zero", pos |-> i, len |-> 0]]
Header(kind, len) == [i \in 1..HeaderBytes |-> [kind |-> kind, pos |-> i, len |-> len]]

\* A TLS stream as far as byte n.
Stream(n) == TlsBytes(0, n)

\* Bytes of the handshake the client, or the server, has sent after flight i.
ClientBytes(i) == IF i = 0 THEN 0 ELSE Flights[i].c
ServerBytes(i) == IF i = 0 THEN 0 ELSE Flights[i].s

\* The client speaks in every flight; the server answers each, but the last
\* flight may end with the client (TLS 1.3).
ASSUME FlightAssumption ==
    \A i, j \in 0..Len(Flights) : i < j =>
        /\ ClientBytes(i) < ClientBytes(j)
        /\ ServerBytes(i) <= ServerBytes(j)
        /\ j < Len(Flights) => ServerBytes(i) < ServerBytes(j)

AllClient == ClientBytes(Len(Flights))
AllServer == ServerBytes(Len(Flights))

-----------------------------------------------------------------------------
\* TlsPreloginWrapper::new
Fresh ==
    /\ pending = TRUE /\ hdrBuf = <<>> /\ remaining = 0
    /\ wrBuf = Zeros /\ hdrWritten = FALSE
    /\ round = 1 /\ wrote = 0 /\ got = <<>>
    /\ outgoing = <<>> /\ incoming = <<>>
    /\ srvGot = <<>> /\ srvLeft = 0 /\ srvSent = 0 /\ srvState = "open"
    /\ srvHollow = FALSE

WrapperInit == Fresh /\ tls = "write"

\* No handshake.
WrapperIdle == Fresh /\ tls = "idle"

-----------------------------------------------------------------------------
(* poll_write and poll_flush                                                *)

\* The TLS library writes part of its flight: poll_write buffers it.
PollWrite(n) ==
    /\ tls = "write" /\ pending
    /\ wrote + n <= ClientBytes(round)
    /\ wrBuf' = wrBuf \o TlsBytes(wrote, n)
    /\ wrote' = wrote + n
    /\ UNCHANGED <<pending, hdrBuf, remaining, hdrWritten, tls, round, got, outgoing, incoming, srvVars>>

\* The TLS library asks for a flush and polls it until it is ready.
TlsFlush ==
    /\ tls = "write" /\ pending
    /\ wrote > ClientBytes(round - 1)
    /\ tls' = "flush"
    /\ UNCHANGED <<wrapVars, round, wrote, got, outgoing, incoming, srvVars>>

\* A slip of ToFlush: one more byte is asked for.
ToFlushMore == pending /\ Len(wrBuf) > HeaderBytes + 1

\* There is something to flush besides the header.
ToFlush == pending /\ Len(wrBuf) > HeaderBytes

\* A slip of WithHeader: the header is written again when a flush is resumed.
HeaderAgain ==
    Header("hdr", Len(wrBuf)) \o SubSeq(wrBuf, HeaderBytes + 1, Len(wrBuf))

\* The buffer with its placeholder overwritten, once per packet.
WithHeader ==
    IF hdrWritten THEN wrBuf
    ELSE Header("hdr", Len(wrBuf)) \o SubSeq(wrBuf, HeaderBytes + 1, Len(wrBuf))

\* PacketHeader::new asserts that the length fits its field.
FlushPanics ==
    /\ tls = "flush" /\ ToFlush /\ ~hdrWritten
    /\ Len(wrBuf) > LengthMax
    /\ tls' = "failed"
    /\ UNCHANGED <<wrapVars, round, wrote, got, outgoing, incoming, srvVars>>

\* What a short write of the socket may leave in the buffer.
ShortWriteLeaves(n) == n > 0 /\ ("tail" \in Faults \/ n > HeaderBytes)

\* The socket takes the first n bytes and is not ready for more.
FlushPending(n) ==
    /\ tls = "flush" /\ ToFlush
    /\ hdrWritten \/ Len(wrBuf) <= LengthMax
    /\ ShortWriteLeaves(Len(wrBuf) - n)
    /\ outgoing' = outgoing \o SubSeq(WithHeader, 1, n)
    /\ wrBuf' = SubSeq(WithHeader, n + 1, Len(wrBuf))
    /\ hdrWritten' = TRUE
    /\ UNCHANGED <<pending, hdrBuf, remaining, tlsVars, incoming, srvVars>>

\* The TLS library goes on: the rest of its flight, the answer, or the end.
AfterFlush ==
    tls' = IF wrote < ClientBytes(round) THEN "write"
           ELSE IF ServerBytes(round) > ServerBytes(round - 1) THEN "read" ELSE "done"

\* The whole buffer is written; the packet is complete.
FlushReady ==
    /\ tls = "flush" /\ ToFlush
    /\ hdrWritten \/ Len(wrBuf) <= LengthMax
    /\ outgoing' = outgoing \o WithHeader
    /\ wrBuf' = Zeros /\ hdrWritten' = FALSE
    /\ AfterFlush
    /\ UNCHANGED <<pending, hdrBuf, remaining, round, wrote, got, incoming, srvVars>>

\* Nothing to write: the call is passed on to the socket, which is ready.
FlushNothing ==
    /\ tls = "flush" /\ ~ToFlush
    /\ AfterFlush
    /\ UNCHANGED <<wrapVars, round, wrote, got, outgoing, incoming, srvVars>>

-----------------------------------------------------------------------------
(* poll_read                                                                *)

\* What is missing of a header.
HeaderLeft == HeaderBytes - Len(hdrBuf)

\* A header is complete with the next bytes of the socket, the first a of
\* which have arrived.
Complete(a) == a >= HeaderLeft
NextHeader == hdrBuf \o SubSeq(incoming, 1, HeaderLeft)

\* PacketHeader::decode, the test of the type, and checked_sub.
GoodHeader == NextHeader[1].kind = "hdr" /\ NextHeader[1].len >= HeaderBytes

\* A slip of LeftInPacket: the length is taken to be the payload's.
LeftInPacketAndHeader == IF HeaderLeft = 0 THEN remaining ELSE NextHeader[1].len

\* read_remaining once the header is there; the payload follows it.
LeftInPacket == IF HeaderLeft = 0 THEN remaining ELSE NextHeader[1].len - HeaderBytes

\* The end of the stream, if all that was sent has been read.
AtEnd(a) == srvState = "closed" /\ a = Len(incoming)

\* The handshake is over when the TLS library has read the last flight.
AfterRead(n) ==
    /\ tls' = IF n < ServerBytes(round) THEN "read"
              ELSE IF round < Len(Flights) THEN "write" ELSE "done"
    /\ round' = IF n >= ServerBytes(round) /\ round < Len(Flights) THEN round + 1 ELSE round

\* A slip of ReadHeaderPart: what has arrived is forgotten.
ForgetHeaderPart(a) ==
    /\ tls = "read" /\ ~Complete(a)
    /\ hdrBuf' = <<>>
    /\ incoming' = SubSeq(incoming, a + 1, Len(incoming))
    /\ tls' = IF AtEnd(a) THEN "eof" ELSE "read"
    /\ UNCHANGED <<pending, remaining, wrBuf, hdrWritten, round, wrote, got, outgoing, srvVars>>

\* Only part of a header has arrived: kept for the next call.
ReadHeaderPart(a) ==
    /\ tls = "read" /\ ~Complete(a)
    /\ hdrBuf' = hdrBuf \o SubSeq(incoming, 1, a)
    /\ incoming' = SubSeq(incoming, a + 1, Len(incoming))
    /\ tls' = IF AtEnd(a) THEN "eof" ELSE "read"
    /\ UNCHANGED <<pending, remaining, wrBuf, hdrWritten, round, wrote, got, outgoing, srvVars>>

\* Not a prelogin packet, or one shorter than its header.
ReadBadHeader(a) ==
    /\ tls = "read" /\ HeaderLeft > 0 /\ Complete(a) /\ ~GoodHeader
    /\ hdrBuf' = NextHeader
    /\ incoming' = SubSeq(incoming, HeaderLeft + 1, Len(incoming))
    /\ tls' = "failed"
    /\ UNCHANGED <<pending, remaining, wrBuf, hdrWritten, round, wrote, got, outgoing, srvVars>>

\* A header, and no payload yet.
ReadHeader(a) ==
    /\ tls = "read" /\ Complete(a)
    /\ HeaderLeft > 0 => GoodHeader
    /\ a = HeaderLeft /\ LeftInPacket > 0
    /\ hdrBuf' = NextHeader /\ remaining' = LeftInPacket
    /\ incoming' = SubSeq(incoming, HeaderLeft + 1, Len(incoming))
    /\ tls' = IF AtEnd(a) THEN "eof" ELSE "read"
    /\ UNCHANGED <<pending, wrBuf, hdrWritten, round, wrote, got, outgoing, srvVars>>

\* What a read may take of the bytes that follow the header: never more than
\* the packet holds.  A read with no room takes nothing, at once.
ReadSizes(a) == IF LeftInPacket = 0 THEN {0} ELSE 1..Min({LeftInPacket, a - HeaderLeft})

\* A slip of HeaderAfter: the header of the packet that has been read is kept.
HeaderKept(left) == NextHeader

\* header_pos after a read: all data is read, a new header is expected.
HeaderAfter(left) == IF left = 0 THEN <<>> ELSE NextHeader

\* n bytes of the payload are handed to the TLS library, for which none is the
\* end of the stream.
ReadPayload(a, n) ==
    /\ tls = "read" /\ Complete(a)
    /\ HeaderLeft > 0 => GoodHeader
    /\ n \in ReadSizes(a)
    /\ remaining' = LeftInPacket - n
    /\ hdrBuf' = HeaderAfter(LeftInPacket - n)
    /\ got' = got \o SubSeq(incoming, HeaderLeft + 1, HeaderLeft + n)
    /\ incoming' = SubSeq(incoming, HeaderLeft + n + 1, Len(incoming))
    /\ IF n = 0 THEN tls' = "eof" /\ UNCHANGED round ELSE AfterRead(Len(got) + n)
    /\ UNCHANGED <<pending, wrBuf, hdrWritten, wrote, outgoing, srvVars>>

-----------------------------------------------------------------------------
(* The end of the handshake, and after it                                   *)

\* tls_handshake: create_tls_stream has returned.
HandshakeComplete ==
    /\ tls = "done" /\ pending
    /\ pending' = FALSE
    /\ UNCHANGED <<hdrBuf, remaining, wrBuf, hdrWritten, tlsVars, outgoing, incoming, srvVars>>

RawWrite(n) ==
    /\ tls = "done" /\ ~pending
    /\ wrote + n <= AllClient + RawBytes
    /\ outgoing' = outgoing \o TlsBytes(wrote, n)
    /\ wrote' = wrote + n
    /\ UNCHANGED <<wrapVars, tls, round, got, incoming, srvVars>>

RawRead(n) ==
    /\ tls = "done" /\ ~pending
    /\ n <= Len(incoming)
    /\ got' = got \o SubSeq(incoming, 1, n)
    /\ incoming' = SubSeq(incoming, n + 1, Len(incoming))
    /\ UNCHANGED <<wrapVars, tls, round, wrote, outgoing, srvVars>>

-----------------------------------------------------------------------------
(* The server and the socket (external)                                     *)

\* During the handshake the server expects the header of a prelogin packet.
SrvHeader ==
    /\ srvState = "open" /\ srvLeft = 0
    /\ Len(srvGot) < AllClient
    /\ Len(outgoing) >= HeaderBytes
    /\ LET h == SubSeq(outgoing, 1, HeaderBytes) IN
        IF h[1].kind = "hdr" /\ h = Header("hdr", h[1].len)
        THEN srvLeft' = h[1].len - HeaderBytes /\ UNCHANGED srvState
        ELSE srvState' = "misframed" /\ UNCHANGED srvLeft
    /\ outgoing' = SubSeq(outgoing, HeaderBytes + 1, Len(outgoing))
    /\ UNCHANGED <<wrapVars, tlsVars, incoming, srvGot, srvSent, srvHollow>>

\* It reads the payload of a packet, and plain bytes after the handshake.
SrvRead ==
    /\ srvState = "open" /\ Len(outgoing) > 0
    /\ srvLeft > 0 \/ Len(srvGot) >= AllClient
    /\ srvGot' = Append(srvGot, Head(outgoing))
    /\ srvLeft' = IF srvLeft > 0 THEN srvLeft - 1 ELSE 0
    /\ outgoing' = Tail(outgoing)
    /\ UNCHANGED <<wrapVars, tlsVars, incoming, srvSent, srvState, srvHollow>>

\* A packet with n bytes of the flight that answers what the server has got.
SrvSend(n) ==
    /\ srvState = "open"
    /\ \E i \in 1..Len(Flights) :
        /\ Len(srvGot) >= ClientBytes(i)
        /\ srvSent >= ServerBytes(i - 1) /\ srvSent + n <= ServerBytes(i)
    /\ incoming' = incoming \o Header("hdr", HeaderBytes + n) \o TlsBytes(srvSent, n)
    /\ srvSent' = srvSent + n
    /\ UNCHANGED <<wrapVars, tlsVars, outgoing, srvGot, srvLeft, srvState, srvHollow>>

SrvSendRaw(n) ==
    /\ srvState = "open"
    /\ Len(srvGot) >= AllClient /\ srvSent >= AllServer
    /\ srvSent + n <= AllServer + RawBytes
    /\ incoming' = incoming \o TlsBytes(srvSent, n)
    /\ srvSent' = srvSent + n
    /\ UNCHANGED <<wrapVars, tlsVars, outgoing, srvGot, srvLeft, srvState, srvHollow>>

\* A header of another type, or one that says less than its own length.
SrvBadHeader ==
    /\ "bad" \in Faults /\ srvState = "open"
    /\ Len(srvGot) >= ClientBytes(1) /\ srvSent < AllServer
    /\ \E h \in {Header("bad", HeaderBytes + 1), Header("hdr", HeaderBytes - 1)} : incoming' = incoming \o h
    /\ srvState' = "closed"
    /\ UNCHANGED <<wrapVars, tlsVars, outgoing, srvGot, srvLeft, srvSent, srvHollow>>

\* A packet that is only a header.  The reader stops at the first one, so one is
\* enough.
SrvEmpty ==
    /\ "empty" \in Faults /\ srvState = "open" /\ ~srvHollow
    /\ Len(srvGot) >= ClientBytes(1) /\ srvSent < AllServer
    /\ incoming' = incoming \o Header("hdr", HeaderBytes)
    /\ srvHollow' = TRUE
    /\ UNCHANGED <<wrapVars, tlsVars, outgoing, srvGot, srvLeft, srvSent, srvState>>

SrvClose ==
    /\ "close" \in Faults /\ srvState = "open"
    /\ srvState' = "closed"
    /\ UNCHANGED <<wrapVars, tlsVars, outgoing, incoming, srvGot, srvLeft, srvSent, srvHollow>>

-----------------------------------------------------------------------------
\* A call is polled when the first a bytes from the server have arrived.
PollRead ==
    \E a \in 0..Len(incoming) :
        \/ ReadHeaderPart(a)
        \/ ReadBadHeader(a)
        \/ ReadHeader(a)
        \/ \E n \in 0..Len(incoming) : ReadPayload(a, n)

PollFlush ==
    \/ FlushPanics
    \/ \E n \in 0..Len(wrBuf) : FlushPending(n)
    \/ FlushReady
    \/ FlushNothing

SrvStep ==
    \/ SrvHeader
    \/ SrvRead
    \/ \E n \in 1..AllServer : SrvSend(n)
    \/ \E n \in 1..RawBytes : SrvSendRaw(n)
    \/ SrvBadHeader
    \/ SrvEmpty
    \/ SrvClose

WrapperNext ==
    \/ \E n \in 1..AllClient : PollWrite(n)
    \/ TlsFlush
    \/ PollFlush
    \/ PollRead
    \/ HandshakeComplete
    \/ \E n \in 1..RawBytes : RawWrite(n)
    \/ \E n \in 1..RawBytes : RawRead(n)
    \/ SrvStep

WrapperSpec == WrapperInit /\ [][WrapperNext]_wrapperVars

(***************************************************************************)
(* The TLS library polls until its call is ready and does not flush for    *)
(* ever what it has not written, the socket takes what it is given in the  *)
(* end, and the server answers.                                            *)
(***************************************************************************)
WrapperFairness ==
    /\ SF_wrapperVars(\E n \in 1..AllClient : PollWrite(n))
    /\ WF_wrapperVars(TlsFlush)
    /\ WF_wrapperVars(FlushPanics \/ FlushReady \/ FlushNothing)
    /\ WF_wrapperVars(PollRead)
    /\ WF_wrapperVars(HandshakeComplete)
    /\ WF_wrapperVars(\E n \in 1..RawBytes : RawWrite(n))
    /\ WF_wrapperVars(\E n \in 1..RawBytes : RawRead(n))
    /\ WF_wrapperVars(SrvHeader)
    /\ WF_wrapperVars(SrvRead)
    /\ WF_wrapperVars(\E n \in 1..AllServer : SrvSend(n))
    /\ WF_wrapperVars(\E n \in 1..RawBytes : SrvSendRaw(n))

-----------------------------------------------------------------------------
(* Properties                                                               *)

\* What poll_read hands to the TLS library is the server's TLS stream from its
\* first byte, with no header byte in it and nothing lost, however the packets
\* are cut, wherever a call is pending, and across the switch to raw reads.
InboundFaithful == got = Stream(Len(got))

\* What poll_flush writes is a sequence of prelogin packets that carry the
\* client's TLS stream, however the socket cuts a write short: the server
\* meets a header wherever it expects one, and no header inside the stream.
OutboundFaithful == srvState # "misframed" /\ srvGot = Stream(Len(srvGot))

\* A flush that was reported ready has sent everything: poll_flush "back-fills
\* that header and writes the whole frame to the wire" (tls.rs, tests).  The TLS
\* library waits for an answer, or ends the handshake, only after such a flush.
FlushedMeansSent == tls \in {"read", "done"} => wrBuf = Zeros

\* poll_read returns no bytes, which the TLS library takes for the end of the
\* stream, only when the server has closed it, wherever packets and reads are cut.
\* One thing else ends the stream, in the code as here: a packet without payload,
\* for which poll_read returns Ok(0) with the server's end open.
NoSpuriousEof == tls = "eof" => srvState = "closed" \/ srvHollow

\* The handshake ends: it fails, or it is completed and, unless the server
\* closes the connection, what either side sends afterwards reaches the other.
HandshakeEnds ==
    tls # "idle" ~> \/ tls \in {"failed", "eof"}
                    \/ ~pending /\ srvState = "closed"
                    \/ /\ ~pending
                       /\ got = Stream(AllServer + RawBytes)
                       /\ srvGot = Stream(AllClient + RawBytes)

==============================================================================
