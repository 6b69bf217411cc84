---------------------------- MODULE PacketFraming ----------------------------
(***************************************************************************)
(* Messages cut into packets and put together again: Connection::send,     *)
(* send_sensitive_login, the bulk load and the Attention on the writing    *)
(* side (src/src/client/connection.rs, src/src/tds/codec/bulk_load.rs),    *)
(* Packet::encode in between (packet.rs), PacketCodec::decode and          *)
(* collect_from on the reading side (decode.rs, codec.rs).                 *)
(*                                                                         *)
(* Everything is counted in bytes.  A byte is a record: the i-th byte of   *)
(* message m ("data"), or one of the header of a packet of message m       *)
(* ("hdr"), with the type, the length and the end-of-message status it     *)
(* says; its "size" is not on the wire: the size in force when it was made.*)
(***************************************************************************)
EXTENDS Integers, FiniteSetsExt, SequencesExt

CONSTANTS
    HeaderBytes,       \* HEADER_BYTES, 8 in the code
    MinSize, MaxSize,  \* the packet sizes a server may ask for, 512 and 32767
    FirstSize,         \* the packet size before it does, 4096
    Sizes,             \* what the server asks for in this run
    LengthMod,         \* the length field is 16 bits wide: 65536
    SendSizes,         \* payloads of requests
    LoginSizes,        \* payloads of logins
    RowSizes,          \* encoded rows of a bulk load
    MaxMsgs, MaxRows,  \* bounds: messages, and rows of bulk loads
    MaxPayload,        \* no message is longer
    MayAbandon         \* a BulkLoadRequest may be dropped with a part of it sent

ASSUME FramingAssumption ==
    /\ HeaderBytes \in Nat \ {0}
    /\ MinSize \in Nat /\ HeaderBytes < MinSize
    /\ MaxSize \in Nat /\ MinSize <= MaxSize
    /\ FirstSize \in MinSize..MaxSize
    /\ LengthMod \in Nat /\ MaxSize < LengthMod
    /\ Sizes \subseteq Nat
    /\ SendSizes \subseteq Nat \ {0}
    /\ LoginSizes \subseteq Nat \ {0}
    /\ RowSizes \subseteq Nat \ {0}
    /\ MaxMsgs \in Nat /\ MaxRows \in Nat /\ MaxPayload \in Nat \ {0, 1}
    /\ SendSizes \cup LoginSizes \subseteq 0..MaxPayload
    /\ MayAbandon \in BOOLEAN

VARIABLES
    pc,        \* "idle", "loop" (a packet is to be made), "flush" and, for the
               \* packet that ends the message, "last", "frames" (the frames of a
               \* login are made), "login" (they are written), "bulk"
    kind,      \* the message being written: "send", "login", "bulk", "attn"
    todo,      \* its payload that is not in a packet yet
    ending,    \* finalize has been called
    rows,      \* rows of bulk loads so far
    poisoned,  \* the field of Connection
    size,      \* packet_size of the context
    wbuf,      \* the write buffer of Framed
    frames,    \* the frames of a login
    open,      \* the connection is open
    src,       \* the bytes that have arrived: the read buffer of Framed
    acc,       \* collect_from: payload of the packets of this message
    reader,    \* "reading", "eof", "error"
    msg,       \* history: the message being written
    done,      \* history: the messages written to their end
    received   \* the messages the reader has put together

writerVars == <<pc, kind, todo, ending, rows, poisoned, size, wbuf, frames, msg, done>>
readerVars == <<src, acc, reader, received>>
vars == <<writerVars, open, readerVars>>

Data(m, i) ==
    [kind |-> "data", m |-> m, i |-> i, type |-> "none", len |-> 0, eom |-> FALSE, size |-> 0]

\* n more bytes of the message being written.
Bytes(from, n) == [i \in 1..n |-> Data(Len(done) + 1, from + i)]

\* A slip of send: the size the connection began with is kept.
RoomAtFirst == FirstSize - HeaderBytes

\* Room for payload in a packet.
Room == size - HeaderBytes

Take(s, n) == SubSeq(s, 1, n)
DropFirst(s, n) == SubSeq(s, n + 1, Len(s))

Init ==
    /\ pc = "idle" /\ kind = "send" /\ todo = <<>> /\ ending = FALSE /\ rows = 0
    /\ poisoned = FALSE /\ size = FirstSize /\ wbuf = <<>> /\ frames = <<>>
    /\ msg = <<>> /\ done = <<>>
    /\ open = TRUE
    /\ src = <<>> /\ acc = <<>> /\ reader = "reading" /\ received = <<>>

-----------------------------------------------------------------------------
(* Packets                                                                  *)

Header(type, eom) ==
    [i \in 1..HeaderBytes |->
        [kind |-> "hdr", m |-> Len(done) + 1, i |-> i, type |-> type, len |-> 0,
         eom |-> eom, size |-> size]]

\* Packet::encode appends header and payload to what is in the buffer, and
\* then writes the length at fixed places of the buffer.
Encode(buf, type, eom, payload) ==
    LET all == buf \o Header(type, eom) \o payload
        len == (Len(payload) + HeaderBytes) % LengthMod
    IN  [i \in 1..Len(all) |-> IF i <= HeaderBytes THEN [all[i] EXCEPT !.len = len] ELSE all[i]]

-----------------------------------------------------------------------------
(* Writing                                                                  *)

\* get_env_change rejects sizes a packet cannot have.
ValidSize(n) == n \in MinSize..MaxSize

SetPacketSize(n) ==
    /\ pc = "idle" /\ ValidSize(n) /\ Len(done) < MaxMsgs
    /\ size' = n
    /\ UNCHANGED <<pc, kind, todo, ending, rows, poisoned, wbuf, frames, msg, done, open, readerVars>>

\* A slip of ensure_not_poisoned: the flag is not read.
AlwaysUsable == TRUE

\* ensure_not_poisoned
Usable == ~poisoned

\* send: the message is encoded, and written packet by packet.
BeginSend(n) ==
    /\ pc = "idle" /\ Usable /\ Len(done) < MaxMsgs
    /\ kind' = "send" /\ todo' = Bytes(0, n) /\ msg' = Bytes(0, n)
    /\ poisoned' = TRUE
    /\ pc' = "loop"
    /\ UNCHANGED <<ending, rows, size, wbuf, frames, done, open, readerVars>>

\* send_sensitive_login: all frames are made, then written past Framed.  No
\* future is dropped between the two, so that it does not matter when the
\* connection is marked as poisoned.
BeginLogin(n) ==
    /\ pc = "idle" /\ Usable /\ Len(done) < MaxMsgs
    /\ kind' = "login" /\ todo' = Bytes(0, n) /\ msg' = Bytes(0, n)
    /\ poisoned' = TRUE
    /\ pc' = "frames"
    /\ UNCHANGED <<ending, rows, size, wbuf, frames, done, open, readerVars>>

\* cancel_request: a packet without payload.
BeginAttention ==
    /\ pc = "idle" /\ Usable /\ Len(done) < MaxMsgs
    /\ kind' = "attn" /\ todo' = <<>> /\ msg' = <<>>
    /\ poisoned' = TRUE
    /\ wbuf' = Encode(wbuf, "attn", TRUE, <<>>)
    /\ pc' = "last"
    /\ UNCHANGED <<ending, rows, size, frames, done, open, readerVars>>

\* BulkLoadRequest::new: the buffer starts with the columns (one byte here).
OpenBulk ==
    /\ pc = "idle" /\ Usable /\ Len(done) < MaxMsgs
    /\ kind' = "bulk" /\ todo' = Bytes(0, 1) /\ msg' = Bytes(0, 1)
    /\ ending' = FALSE
    /\ pc' = "bulk"
    /\ UNCHANGED <<rows, poisoned, size, wbuf, frames, done, open, readerVars>>

\* write_packets: more than a packet's worth is in the buffer.
MustWrite(buf) == Len(buf) > Room

\* A slip of BulkLoadRequest::send: what the row has left is not taken back.
KeepPartOfRow(buf, start) == buf

\* The buffer of a row that failed to encode is cut back to where it started.
Truncate(buf, start) == SubSeq(buf, 1, start)

\* The buffer with n more bytes of the message.
Extended(n) == todo \o Bytes(Len(msg), n)

\* BulkLoadRequest::send: a row is encoded; if it fails part-way it is undone.
BulkRow(n, ok) ==
    /\ pc = "bulk" /\ Usable /\ rows < MaxRows /\ Len(msg) + n < MaxPayload
    /\ rows' = rows + 1
    /\ todo' = IF ok THEN Extended(n) ELSE Truncate(Extended(n), Len(todo))
    /\ msg' = IF ok THEN msg \o Bytes(Len(msg), n) ELSE msg
    /\ poisoned' = MustWrite(todo')
    /\ pc' = IF MustWrite(todo') THEN "loop" ELSE "bulk"
    /\ UNCHANGED <<kind, ending, size, wbuf, frames, done, open, readerVars>>

\* finalize: DONE is added (one byte here), and everything is written.
Finalize ==
    /\ pc = "bulk" /\ Usable
    /\ todo' = Extended(1) /\ msg' = msg \o Bytes(Len(msg), 1)
    /\ ending' = TRUE
    /\ poisoned' = TRUE
    /\ pc' = "loop"
    /\ UNCHANGED <<kind, rows, size, wbuf, frames, done, open, readerVars>>

\* The packet that is made next takes n bytes, and ends the message or not.
NextPacket(n, eom) ==
    IF kind = "bulk"
    THEN IF MustWrite(todo) THEN n = Room /\ ~eom
         ELSE ending /\ n = Len(todo) /\ eom
    ELSE n = Min({Len(todo), Room}) /\ eom = (n = Len(todo))

\* write_to_wire: the packet is encoded into the buffer of Framed.
WritePacket(n, eom) ==
    /\ pc = "loop"
    /\ NextPacket(n, eom)
    /\ wbuf' = Encode(wbuf, kind, eom, Take(todo, n))
    /\ todo' = DropFirst(todo, n)
    /\ pc' = IF eom THEN "last" ELSE "flush"
    /\ UNCHANGED <<kind, ending, rows, poisoned, size, frames, msg, done, open, readerVars>>

\* frame_sensitive_login: one more frame.
FrameLogin(n, eom) ==
    /\ pc = "frames"
    /\ NextPacket(n, eom)
    /\ frames' = frames \o Encode(<<>>, kind, eom, Take(todo, n))
    /\ todo' = DropFirst(todo, n)
    /\ pc' = IF eom THEN "login" ELSE "frames"
    /\ UNCHANGED <<kind, ending, rows, poisoned, size, wbuf, msg, done, open, readerVars>>

\* Framed::send flushes; the socket takes n bytes, which arrive together.  When
\* the buffer is empty the next packet is made, or the call returns.
Flush(n) ==
    /\ pc \in {"flush", "last"} /\ open
    /\ n <= Len(wbuf)
    /\ src' = src \o Take(wbuf, n)
    /\ wbuf' = DropFirst(wbuf, n)
    /\ IF n < Len(wbuf) THEN UNCHANGED <<pc, poisoned, done>>
       ELSE IF pc = "last"
       THEN pc' = "idle" /\ poisoned' = FALSE /\ done' = Append(done, msg)
       ELSE IF kind = "bulk" /\ ~ending /\ ~MustWrite(todo)
       THEN pc' = "bulk" /\ poisoned' = FALSE /\ UNCHANGED done
       ELSE pc' = "loop" /\ UNCHANGED <<poisoned, done>>
    /\ UNCHANGED <<kind, todo, ending, rows, size, frames, msg, open, acc, reader, received>>

\* write_all of the frames of a login.
WriteLogin(n) ==
    /\ pc = "login" /\ open
    /\ n <= Len(frames)
    /\ src' = src \o Take(frames, n)
    /\ frames' = DropFirst(frames, n)
    /\ IF n < Len(frames) THEN UNCHANGED <<pc, poisoned, done>>
       ELSE pc' = "idle" /\ poisoned' = FALSE /\ done' = Append(done, msg)
    /\ UNCHANGED <<kind, todo, ending, rows, size, wbuf, msg, open, acc, reader, received>>

\* The future that writes is dropped; a bulk load stays in the hands of the
\* application.
Drop ==
    /\ pc \in {"flush", "last", "login"}
    /\ pc' = IF kind = "bulk" /\ ~ending THEN "bulk" ELSE "idle"
    /\ frames' = <<>>
    /\ UNCHANGED <<kind, todo, ending, rows, poisoned, size, wbuf, msg, done, open, readerVars>>

\* The application drops the BulkLoadRequest between two of its calls, and the
\* connection is free again: with nothing of the load written yet, with the
\* connection poisoned by a write that was dropped, or (MayAbandon) with packets
\* of it written, when nothing keeps the next message apart from them.
Abandon ==
    /\ pc = "bulk"
    /\ poisoned \/ Len(todo) = Len(msg) \/ MayAbandon
    /\ pc' = "idle"
    /\ UNCHANGED <<kind, todo, ending, rows, poisoned, size, wbuf, frames, msg, done, open, readerVars>>

\* The connection breaks.
Break ==
    /\ open
    /\ open' = FALSE
    /\ UNCHANGED <<writerVars, readerVars>>

\* A peer that does not keep to the protocol: a header of no known type, or
\* one that is longer than the packet.
Malformed(k, len) ==
    /\ open /\ pc = "idle" /\ ~poisoned
    /\ src' = src \o [i \in 1..HeaderBytes |->
                       [kind |-> k, m |-> 0, i |-> i, type |-> "none", len |-> len,
                        eom |-> TRUE, size |-> 0]]
    /\ open' = FALSE
    /\ UNCHANGED <<writerVars, acc, reader, received>>

-----------------------------------------------------------------------------
(* Reading                                                                  *)

\* A slip of decode: a packet that is just complete is waited for.
MoreThanAPacket == Len(src) >= HeaderBytes /\ Len(src) > src[1].len

\* decode finds a whole packet in the buffer.
HasPacket == Len(src) >= HeaderBytes /\ Len(src) >= src[1].len

GoodHeader ==
    /\ src[1].len >= HeaderBytes
    /\ src[1].kind = "hdr"

\* collect_from adds its payload, and decodes the message at its last packet.
DecodePacket ==
    /\ reader = "reading" /\ HasPacket /\ GoodHeader
    /\ LET payload == SubSeq(src, HeaderBytes + 1, src[1].len) IN
        IF src[1].eom
        THEN received' = Append(received, acc \o payload) /\ acc' = <<>>
        ELSE acc' = acc \o payload /\ UNCHANGED received
    /\ src' = DropFirst(src, src[1].len)
    /\ UNCHANGED <<writerVars, open, reader>>

\* A length that is too short is refused with the header in place, a wrong
\* type after its byte is read.
DecodeError ==
    /\ reader = "reading" /\ HasPacket /\ ~GoodHeader
    /\ src' = IF src[1].len < HeaderBytes THEN src ELSE Tail(src)
    /\ reader' = "error"
    /\ UNCHANGED <<writerVars, open, acc, received>>

\* decode_eof: bytes that are no packet are an error; otherwise collect_from
\* ends, and decodes the part of a message it may have.
DecodeEof ==
    /\ reader = "reading" /\ ~open /\ ~HasPacket
    /\ reader' = IF src = <<>> THEN "eof" ELSE "error"
    /\ UNCHANGED <<writerVars, open, src, acc, received>>

-----------------------------------------------------------------------------
Writer ==
    \/ \E n \in Sizes : SetPacketSize(n)
    \/ \E n \in SendSizes : BeginSend(n)
    \/ \E n \in LoginSizes : BeginLogin(n)
    \/ BeginAttention
    \/ OpenBulk
    \/ \E n \in RowSizes, ok \in BOOLEAN : BulkRow(n, ok)
    \/ Finalize
    \/ \E n \in 0..Len(todo), eom \in BOOLEAN : WritePacket(n, eom)
    \/ \E n \in 1..Len(wbuf) : Flush(n)
    \/ \E n \in 0..Len(todo), eom \in BOOLEAN : FrameLogin(n, eom)
    \/ \E n \in 1..Len(frames) : WriteLogin(n)
    \/ Drop
    \/ Abandon

Reader ==
    \/ DecodePacket
    \/ DecodeError
    \/ DecodeEof

Network ==
    \/ Break
    \/ Malformed("bad", HeaderBytes)
    \/ Malformed("hdr", HeaderBytes - 1)

Next == Writer \/ Reader \/ Network

Spec == Init /\ [][Next]_vars

\* Who waits for a message reads as long as something arrives.
FairSpec == Spec /\ WF_vars(Reader)

-----------------------------------------------------------------------------
(* Properties                                                               *)

\* Packet::encode finds an empty buffer whenever a packet may be made: it writes
\* the length at a fixed place, so what an interrupted write has left in the
\* buffer of Framed would be overwritten.  The poisoned flag is what ensures it.
BufferIsFresh == pc = "loop" \/ ~poisoned => wbuf = <<>>

\* No packet is longer than the size agreed on with the server when it was made,
\* none but the last of a message is shorter, and none but an Attention is empty
\* (write_packets, send, frame_sensitive_login, get_env_change).
PacketsFit ==
    \A b \in {c \in Range(wbuf \o frames \o src) : c.kind = "hdr" /\ c.i = 1 /\ c.m > 0} :
        /\ b.len <= b.size
        /\ ~b.eom => b.len = b.size
        /\ b.len = HeaderBytes => b.type = "attn"

Messages == {[i \in 1..n |-> Data(m, i)] : n \in 0..MaxPayload, m \in 1..MaxMsgs}

Channel == INSTANCE MessageChannel WITH sent <- done, received <- received, Payloads <- Messages

\* The packet layer is a channel of messages: what is put together from packets
\* is what was written, whatever the sizes, the pieces in which it arrives, the
\* rows that fail, and wherever a write is dropped or the connection breaks; but
\* every bulk load of which a packet was written is finalized (~MayAbandon).
IsMessageChannel == Channel!Spec

\* A message that was written to its end is received, unless the connection
\* breaks.
MessagesArrive ==
    \A k \in 1..MaxMsgs :
        Len(done) >= k ~> Len(received) >= k \/ ~open

==============================================================================
