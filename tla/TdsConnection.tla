---------------------------- MODULE TdsConnection ----------------------------
(***************************************************************************)
(* One tiberius `Connection` shared by the calls of one `Client`           *)
(* (src/src/client/connection.rs, src/src/client.rs,                       *)
(* src/src/tds/stream/token.rs, src/src/tds/codec/bulk_load.rs) talking to *)
(* a SQL Server.                                                           *)
(*                                                                         *)
(* Every await point of the code is a state: a call may be dropped there,  *)
(* and what it leaves behind in `flushed`, `poisoned`, `command_desync`    *)
(* and `buf` is what the next call starts from.  Payloads are abstracted   *)
(* to the tokens that steer the client.  A ROW is the one token that may   *)
(* span packets: "rowh" is its first part and "rowt" the rest.             *)
(***************************************************************************)
EXTENDS Integers, Sequences

CONSTANTS
    MaxReq,             \* bound: messages the client starts
    MaxPkts,            \* bound: packets one write of a message takes
    MaxWire,            \* packets the transport holds before a write awaits
    Responses,          \* Responses[o]: what the server may answer to op o
    Faults,             \* what may go wrong, or be left undone, in this run
    DiscardOnCancelErr  \* the application drops the client if a cancel does not return Ok

(***************************************************************************)
(* Client calls.  "query" is query and simple_query, "exec" is execute,    *)
(* column_metadata and the metadata query of a table-valued parameter,     *)
(* "command" is Command::exec, "tmbegin" and "tmend" are the transaction   *)
(* manager requests, "bulkcols" is the first half of bulk_insert.          *)
(***************************************************************************)
Calls == {"query", "exec", "command", "tmbegin", "tmend", "bulkcols"}

\* The messages a call sends, with the later ones of a bulk insert.
Ops == Calls \union {"bulkins", "bulkrow", "bulkload", "cancel"}

FaultKinds ==
    {"drop",     \* a future is dropped while it writes or between two tokens
     "split",    \* one is dropped inside a token or while flush_stream skips packets
     "unread",   \* a QueryStream is dropped before its end
     "timeout",  \* command_timeout fires
     "encode",   \* a request cannot be encoded
     "abandon",  \* a BulkLoadRequest is dropped without finalize
     "cancel",   \* cancel_query is called
     "close"}    \* the server closes the connection

\* "done" ends a statement, "fail" is ERROR with its DONE, "attn" is a DONE
\* with the DONE_ATTN bit, "begin" and "end" are transaction ENVCHANGEs.
Units == {"meta", "rowh", "rowt", "begin", "end", "done", "fail", "attn"}

Dones == {"done", "fail", "attn"}

ASSUME ParameterAssumption ==
    /\ MaxReq \in Nat
    /\ MaxPkts \in Nat \ {0}
    /\ MaxWire \in Nat \ {0}
    /\ Faults \subseteq FaultKinds
    /\ DiscardOnCancelErr \in BOOLEAN

(***************************************************************************)
(* A response is never empty, and an INSERT BULK statement is answered by  *)
(* a single DONE or a failure.                                             *)
(***************************************************************************)
ASSUME ResponseAssumption ==
    /\ Responses \in [Ops -> SUBSET Seq(Units)]
    /\ \A o \in Ops : \A r \in Responses[o] : r # << >>
    /\ \A r \in Responses["bulkins"] : Len(r) = 1

\* It is made of whole tokens, none of them a DONE_ATTN.
ASSUME TokenAssumption ==
    \A o \in Ops : \A r \in Responses[o] :
        /\ \A i \in 1..Len(r) : r[i] # "attn" /\ (r[i] = "rowt" <=> i > 1 /\ r[i - 1] = "rowh")
        /\ r[Len(r)] # "rowh"

\* The answer to a transaction manager request names the transaction before
\* its DONE.
ASSUME TransactionAssumption ==
    \A o \in {"tmbegin", "tmend"} : \A r \in Responses[o] :
        \A i, j \in 1..Len(r) : i < j /\ r[i] \in Dones => r[j] \notin {"begin", "end"}

VARIABLES
    \* Connection fields
    flushed, poisoned, desync, buf, bufReq, txDesc,
    \* the call in progress: where it awaits, its message, packets to write,
    \* and whether a token has been read in part
    pc, op, out, mid, nreq,
    \* the two directions of the transport
    c2s, s2c,
    \* the server: half-received message, response being sent, transaction
    srvOpen, srvIn, srvReq, srvOut, srvTx,
    \* history: the last token handed to a caller
    seen

connVars == <<flushed, poisoned, desync, buf, bufReq, txDesc>>
callVars == <<pc, op, out, mid, nreq>>
wireVars == <<c2s, s2c>>
srvVars  == <<srvOpen, srvIn, srvReq, srvOut, srvTx>>
vars     == <<connVars, callVars, wireVars, srvVars, seen>>

\* pc values: Awaiting are calls in progress, the others belong to the
\* application: no call, a QueryStream in hand, a BulkLoadRequest in hand.
Awaiting == {"flush", "send", "write", "read"}
Resting  == {"idle", "stream", "bulk", "closed"}
Reading  == {"read", "stream"}

ClientPacket == [req : Nat, op : Ops, eom : BOOLEAN]
ServerPacket == [req : Nat, units : Seq(Units), last : BOOLEAN]
NoToken      == [call |-> 0, from |-> 0, aligned |-> TRUE]

FieldTypes ==
    /\ flushed \in BOOLEAN /\ poisoned \in BOOLEAN /\ desync \in BOOLEAN
    /\ buf \in Seq(Units) /\ bufReq \in Nat /\ txDesc \in Nat

CallTypes ==
    /\ pc \in Awaiting \union Resting /\ op \in Ops
    /\ out \in 0..MaxPkts /\ mid \in BOOLEAN /\ nreq \in Nat

WireTypes == c2s \in Seq(ClientPacket) /\ s2c \in Seq(ServerPacket)

ServerTypes ==
    /\ srvOpen \in BOOLEAN /\ srvIn \in Nat /\ srvReq \in Nat
    /\ srvOut \in Seq(Units) /\ srvTx \in Nat

TypeOK ==
    /\ FieldTypes /\ CallTypes /\ WireTypes /\ ServerTypes
    /\ seen \in [call : Nat, from : Nat, aligned : BOOLEAN]

\* A connection after a successful login: nothing in flight either way.
Init ==
    /\ flushed = TRUE /\ poisoned = FALSE /\ desync = FALSE
    /\ buf = << >> /\ bufReq = 0 /\ txDesc = 0
    /\ pc = "idle" /\ op = "query" /\ out = 0 /\ mid = FALSE /\ nreq = 0
    /\ c2s = << >> /\ s2c = << >>
    /\ srvOpen = TRUE /\ srvIn = 0 /\ srvReq = 0 /\ srvOut = << >> /\ srvTx = 0
    /\ seen = NoToken

-----------------------------------------------------------------------------
(* Starting a call. *)

\* Slips of ensure_not_poisoned: one of its two checks is missing.
UsableIgnoringWrites   == ~desync
UsableIgnoringTimeouts == ~poisoned

\* ensure_not_poisoned returns Ok.
Usable == ~poisoned /\ ~desync

\* is_eof: the end-of-message packet was read and its payload consumed.
IsEof == flushed /\ buf = << >>

\* Messages a call still needs, so that MaxReq is checked once.
Needs(o) == IF o = "bulkcols" THEN 3 ELSE 1

\* Slips of flush_stream: nothing is drained, the rest of a packet is kept,
\* or a drained transport is waited on.
FlushNothing ==
    Usable /\ buf' = << >> /\ pc' = "send"
FlushKeepsBuf ==
    Usable /\ UNCHANGED buf /\ pc' = IF flushed THEN "send" ELSE "flush"
FlushAlways ==
    Usable /\ buf' = << >> /\ pc' = "flush"

\* The synchronous head of flush_stream.
FlushStream ==
    /\ Usable
    /\ buf' = << >>
    /\ pc' = IF flushed THEN "send" ELSE "flush"

Call(o) ==
    /\ pc = "idle"
    /\ nreq + Needs(o) <= MaxReq
    /\ FlushStream
    /\ op' = o
    /\ UNCHANGED <<flushed, poisoned, desync, bufReq, txDesc, out, mid, nreq,
                   wireVars, srvVars, seen>>

\* A call on a poisoned or timed-out connection returns an error at once.
Rejected ==
    /\ pc = "idle"
    /\ ~Usable
    /\ UNCHANGED vars

\* flush_stream discards whole packets without reading their tokens.
FlushPacket ==
    /\ pc = "flush"
    /\ s2c # << >>
    /\ s2c' = Tail(s2c)
    /\ flushed' = Head(s2c).last
    /\ pc' = IF Head(s2c).last THEN "send" ELSE "flush"
    /\ UNCHANGED <<poisoned, desync, buf, bufReq, txDesc, op, out, mid, nreq,
                   c2s, srvVars, seen>>

\* The transport ended: a clean end of stream counts as drained, an error
\* poisons the connection.
FlushEnds ==
    /\ pc = "flush"
    /\ s2c = << >>
    /\ ~srvOpen
    /\ \/ pc' = "send" /\ UNCHANGED poisoned
       \/ pc' = "idle" /\ poisoned' = TRUE
    /\ UNCHANGED <<flushed, desync, buf, bufReq, txDesc, op, out, mid, nreq,
                   wireVars, srvVars, seen>>

-----------------------------------------------------------------------------
(* Writing a message. *)

\* send clears `flushed` before it encodes, and returns if encoding fails.
EncodeFails ==
    /\ "encode" \in Faults
    /\ pc = "send"
    /\ op \notin {"bulkcols", "bulkins"}
    /\ flushed' = FALSE
    /\ pc' = "idle"
    /\ UNCHANGED <<poisoned, desync, buf, bufReq, txDesc, op, out, mid, nreq,
                   wireVars, srvVars, seen>>

\* bulk_column_list fails after the flush_stream of the INSERT BULK.
ColumnListFails ==
    /\ "encode" \in Faults
    /\ pc = "send"
    /\ op = "bulkins"
    /\ pc' = "idle"
    /\ UNCHANGED <<connVars, op, out, mid, nreq, wireVars, srvVars, seen>>

BeginSend ==
    /\ pc = "send"
    /\ flushed' = FALSE
    /\ poisoned' = TRUE
    /\ nreq' = nreq + 1
    /\ out' \in 1..MaxPkts
    /\ pc' = "write"
    /\ UNCHANGED <<desync, buf, bufReq, txDesc, op, mid, wireVars, srvVars, seen>>

\* What reaches a server that is still there.
Put(p) == IF srvOpen THEN Append(c2s, p) ELSE c2s

\* Slips of the write loop's condition, off by one either way.
PayloadLeftLate  == out >= 0
PayloadLeftEarly == out > 1

\* The write loop goes on while there is payload.
PayloadLeft == out > 0

\* Only the packet that empties the payload is marked EndOfMessage; the
\* packets of BulkLoadRequest::send never are.
WritePacket ==
    /\ pc = "write"
    /\ PayloadLeft
    /\ Len(c2s) < MaxWire
    /\ flushed' = FALSE
    /\ c2s' = Put([req |-> nreq, op |-> op, eom |-> out = 1 /\ op # "bulkrow"])
    /\ out' = out - 1
    /\ UNCHANGED <<poisoned, desync, buf, bufReq, txDesc, pc, op, mid, nreq,
                   s2c, srvVars, seen>>

\* Where a finished write takes the call: a new token stream starts reading,
\* the CommandStream is handed out at once, or the bulk load goes on.
AfterWrite ==
    CASE op = "bulkrow" -> "bulk"
      [] op = "command" -> "stream"
      [] OTHER          -> "read"

\* flush_sink done: the flag is cleared.
WriteDone ==
    /\ pc = "write"
    /\ ~PayloadLeft
    /\ poisoned' = FALSE
    /\ mid' = FALSE
    /\ pc' = AfterWrite
    /\ UNCHANGED <<flushed, desync, buf, bufReq, txDesc, op, out, nreq,
                   wireVars, srvVars, seen>>

\* An I/O error returns past the statement that clears the flag.
WriteFails ==
    /\ pc = "write"
    /\ ~srvOpen
    /\ pc' = IF op = "bulkrow" THEN "bulk" ELSE "idle"
    /\ UNCHANGED <<connVars, op, out, mid, nreq, wireVars, srvVars, seen>>

\* cancel_request neither discards `buf` nor drains the transport first.
CancelRequest ==
    /\ "cancel" \in Faults
    /\ pc = "idle"
    /\ Usable
    /\ nreq < MaxReq
    /\ op' = "cancel"
    /\ nreq' = nreq + 1
    /\ poisoned' = TRUE
    /\ flushed' = FALSE
    /\ out' = 1
    /\ pc' = "write"
    /\ UNCHANGED <<desync, buf, bufReq, txDesc, mid, wireVars, srvVars, seen>>

-----------------------------------------------------------------------------
(* Reading a response. *)

\* The token stream has to wait for a packet: it is inside a token, or
\* between tokens and not at the end of the message.
Waiting == pc \in Reading /\ buf = << >> /\ (mid \/ ~flushed)

\* poll_read takes the next packet from the transport.
PollRead ==
    /\ Waiting
    /\ s2c # << >>
    /\ buf' = Head(s2c).units
    /\ bufReq' = Head(s2c).req
    /\ flushed' = Head(s2c).last
    /\ s2c' = Tail(s2c)
    /\ UNCHANGED <<poisoned, desync, txDesc, callVars, c2s, srvVars, seen>>

\* Where a call that fails, or is dropped, leaves the application.
AfterError ==
    IF op = "cancel" /\ DiscardOnCancelErr THEN "closed" ELSE "idle"

\* poll_read reports UnexpectedEof or the transport's error.
ReadFails ==
    /\ Waiting
    /\ s2c = << >>
    /\ ~srvOpen
    /\ pc' = AfterError
    /\ UNCHANGED <<connVars, op, out, mid, nreq, wireVars, srvVars, seen>>

Consume == buf' = Tail(buf) /\ UNCHANGED <<bufReq, flushed, s2c>>

ReadTokenPart ==
    /\ pc \in Reading
    /\ ~mid
    /\ buf # << >>
    /\ Head(buf) = "rowh"
    /\ Consume
    /\ mid' = TRUE
    /\ UNCHANGED <<poisoned, desync, txDesc, pc, op, out, nreq, c2s, srvVars, seen>>

\* A slip of get_env_change: the end of a transaction is not handled.
DescriptorKept(u) == IF u = "begin" THEN bufReq ELSE txDesc

\* get_env_change: the descriptor is named by the request that began it.
Descriptor(u) ==
    CASE u = "begin" -> bufReq
      [] u = "end"   -> 0
      [] OTHER       -> txDesc

\* A slip of flush_done_attention: any DONE is taken for the acknowledgement.
AfterAnyDone(u) ==
    CASE op = "query" /\ u = "meta"                        -> "stream"
      [] op \in {"tmbegin", "tmend", "cancel"} /\ u \in Dones -> "idle"
      [] op = "bulkins" /\ u \in Dones                     -> "bulk"
      [] OTHER                                             -> pc

\* Where token u takes the call: forward_to_metadata hands out the stream,
\* flush_done and flush_done_attention return at their DONE.
AfterToken(u) ==
    CASE op = "query" /\ u = "meta"                  -> "stream"
      [] op \in {"tmbegin", "tmend"} /\ u \in Dones  -> "idle"
      [] op = "bulkins" /\ u \in Dones \ {"fail"}    -> "bulk"
      [] op = "bulkins" /\ u = "fail"                -> "idle"
      [] op = "cancel" /\ u = "attn"                 -> "idle"
      [] OTHER                                       -> pc

\* Is the unit at the front of the buffer the one the decoder expects?
Aligned == IF mid THEN Head(buf) = "rowt" ELSE Head(buf) # "rowt"

ReadToken ==
    /\ pc \in Reading
    /\ buf # << >>
    /\ Aligned
    /\ Head(buf) # "rowh"
    /\ Consume
    /\ mid' = FALSE
    /\ txDesc' = Descriptor(Head(buf))
    /\ pc' = AfterToken(Head(buf))
    \* BulkLoadRequest::new opens the next message
    /\ nreq' = IF pc' = "bulk" THEN nreq + 1 ELSE nreq
    /\ seen' = IF op = "cancel" THEN seen
               ELSE [call |-> nreq, from |-> bufReq, aligned |-> TRUE]
    /\ UNCHANGED <<poisoned, desync, op, out, c2s, srvVars>>

\* Bytes from inside a token are taken for tokens, and may spell anything: an
\* invalid one, any DONE or ENVCHANGE, a length that ends inside the token at
\* hand, takes in the ones behind it or asks for bytes still to come.
Misparse ==
    /\ pc \in Reading
    /\ buf # << >>
    /\ ~Aligned
    /\ \E n \in 0..Len(buf) : buf' = SubSeq(buf, n + 1, Len(buf))
    /\ mid' \in BOOLEAN
    /\ txDesc' \in 0..(MaxReq + 1)
    /\ pc' \in {AfterError} \union {AfterToken(u) : u \in Units}
    /\ nreq' = IF pc' = "bulk" THEN nreq + 1 ELSE nreq
    /\ seen' = [call |-> nreq, from |-> IF op = "cancel" THEN nreq ELSE bufReq,
                aligned |-> FALSE]
    /\ UNCHANGED <<poisoned, desync, flushed, bufReq, s2c, op, out, c2s, srvVars>>

\* try_unfold ends.  Unless it reported an error or had no metadata,
\* fetch_column_metadata is followed by the flush_stream and the INSERT BULK
\* of the same call; a cancel that has seen no DONE_ATTN, and a flush_done
\* that has seen no DONE, fail.
StreamEnds ==
    /\ pc \in Reading
    /\ ~mid
    /\ IsEof
    /\ \/ op = "bulkcols" /\ FlushStream /\ op' = "bulkins"
       \/ pc' = AfterError /\ UNCHANGED <<buf, op>>
    /\ UNCHANGED <<flushed, poisoned, desync, bufReq, txDesc, out, mid, nreq,
                   wireVars, srvVars, seen>>

\* A slip of RoundTripTimeout: the timer only runs between two tokens.
TimeoutBetweenTokens ==
    /\ "timeout" \in Faults
    /\ Waiting /\ ~mid
    /\ desync' = TRUE
    /\ pc' = IF pc = "stream" THEN pc ELSE AfterError
    /\ UNCHANGED <<flushed, poisoned, buf, bufReq, txDesc, op, out, mid, nreq,
                   wireVars, srvVars, seen>>

\* RoundTripTimeout fires while the server owes the next token.  A packet
\* may be on its way: s2c is not consulted.  A QueryStream stays in hand.
CommandTimeout ==
    /\ "timeout" \in Faults
    /\ Waiting
    /\ desync' = TRUE
    /\ pc' = IF pc = "stream" THEN pc ELSE AfterError
    /\ UNCHANGED <<flushed, poisoned, buf, bufReq, txDesc, op, out, mid, nreq,
                   wireVars, srvVars, seen>>

-----------------------------------------------------------------------------
(* What the application does between and during calls. *)

\* A future dropped at an await point, or a stream dropped inside a token.
\* A dropped write may have put part of its next packet on the wire.
Drop ==
    /\ \/ "drop" \in Faults /\ (pc = "write" \/ (pc = "read" /\ ~mid))
       \/ "split" \in Faults /\ (pc = "flush" \/ (pc \in Reading /\ mid))
    /\ pc' = IF pc = "write" /\ op = "bulkrow" THEN "bulk" ELSE AfterError
    /\ \/ UNCHANGED c2s
       \/ /\ pc = "write" /\ out > 0
          /\ c2s' = Put([req |-> nreq, op |-> op, eom |-> FALSE])
    /\ UNCHANGED <<connVars, op, out, mid, nreq, s2c, srvVars, seen>>

\* A QueryStream dropped between two tokens.
DropStream ==
    /\ "unread" \in Faults
    /\ pc = "stream"
    /\ ~mid
    /\ pc' = "idle"
    /\ UNCHANGED <<connVars, op, out, mid, nreq, wireVars, srvVars, seen>>

\* BulkLoadRequest::send once its buffer exceeds a packet; below that, and
\* for a row that does not encode, it leaves the connection alone.
\* BulkLoadRequest::finalize writes the rest and the end of the message.
BulkWrite(o) ==
    /\ pc = "bulk"
    /\ Usable
    /\ op' = o
    /\ poisoned' = TRUE
    /\ flushed' = FALSE
    /\ out' \in 1..MaxPkts
    /\ pc' = "write"
    /\ UNCHANGED <<desync, buf, bufReq, txDesc, mid, nreq, wireVars, srvVars,
                   seen>>

\* finalize consumes the request even when it is rejected.
BulkRejected ==
    /\ pc = "bulk"
    /\ ~Usable
    /\ pc' = "idle"
    /\ UNCHANGED <<connVars, op, out, mid, nreq, wireVars, srvVars, seen>>

BulkAbandoned ==
    /\ "abandon" \in Faults
    /\ pc = "bulk"
    /\ pc' = "idle"
    /\ UNCHANGED <<connVars, op, out, mid, nreq, wireVars, srvVars, seen>>

Close ==
    /\ pc = "idle"
    /\ pc' = "closed"
    /\ UNCHANGED <<connVars, op, out, mid, nreq, wireVars, srvVars, seen>>

Closed == pc = "closed" /\ UNCHANGED vars

-----------------------------------------------------------------------------
(* The server, as far as the client relies on it.                          *)

SrvReceive ==
    /\ srvOpen
    /\ c2s # << >>
    /\ Head(c2s).op # "cancel"
    /\ srvOut = << >>
    /\ c2s' = Tail(c2s)
    /\ IF Head(c2s).eom
       THEN /\ srvIn' = 0
            /\ srvReq' = Head(c2s).req
            /\ srvOut' \in Responses[Head(c2s).op]
       ELSE srvIn' = Head(c2s).req /\ UNCHANGED <<srvReq, srvOut>>
    /\ UNCHANGED <<connVars, callVars, s2c, srvOpen, srvTx, seen>>

\* An Attention cuts the response being sent short, after the token at hand,
\* with a DONE_ATTN; with no response under way the acknowledgement is a
\* message of its own.
SrvAttention ==
    /\ srvOpen
    /\ c2s # << >>
    /\ Head(c2s).op = "cancel"
    /\ c2s' = Tail(c2s)
    /\ srvIn' = 0
    /\ IF srvOut = << >>
       THEN srvReq' = Head(c2s).req /\ srvOut' = <<"attn">>
       ELSE /\ UNCHANGED srvReq
            /\ srvOut' = IF Head(srvOut) = "rowt" THEN <<"rowt", "attn">>
                                                  ELSE <<"attn">>
    /\ UNCHANGED <<connVars, callVars, s2c, srvOpen, srvTx, seen>>

\* The transaction of the session after tokens s of the answer to request
\* req: the last ENVCHANGE counts.
TxAfter(s, req, tx) ==
    LET changes == {i \in 1..Len(s) : s[i] \in {"begin", "end"}}
    IN IF changes = {} THEN tx
       ELSE IF \E i \in changes : s[i] = "begin" /\ \A j \in changes : j <= i THEN req
       ELSE 0

\* The response leaves in packets cut anywhere; its statements have run by
\* the time their tokens are sent.
SrvSend ==
    /\ srvOpen
    /\ \E n \in 1..Len(srvOut) :
         LET sent == SubSeq(srvOut, 1, n)
         IN  /\ s2c' = Append(s2c, [req |-> srvReq, units |-> sent,
                                    last |-> n = Len(srvOut)])
             /\ srvOut' = SubSeq(srvOut, n + 1, Len(srvOut))
             /\ srvTx' = TxAfter(sent, srvReq, srvTx)
    /\ UNCHANGED <<connVars, callVars, c2s, srvOpen, srvIn, srvReq, seen>>

SrvClose ==
    /\ "close" \in Faults
    /\ srvOpen
    /\ srvOpen' = FALSE
    /\ srvOut' = << >>
    /\ c2s' = << >>
    /\ UNCHANGED <<connVars, callVars, s2c, srvIn, srvReq, srvTx, seen>>

-----------------------------------------------------------------------------
\* The steps an executor takes on its own once a call is polled.
ClientStep ==
    \/ FlushPacket \/ FlushEnds
    \/ BeginSend \/ WritePacket \/ WriteDone \/ WriteFails
    \/ PollRead \/ ReadFails \/ ReadTokenPart \/ ReadToken \/ Misparse
    \/ StreamEnds

ServerStep == SrvReceive \/ SrvAttention \/ SrvSend

Next ==
    \/ \E o \in Calls : Call(o)
    \/ Rejected \/ CancelRequest \/ EncodeFails \/ ColumnListFails
    \/ ClientStep
    \/ CommandTimeout \/ Drop \/ DropStream
    \/ \E o \in {"bulkrow", "bulkload"} : BulkWrite(o)
    \/ BulkRejected \/ BulkAbandoned \/ Close \/ Closed
    \/ ServerStep \/ SrvClose

Spec == Init /\ [][Next]_vars

\* An awaited call is polled until it returns, and the server answers.
FairSpec ==
    /\ Spec
    /\ WF_vars(pc \in Awaiting /\ ClientStep)
    /\ WF_vars(ServerStep)

\* The same client with command_timeout set, and a server that may stall.
TimedSpec ==
    /\ Spec
    /\ WF_vars(pc \in Awaiting /\ ClientStep)
    /\ WF_vars(pc \in Awaiting /\ CommandTimeout)

-----------------------------------------------------------------------------
(* Properties. *)

\* Every token a call hands out answers that call's own message: no call
\* ever sees what is left of an earlier response (flush_stream, is_eof).
ResponseCorrelation == seen.call = seen.from

\* No byte from inside a token is ever taken for the start of one, whatever
\* was dropped part-way (flush_stream's resynchronisation on packets).
NoMisparse == seen.aligned

\* The server receives every message in one piece: nothing is put on the wire
\* after a half-sent message (the poisoned flag of send, cancel_request and
\* the bulk load).
MessagesContiguous ==
    /\ srvIn # 0 /\ c2s # << >> => Head(c2s).req = srvIn
    /\ \A i \in 1..(Len(c2s) - 1) :
         ~c2s[i].eom => c2s[i + 1].req = c2s[i].req

\* The server is left waiting for the rest of a message.
HalfSent ==
    /\ srvOpen
    /\ IF c2s = << >> THEN srvIn # 0 ELSE ~c2s[Len(c2s)].eom

\* Once no call is in progress, a half-sent message is known to the
\* connection: the next call fails cleanly (the `poisoned` field).
HalfSentFailsCleanly == pc = "idle" /\ HalfSent => ~Usable

\* After a command timeout no call waits in flush_stream for the rest of the
\* response or writes anything (command_desync, ensure_not_poisoned).
TimedOutNotReused == desync => pc \notin {"flush", "send", "write"}

\* The descriptor a request is about to carry is that of the transaction the
\* session is in (get_env_change, transaction_descriptor).
DescriptorFresh == pc = "send" /\ srvOpen => txDesc = srvTx

\* A cancel_query that returned Ok leaves nothing of the cancelled request or
\* of its acknowledgement unread (flush_done_attention).
CancelOkIsClean ==
    op = "cancel" /\ pc = "idle" /\ Usable /\ srvOpen =>
        IsEof /\ s2c = << >> /\ srvOut = << >> /\ c2s = << >>

\* The response being received is the last one asked for.
LastSent == s2c # << >> /\ s2c[Len(s2c)].last

\* Nothing is under way between the client and the server.
Quiet == c2s = << >> /\ s2c = << >> /\ srvOut = << >>

\* A message whose end has not been written.
Building ==
    pc = "bulk" \/ (pc = "write" /\ (out > 0 \/ op = "bulkrow"))

OwnResponse ==
    \A i \in 1..Len(s2c) : s2c[i].req = nreq /\ (s2c[i].last => i = Len(s2c))

OwnMessage ==
    \A i \in 1..Len(c2s) : c2s[i].req = nreq /\ (c2s[i].eom => i = Len(c2s))

OnePlace ==
    /\ srvOut # << >> => srvReq = nreq /\ c2s = << >> /\ ~LastSent
    /\ c2s # << >> => s2c = << >>

DrainedIsQuiet == flushed \/ pc = "send" => Quiet

NothingBeforeEnd ==
    Building => /\ s2c = << >> /\ srvOut = << >>
                /\ \A i \in 1..Len(c2s) : ~c2s[i].eom

\* Without cancels at most one message is under way, it is the last one
\* started, and it is in one place: being written, in c2s, with the server,
\* or in s2c.  This is why flush_stream may stop at the first end-of-message
\* packet and why `flushed` may stand for a drained transport.
OneInFlight ==
    OwnResponse /\ OwnMessage /\ OnePlace /\ DrainedIsQuiet /\ NothingBeforeEnd

\* Every call returns: none waits for ever while the server answers what it
\* was sent.
CallReturns == pc \in Awaiting ~> pc \in Resting

\* Every command result-read path is bounded by command_timeout, the draining
\* of an earlier response included (the comment in try_unfold).
FlushBounded == pc = "flush" ~> pc # "flush"

\* With command_timeout set no call reads its response for ever, even from a
\* server that stalls inside a token (RoundTripTimeout).
ReadBounded == pc = "read" ~> pc # "read"

==============================================================================
