# A formal model of tiberius

tiberius is an asynchronous Rust driver for Microsoft SQL Server: it speaks the
TDS protocol over any `AsyncRead + AsyncWrite` transport. This directory holds
TLA+ models of its core, TLC configurations that check them on small instances,
and TLAPS proofs of the results that matter most. Paths below are relative to
the repository root; `src/src/...` is the crate's source.

## The system

| Component | State it keeps | Operations | What makes it correct |
|---|---|---|---|
| `Connection` (`client/connection.rs`) | `flushed`, `poisoned`, `command_desync`, `buf`, `context`, the framed transport | `send`, `write_to_wire`, `flush_sink`, `flush_stream`, `cancel_request`, `poll_next`, `poll_read`, `is_eof` | a response is read only by the call that asked for it; nothing is written after a half-sent message |
| `TokenStream`, `RoundTripTimeout` (`tds/stream/token.rs`) | the connection borrowed, `last_error`, the deadline | `try_unfold`, `flush_done`, `flush_done_attention`, `flush_sspi`, `get_*` | every token read belongs to the current response; a stalled server is noticed; the session state in ENVCHANGE tokens is applied |
| `Client`, `Command`, `Query` (`client.rs`, `command.rs`, `query.rs`) | the connection | `query`, `simple_query`, `execute`, `bulk_insert*`, `column_metadata`, transaction calls, `cancel_query`, `close`, `Command::exec` | each call drains what is left of the last one, sends one message, reads one response |
| `BulkLoadRequest` (`tds/codec/bulk_load.rs`) | row buffer, packet id | `send`, `finalize`, `write_packets` | the rows are one message with one end, a row that fails to encode leaves no trace |
| `QueryStream`, `CommandStream`, `ExecuteResult` (`tds/stream/query.rs`, `command.rs`, `result.rs`) | columns, result set index, collected counts | `poll_next`, `columns`, `into_results`, `into_command_result` | rows come with the metadata of their own result set; errors are reported |
| Packets (`tds/codec/packet.rs`, `header.rs`, `decode.rs`, `connection.rs: send, frame_sensitive_login`) | packet size, packet id | framing, splitting | the payload is cut into packets of the negotiated size and only the last is marked end-of-message |
| Handshake (`connection.rs: establish, prelogin, login, tls_handshake`, `tds/codec/pre_login.rs`, `login.rs`) | negotiated encryption | prelogin, TLS, login, SSPI, federated login, routing | encryption is what the configuration demands; errors win over routing; one deadline bounds it all |
| TLS prelogin wrapper (`client/tls.rs`) | write buffer, header read state, pending flag | `poll_read`, `poll_write`, `poll_flush` | TLS records are wrapped in prelogin packets until the handshake is complete, and nothing is lost at the switch |
| Configuration (`client/config*.rs`, `client/auth.rs`) | settings | setters of `Config` and `ConfigBuilder`, ADO.NET and JDBC connection strings | no order of settings weakens what is trusted; a value comes out of a string as it was written into it |
| TLS backends (`client/tls_stream*`) | none | roots, identity and server name for rustls, native-tls, OpenSSL | only the configured roots are accepted, and a CA that cannot be loaded is an error |
| SQL Browser (`sql_browser*.rs`) | the attempts under way, the first error | UDP look-up of a named instance with a timeout, addresses in turn or all at once | a late or malformed answer is an error, never a wrong port; the first success wins |
| Values (`tds/codec/column_data*`, `type_info.rs`, `tds/numeric.rs`, `tds/time*`, `tds/collation.rs`) | none | encode and decode of every SQL type | what is read is what the column can hold of what was written, from exactly its own bytes |
| Readers (`sql_read_bytes.rs`) | the future in progress | integers, counted strings, runs of bytes, across packets | no byte is lost or read twice when a packet ends inside a value |
| Tokens (`tds/codec/token/*`, `tds/stream/token.rs`) | `Context` | one decoder per token | the next token starts where the last one ended; the session state is the server's |
| Rows and conversions (`row.rs`, `to_sql.rs`, `from_sql.rs`, `macros.rs`) | none | access by index and name, Rust types | an application gets the value that is in the column, NULL included |
| Requests (`query.rs`, `command.rs`, `rpc_request.rs`, `batch_request.rs`, `transaction_manager.rs`, `login.rs`, `pre_login.rs`) | bound parameters | LOGIN7, PRELOGIN, RPC, batches, transactions | the server reads what the application asked for |
| SQL text (`client.rs`, `command.rs`) | none | names checked, split and quoted; INSERT BULK | text is one name or is refused |

The components interact by calls within one task: a `Client` owns its
`Connection`, and streams and bulk loads borrow it. There are no threads. What
makes it hard is that every `await` is a point where the caller may drop the
future, so each of them is an exit that runs no code: the connection's fields
are the only trace, and the next call starts from them. The server runs on its
own, so its packets, its Attention acknowledgements and its silence interleave
with all of this.

## Modules

| Module | Models | Composes / refines |
|---|---|---|
| `TdsConnection` | the request/response cycle of one connection | |
| `TdsConnectionProofs` | proofs about it | extends `TdsConnection` |
| `ResultStreams` | from tokens to rows, result sets, counts and errors | |
| `ResultStreamsProofs` | proofs about it | extends `ResultStreams` |
| `PacketFraming` | messages cut into packets, bulk loads, decoding of packets | refines `MessageChannel` |
| `PacketFramingProofs` | proofs about it, the refinement among them | extends `PacketFraming` |
| `MessageChannel` | what the packet layer promises: whole messages, in order | abstract |
| `TlsPreloginWrapper` | TLS records inside prelogin packets, and the switch to raw TLS | |
| `TlsPreloginWrapperProofs` | proofs about it | extends `TlsPreloginWrapper` |
| `Handshake` | prelogin, TLS, login, SSPI, outcome, deadline | |
| `HandshakeProofs` | proofs about it | extends `Handshake` |
| `Lookup`, `LookupProofs` | `connect_named` of both runtimes; proofs about it | |
| `ReadFutures`, `ReadFuturesProofs` | the futures of `sql_read_bytes.rs` over `Connection::poll_read`; proofs about them | |
| `Outcome`, `Wire` | `Option` and `Result`; units on the wire and a reader of them | |
| `Numerics`, `Times`, `Collations` | decimals and money, dates and times, code pages | on `Wire` |
| `Values`, `Variants`, `Rows` | types and values, `sql_variant`, metadata and rows, table-valued parameters | each on the one before |
| `Conversions` | Rust types to values and back, `Row` | on `Rows` |
| `Codec` | values, parameters, bulk loads and rows on their way | on `Conversions` |
| `Tokens`, `Responses` | the other tokens; a server that sends, a client that reads | on `Rows` |
| `Requests`, `Statements` | encoders of requests; from the application's call to what the server reads | on `Rows`, `SqlText` |
| `SqlText`, `ConnString`, `Texts` | names in SQL; the ADO.NET parser; an application that types one or the other | |
| `Config`, `TlsTrust`, `Opening` | settings; trust in the three TLS backends; `connect` from the one to the other, with PRELOGIN and LOGIN7 | on `Requests` |
| `OpeningProofs` | proofs about the trust of a connection | extends `Opening` |
| `MCLibrary` | one run for eight parts that share no state (below) | extends `Codec`, `Statements`, `Responses`, `ReadFutures`, `Lookup`, `Opening`, `Texts`, `MCTlsPreloginWrapper` |
| other `MC*` | constants for TLC | extend the module they are named after |

Operators introduced as slips ("A slip of ...") are variants of the definition
that follows them, each with a plausible mistake. Nothing uses them: they show
that the property they are paired with in `PROJECT.json` fails when the code is
wrong in that way.

### TdsConnection

Its variables are the fields of `Connection` (`flushed`, `poisoned`, `desync` for
`command_desync`, `buf`, `txDesc` for the context's transaction descriptor),
the call in progress (`pc` is the await point it is at, `op` its message, `out`
the packets still to write, `mid` whether a token has been read in part), the
two directions of the transport, and the server. `bufReq` and `seen` are
history: which message the bytes in `buf` answer, and the last token handed to
a caller.

* `Call` is the head of `flush_stream`; `FlushPacket` and `FlushEnds` are its
  loop. `EncodeFails`, `BeginSend`, `WritePacket`, `WriteDone`, `WriteFails`
  are `send`. `CancelRequest` is `cancel_request`.
* `PollRead` is `poll_next` and `poll_read`; `ReadTokenPart`, `ReadToken`,
  `Misparse`, `StreamEnds` are `try_unfold` with the loop that consumes it
  (`flush_done`, `forward_to_metadata`, `ExecuteResult::new`, ...).
  `CommandTimeout` is `RoundTripTimeout`.
* `Drop`, `DropStream`, `BulkAbandoned` are the application giving up.
  `BulkWrite` is `BulkLoadRequest::send` and `finalize`.
* `SrvReceive`, `SrvAttention`, `SrvSend`, `SrvClose` are the server, modelled
  from what the client relies on (external).

Payloads are abstracted to the tokens that steer the client. One token may span
packets (a row: `rowh`, then `rowt`), which is enough for a future to be
dropped inside a token. A response is cut into packets anywhere.

`Faults` names what the application and the server may do: drop a future while it
writes or between two tokens (`drop`), drop one inside a token or while
`flush_stream` skips packets (`split`), drop a stream (`unread`), cancel, and so
on. The two kinds of drop are told apart because `flush_stream` recovers from both
and `cancel_request` does not: it decodes from where the last reader stopped, and
the bytes inside a token may spell anything. `Misparse` is that: any DONE, with or
without the ATTN bit, any transaction descriptor, an error, or a length that takes
in any part of the buffer and waits for more.

### ResultStreams

The variables are those of `Context` that outlive a response (`lastMeta`,
`altMetas`), of `TokenStream` (`lastError`, whether the unfold is `live`), of
`Peekable` (`item`), of the stream (`columns`, `index`) and of a collecting call
(`acc`); the rest is history. `Unfold` is one poll of the token stream, with the
response chosen token by token; `ForwardToMetadata`, `Columns`, `PollNext` and
`FoldStep` are its consumers; `Ask`, `GiveUp` and `DropStream` the application.
Rows are told apart by their position and by the metadata they were decoded with.

### PacketFraming and MessageChannel

A writer cuts the payload of a request (`send`), of the login
(`frame_sensitive_login`) or of a bulk load (`write_packets`, `finalize`) into
packets, encodes them into the write buffer of `Framed` and flushes it piece by
piece; a reader decodes packets from arbitrary pieces. Rows may fail to encode,
futures may be dropped and the connection may break at any byte. `Abandon` drops
the `BulkLoadRequest` itself between two of its calls; once some of its packets are
out this is allowed by `MayAbandon` only, since `write_packets` has then cleared
`poisoned` and the next message is appended to the half-sent one
(`conn_bulk_abandon`). A byte carries, as history, the type of its message and the
packet size in force when its packet was cut. `MessageChannel` is a channel of
whole messages; `IsMessageChannel` is the refinement, without `MayAbandon`.

### TlsPreloginWrapper

`poll_read`, `poll_write` and `poll_flush` over a socket that takes and gives any
number of bytes or is pending, driven by a TLS library and a server (both
external) that exchange flights, and the switch at the end of the handshake. The
server may also send other packet types, lengths shorter than a header (`bad`) and
packets without payload (`empty`).

### Handshake

One action per stage of `establish`: `SendPrelogin`, `PreloginAnswer` with the
negotiation of encryption (`NegotiatedWithTls`, `NegotiatedEncryption` for builds
with and without a TLS backend), the TLS handshake, `SendLogin` with what
`post_login_encryption` does, the SSPI round, the tokens of the answer
(`flush_done`) and its outcome. The whole of `Configs` is enumerated: encryption
level, authentication, backend, named instance, timeouts. The server answers
anything, closes, or falls silent anywhere.

### Values, rows, tokens and requests

Encoders and decoders are pure operators, one per function of the source, and
return a `Result` or a reader that has moved on. The wire is a sequence of units
`<<width, value>>` (`Wire`): a reader that asks for another width than the writer
wrote is out of step and fails, so the width of every field, the order of fields
and each length in front of a body are part of what is checked, while the order
of bytes inside an integer is not. `On(r, K)` is the `?` operator: it goes on with
`K` unless the reader has failed. `Scoped` and `Body` are decoders that read a
counted body first and look at a copy of it. A string is `<<units, script>>`: its
length in UTF-16 units and what the code pages tell apart.

`Codec` sends one value, parameter, table or row and reads it back: the client's
decoder stands in for the server, which reads the format the client reads.
`Represents` says, without the encoder's arithmetic, what a column can hold of a
value, and `Beyond` what it cannot: only then may the encoder refuse.
`Responses` lets a server send any tokens (each `Send*` writes one as the protocol
lays it out, with padding and unknown kinds) and the client read them with
`ReadToken`; `seen` is compared with `sent`, and the client's `Context` with the
server's session. `Statements` builds queries, commands with inputs, outputs and
tables, transactions, batches and bulk loads call by call and lets the server read
the message. Statements run one at a time on a connection that answers; the rest
is `TdsConnection`'s subject.

### ReadFutures

A future for an integer, a counted string or a run of bytes is polled while the
response arrives in packets of any size. The string readers make a new inner
future at each poll, so what an inner future had read before a Pending is gone:
`NoByteLost` holds because `Connection::poll_read` never hands out part of a
request, and its mutant shows that it would not otherwise.

### Lookup

One action per step of `connect_named` (`Resolve`, `StartAll`, `StartNext`,
`GiveUp`) and of `connect_addr` (`Ask`, `Recv`, the two runtimes' timeouts,
`Connected`, `Refused`); `Browser` and `Lose` are the network. The UDP socket is not
connected and `recv` does not look at the sender, so an attempt may also receive a
reply nobody was asked for (`Stray`, from `Stranger`); no fairness counts on one. `named` is history: who
named the port of an attempt.

### Config, TlsTrust and Opening

Every setter of `Config` is an action, on the `Config` or through the builder,
with panics; `FromString` builds one from the keys of an ADO.NET or JDBC string.
`Opening` then dials: `TlsHandshake` meets a certificate with the roots and
checks that the build's TLS backend would use, `Prelogin` and `Login` encode what
the `Config` says, and `HelloArrives` follows the offset tables as a server does.

### SqlText, ConnString and Texts

The scanners of names and the parser of connection strings are automata folded
over a text that an application types character by character. `IsName` and
`Written` are the grammar they are compared with.

## Runs

| Run | Question | Result |
|---|---|---|
| `conn_core` | Is at most one message's answer under way, and is no token misread? Everything may happen but a cancel or an abandoned bulk load. | holds |
| `conn_cancel` | Does a cancel that returned Ok leave a clean connection, is no response read by another call, and does every call return if the server answers? (No future is dropped inside a token, and the application drops the client when a cancel fails.) | holds |
| `conn_writes` | Is no message written inside another, a half-sent message always noticed, and a timed-out connection never reused? Everything may happen but an abandoned bulk load: cancels after any drop, and use after a failed cancel, included. | holds |
| `conn_timeout` | Does every request carry the session's transaction descriptor if responses are read to their end, and does `command_timeout` bound every read, even inside a token? | holds |
| `conn_cancel_race` | Is the connection clean after any cancel? | fails: an Attention that crosses the end of the response leaves its acknowledgement for the next call |
| `conn_encode_hang` | Does every call return after a request that fails to encode? | fails: `flushed` is cleared first, the next call waits for ever |
| `conn_bulk_abandon` | Is an abandoned bulk load noticed? | fails: the flag is cleared between two `send`s |
| `results` | Do rows carry their own columns, is every server error reported, and is what is collected what was sent, in every order of `next`, `columns`, collecting and giving up? | holds |
| `packets` | Does the packet layer implement a channel of whole messages, if no bulk load is given up half-sent? Is every packet encoded into an empty buffer, and as long as the size agreed on then, or shorter if it is the last? | holds |
| `tls_short_write` | Does a successful `poll_flush` mean that everything was sent? | fails: the guard against bare headers also matches the last bytes of a packet cut short |
| `handshake` | Is the login as protected as the configuration demands, do both sides switch TLS at the same place, does an error win over a redirection, does `connect` end? | holds |
| `library` | Does each side read what the other wrote: values, rows, whole responses, statements, PRELOGIN and LOGIN7? Are configured trust settings the ones TLS uses, texts one name or refused, ports those of the instance asked for (or a stray reply's)? Does the TLS wrapper carry every byte of a handshake both ways, over a socket that takes a packet's last bytes together, and report an end of the stream that is real? Do the waits end? | holds |

Each failing run states what a comment or a doc of the repository claims;
`PROJECT.json` quotes it.

**Bounds.** `MaxReq = 4` messages are enough for a call to leave something
behind, a second to meet it, and a third to read what the second left; a bulk
insert takes three by itself. `MaxPkts = 2` packets per write distinguish the
packet that ends the message from those that do not, `MaxWire = 2` lets a write
wait for the server. Responses have up to four units, cut into packets in every
way. `results` has two calls, so that the second meets what the first left in
the `Context`, and four tokens per response: two result sets with a row each, or
one with an empty set, an error or COMPUTE metadata in between. `packets` and
the TLS part of `library` scale the numbers of the wire down (a header of 2 or 3 bytes for
8, packet sizes of 4 and 5 for 512 to 32767, a length field of 16 or 8 values for
65536) and keep their order, so that payloads around multiples of the packet
size, sizes out of range, lengths that do not fit, and each cut of a header, of a
payload and between packets occur. `handshake` has every
configuration and eight answers that tell the outcomes apart; its behaviours end.

`library` is one run for eight questions that share operators and no state: `part`
picks one of them at the start, so the state space is the sum of theirs (values
1,657 states, statements 3,231, responses 8,223, reads 8,210, look-up 19,525,
opening 32,534, texts 12,062, TLS wrapper 2,481). Its numbers are scaled so that every limit of the
code lies within reach: a byte holds 4 values, so a two-byte length ends at 15
(which then means MAX), three bytes at 63, an `i128` at 4^16; a second has 10^4
nanoseconds and a day 6 seconds. The values offered lie on both sides of each
limit: lengths at, below and above the column's and the parameter's, numbers that
are ties, negative or too wide, moments before and beyond a type's range, every
script of a string in every code page. The tables that name a code page for a
locale or a sort id are parameters (`LcidPages`, `SortIdPages`) with an entry for
each collation of the run. Two tokens of a response are enough for one
to be read with what another left; two setters for one to undo another; two
addresses for one to answer for the other; four characters for a doubled bracket
and what stands behind it. Behaviours of this run end, so deadlock is not checked.

`TypeOK` is checked for the connection, where it is also proved. The other modules
have none: their properties fail on an ill-typed state.

**Fairness.** `TdsConnection!FairSpec` assumes that a call that is awaited is
polled until it returns (the executor's contract) and that the server answers what
it was sent; it assumes nothing of a stream or a bulk load in the application's
hands. `TimedSpec` assumes no fairness of the server, and that the deadline of
`RoundTripTimeout` passes while a call waits. `PacketFraming` assumes that the
reader is polled while bytes are there. `TlsPreloginWrapper` assumes that the
library's calls are polled again after a wake-up, and, for `poll_write` only, that
it is not passed over for ever (the socket's readiness comes and goes).
`Handshake` assumes that `connect` is polled, that a server that has not fallen
silent or closed answers, and that a deadline that is set passes; nothing is
assumed of the TLS library's failing. `MCLibrary` assumes that a server which has
not hung up sends the rest of its response, that a task which can go on is polled,
and that the runtime's timer fires while a look-up waits for a reply; nothing is
assumed of the network, which may lose every datagram and deliver one that nobody
was asked for.

### Known limits

Faults beyond those of a passing run break its properties; each can be seen by
changing `Faults` in the cfg. They follow from how the code is documented to be
used, or are the subject of a failing run above.

* `NoMisparse`, `ResponseCorrelation`, `CancelOkIsClean` and `CallReturns` with
  `cancel` and `split`: `cancel_query` after a future dropped inside a token decodes
  the rest of the token as tokens (`connection.rs:461`). It may take it for its
  acknowledgement and return Ok, leave the real one to the next call, or wait for a
  length that never arrives. `conn_writes` has both faults, and shows what holds all
  the same.
* `IsMessageChannel` with `MayAbandon`: the message after a bulk load given up
  half-sent is merged with it.
* A prelogin packet without payload makes `poll_read` return Ok(0), which the TLS
  library takes for the end of the stream (`tls.rs:247`), with the server's end open.
  `NoSpuriousEof` admits that (`srvHollow`); the run shows that the handshake then
  ends and that no wrong byte is handed over.
* A flight that does not fit one prelogin packet panics in `PacketHeader::new`
  (`header.rs:66`). `FlushPanics` is a failed end of the handshake, which no property
  excludes.
* `LookupFaithful` says where a port may come from, and a stray or forged datagram to
  the attempt's own socket is one of the places: the code takes a reply of any sender.
* `DescriptorFresh` with `cancel`, without `DiscardOnCancelErr` and with a response
  to BEGIN TRANSACTION that goes on after its DONE: the acknowledgement of a failed
  cancel is taken for the DONE of the next one, whose ENVCHANGE is then discarded.
* `DescriptorFresh` with `unread`: `flush_stream` discards an ENVCHANGE it passes,
  so a stream dropped early may leave a stale transaction descriptor.
* `FlushBounded` with `unread` under `TimedSpec`: `flush_stream` reads outside
  `RoundTripTimeout`, so a server that stalls while an old response is drained
  is waited for without bound.

What the instances of `library` leave out, because the code is not symmetric there
or documents it otherwise:

* A value of a connection string that starts with `=` and is not quoted is taken
  into the key (`ado_parser.rs`).
* `Numeric::precision` (`tds/numeric.rs:74`) is 39 for a number of scale 38 without
  an integer part, which `TypeInfo::decode` (`type_info.rs:450`) refuses.
* A value of more than 65535 bytes is refused for a MAX column of a bulk load
  (`column_data.rs:452`, `504`, `643`).
* Time and DateTimeOffset are not moved to the scale of the column, as DateTime2 is
  (`column_data.rs:748`, `800`).
* `XmlData::encode` (`tds/xml.rs:92`) writes a terminator also behind an empty
  document, whose length has said it all.
* `chrono::DateTime<Utc>` read from a DateTimeOffset subtracts the offset from a
  time that is already UTC (`tds/time/chrono.rs:139`); the `FixedOffset` and
  `time` conversions do not. `to_utc_moment` models it; no row of the run reads
  one as the other.
* A datetime read as NaiveDateTime and written to a datetime column is truncated
  twice (`chrono.rs:64`, `column_data.rs:107`).
* A NULL smalldatetime of an NBCROW comes as `DateTime(None)`
  (`token_col_metadata.rs:232`), of a ROW as `SmallDateTime(None)`; a NULL
  parameter without a scalar type is sent as an int, a NULL `sql_variant` is read
  as a string. They are equal as an Option.
* Offsets and lengths of LOGIN7 are cut to 16 bits without a check
  (`login.rs:519`).
* The metadata of text and image columns is written with one table name (bulk
  load) and read with a count of parts (response), as the protocol has it.
* The base types of a `sql_variant` with a fixed width do not look at the length
  (`sql_variant.rs:123`).
* The UTF-8 flag of a collation is not looked at, and the collations that name
  UTF-16 are encoded as UTF-8 (`collation.rs`).
* The columns announced by INSERT BULK give the length of nchar and nvarchar in
  bytes (`token_col_metadata.rs:97`).
* A row of a table-valued parameter that is longer than the table's metadata is an
  index out of bounds (`type_info_tvp.rs:68`).
* `TypeInfoTvp::new` sends the name of a table type as written, cut at its first
  dot: brackets stay on, a dot inside them cuts, and a third part is not told from
  the second. `StatementsArrive` asks for the type's name only if it is of one or
  two parts without brackets. `TypeNamesArrive` says of every name what
  `command.rs:357` says ("multi-part names (`dbo.MyType`) and already-bracketed names
  (`[my type]`) keep working unchanged"); as an invariant of `library` it fails at
  `[a]`, and so do three-part names.
* `validate_sql_identifier` lets a bracket in the middle of a part through
  (`t[x]`), which T-SQL reads as a name and an alias; `NameOrNot` says so.

## Proofs

Everything here is proved for every value of the constants that satisfies the
`ASSUME`s of the module, whatever the bounds: any number of messages, packets,
tokens and bytes, every response table, every way to cut what is sent. A
hypothesis in front of a theorem excludes a use of the client, and is named.

| Theorem | States | If |
|---|---|---|
| `TypeCorrect` | `TypeOK` | |
| `OneMessageInFlight`, `NoCrossTalk` | `OneInFlight`, `ResponseCorrelation` | no cancels |
| `TokensInSync` | `NoMisparse` | no cancels, or no future dropped inside a token |
| `MessagesInOnePiece`, `HalfSentIsRefused` | `MessagesContiguous`, `HalfSentFailsCleanly` | bulk loads are finalized |
| `TimedOutIsRefused` | `TimedOutNotReused` | |
| `CancelIsClean`, `CancelsKeepApart` | `CancelOkIsClean`, `ResponseCorrelation` | no future is dropped inside a token, and the client is dropped when a cancel fails |
| `DescriptorIsFresh` | `DescriptorFresh` | responses are read to their end, and the client is dropped when a cancel fails |
| `LoginProtected` | `DemandedEncryption` | |
| `SidesChangeTogether`, `OutcomeIsAnswer`, `WaitsUnlessTold` | `SidesAgree`, `OutcomeFaithful`, `WaitsIfTold` | |
| `FindsOwnInstance` | `LookupFaithful` | |
| `EncodesIntoFresh`, `PacketSizes` | `BufferIsFresh`, `PacketsFit` | |
| `IsChannel` | `IsMessageChannel` | no bulk load is given up half-sent (`~MayAbandon`) |
| `ReadsTheStream`, `WritesTheStream`, `FlushIsComplete`, `EofIsReal` | `InboundFaithful`, `OutboundFaithful`, `FlushedMeansSent`, `NoSpuriousEof` | no short write leaves a header's length or less |
| `RowsDecodeRight`, `ErrorsAreTold`, `ColumnsAreRight`, `StreamsAreFaithful`, `CallsReturnTheirResponse` | `DecodedWithOwnMetadata`, `ErrorReported`, `ColumnsAnswer`, `ItemsFaithful`, `ResultFaithful` | |
| `NothingIsLost` | `NoByteLost` | |
| `TrustsNoMore` | `TrustRespected` | |

Each hypothesis is needed: `conn_cancel_race`, `conn_bulk_abandon`,
`tls_short_write` and the known limits above show what happens without it.

**`TdsConnectionProofs`.**
`ResponseCorrelation` is far from inductive: it speaks of the last token handed
out. The argument is that at most one message is under way and that it is in one
place (being written, in `c2s`, with the server, in `s2c`), so that the
first end-of-message packet `flush_stream` meets is the end of everything
(`OneInFlight`). To be inductive this needs what the token buffer holds in each
phase (`OwnBuffer`), that a closed server is silent (`ClosedIsQuiet`), that no
Attention is under way (`NoAttention`), and how INSERT BULK is answered
(`BulkInsertAnswer`): `BulkLoadRequest` starts its message without
`flush_stream`, which is only safe because the answer is a single token. This
last fact is an assumption on the server (`ResponseAssumption`).

`NoMisparse` follows from the same invariant and from where tokens are cut
(with it, `Synced`): packets under way and the rest of the response join up
(`WireTokens`, from `TokenAssumption`), and what comes next starts inside a token
exactly if the decoder is inside one (`InSync`).
That is for an application that drops futures as it likes and does not cancel. For
one that cancels and drops none inside a token, not even correlation is needed (`PlaceInv`): what
the server sends is one run of whole tokens, an acknowledgement included, since it
cuts a response short only at the end of a token, and the decoder leaves the run
only between two tokens (`InPlace`). This holds also after a cancel has failed.

`MessagesContiguous` and `HalfSentFailsCleanly` need no correlation, so they hold
with cancels too. `Whole` says that a message the server has part of is being
written or the connection is known to be unusable (`HalfIsKnown`), that it is the
last one begun (`HalfIsOwn`), and what `ensure_not_poisoned` has established for
as long as a call relies on it (`FlagsInCall`).

`CancelOkIsClean`: the Attention is the last packet to the server and its
acknowledgement the last token of the last packet from it (`AttnLast`), there is
one only while a cancel is in progress or after one has failed (`AttnIsOwn`), and
`flush_done_attention` therefore ends with nothing behind it. It reads what the
server sent because without `split` it never starts inside a token (`InPlace`):
`Misparse` is not enabled, and what it would decode does not matter.

`CancelsKeepApart` joins this with `Correlated`, which fails while a cancel is in
progress: an Attention and the response it cuts short may both be under way.
But a cancel hands no token to a caller, and once it has returned Ok the connection
is as drained as a new one (`CancelDone`), so `CorrelatedBetween` asks for
`Correlated` only as long as the last call is not a cancel.

`DescriptorFresh` relates two sides that change at different times. `TxInv` says
that the session's transaction is what the client will have once it has read its
buffer and the packets under way (`Leads`), and that between two calls nothing is
owed that changes a transaction (`Settled`), so that what `flush_stream` discards
changes none. The transaction calls return at the first DONE, so this needs
`TransactionAssumption`: the server names
the transaction before the DONE of the request that began or ended it (`TmAnswer`). Timeouts,
encode errors, abandoned bulk loads and a closing server are included, and so are
cancels: one starts between two calls, when nothing is owed that changes a
transaction, so nothing it reads or cuts short does (`CancelChangesNone`), and
`TxBetween` asks for `TxInv` between cancels. A client that is used on after its
cancel failed may take the late acknowledgement for the DONE of a BEGIN TRANSACTION
and miss the descriptor; `conn_timeout` does without the hypothesis because no
response of its small server goes on after the DONE of a transaction request.

**`HandshakeProofs`.** `DemandedEncryption` speaks of the moment the login is
sent, and what makes it true happens stages
earlier, so the inductive invariant `EncryptionInv` also says that a strict
connection is in TLS from the start, that a build without a TLS backend never
reaches the login when encryption is demanded, that TLS is not turned off before
the login, and that a login in the agreed encryption is sent over TLS.
With `EncryptionLevel::Off` and no TLS backend the login goes out in the clear;
the code accepts this and so does the property. `Agreement` proves the next two
theorems: one message is under way and in one place (`OneAtATime`), both sides have
switched or the message that makes the server switch is under way (`Changeover`),
and `flush_done` has kept the first error and the redirection of what it has read
(`Answering`). `DoneEndsAnswer` assumes that a DONE ends the answer to a login.
`WaitsIfTold` needs that the command timeout is set in the context only when the
login is over (`ArmedLast`).

**`LookupProofs`.** The property speaks of the
end of the look-up; `LookupInv` adds what leads there: a browser's reply goes to the
socket of the attempt that asked (`OwnReplies`; a stranger's may come to any), an attempt at its TCP connection
knows its port (`PortKnown`), attempts are dropped only by the one that succeeds
(`OneWinner`), the first error is kept (`ErrorKept`), and of addresses tried in
turn none but the first has been tried before one has failed (`FirstOfAll`).

**`PacketFramingProofs`.** The refinement of `MessageChannel` is proved step by
step: `Init` maps to its `Init`, `ChannelInv` is inductive, and under it every
step is a step of the channel or a stutter. `ChannelInv` describes the bytes under
way (`Pipe`: what the reader has not decoded, then what the writer has still to
flush) without recursion: of each byte that begins a packet it says that the packet
follows, as far as it is there, and where the next one begins (`Shaped`), what the
reader expects at the front, and where the writer will go on at the end (`Ready`).
`SizeInv` adds what lengths a header may have, given the size in force when its packet
was cut. It needs no `~MayAbandon`, and neither does `BufferIsFresh`, so the two
theorems cover the abandoned bulk loads that the run `packets` leaves out. `FramingAssumption` orders the
sizes: a header is shorter than the smallest packet, and the largest fits the
length field.

**`TlsPreloginWrapperProofs`.** The same view of two streams, of packets and then
of plain TLS bytes: `Expects` says what the reader meets at the front, `Goes` what
follows a packet. `WrapperInv` adds what the write buffer holds between two writes
(`Buffered`) and that the server answers only what it has received (`Answers`), so
that `poll_read` meets plain bytes only when it no longer looks for headers. `EofInv`
is apart: it holds until a packet without payload has been sent (`srvHollow`), since it
needs that no header under way announces an empty one. The theorems are about
`WrapperSpec`; the run `library` takes the same steps as one of its parts.
`FlightAssumption`: every flight has bytes of the client, and all but the last have
bytes of the server.

**`ResultStreamsProofs`.** The invariants relate the state to the tokens read so
far: `ContextInv` (the metadata kept is the last one of the response), `FirstErrorInv`
and `ToldInv` (an error is on its way to the application or has been told),
`ColumnsInv` (the consumer's columns are those of the tokens taken, unless
`columns()` has looked ahead) and `ItemsInv` (every position owed has been handed
out, in its place, with the number of its result set). Their lemmas are about the
extremes and the numbers of positions in a growing sequence; that a set of
positions has a least and a greatest one comes from `WFMin` on the naturals.
`ResultInv` is about the calls that collect: what is collected is at every step what
the items handed out since the call, or the tokens taken, amount to (`Gathered`,
`Folded`), the count of result sets among them. The step from one item to the next
rests on lemmas about filtering a sequence by its positions (`CountedAppend`,
`RestAppend` and their like), which need no recursion.
`TokensAssumption` says that metadata, errors and statuses are told apart.

**`ReadFuturesProofs`.** A byte is its position in the response. `ReaderInv` says
that a future which is not being polled has read whole units only (`Between`), and
that the token buffer, the packets and what the server has still to send are the
positions that follow, in order (`BytesInv`). `LayoutAssumption` gives each field
its place in the response. The theorem is about `ReadSpec`; the run `library`
takes the same steps as one of its parts.

**`OpeningProofs`.** `TrustRespected` joins settings made in any order with a
handshake that comes much later. With the shape of the trust settings
(`TrustShape`) it is inductive: each setter keeps trust in every certificate and
extra roots apart, a connection string sets what its keys say, and of each backend
it is shown which roots, which name and which verification it hands to its library,
from what `trust_anchors` makes of each CA source. `DictAssumption` says that a key
of a connection string has a value. The theorem is about `OpeningSpec`; the run
`library` takes the same steps as one of its parts.

Only model-checked:

* liveness (`CallReturns`, `ReadBounded`, `MessagesArrive`, `HandshakeEnds`,
  `ConnectEnds`, `WaitsEnd`):
  fairness and ENABLED are out of the prover's reach;
* what encoders and decoders compute (`WrittenFaithfully`, `ReadFaithfully`,
  `StatementsArrive`, `ResponsesUnderstood`, `HelloArrives`, `TextsKeepMeaning`):
  encoders and decoders are folds over sequences of any length, and what a fold
  computes is an induction over data;
* `DescriptorFresh` with a client that is used on after a failed cancel
  (`conn_timeout`).

## Assumptions on the server

It reads one message at a time, answers each with one message that is not empty,
and acknowledges an Attention inside the response it cuts short or, if there is
none, in a message of its own. It names the transaction before the DONE of the request
that begins or ends it, and a DONE ends its answer to a login. The last packet of a response is never empty:
`poll_read` would wait past the end of the message for the next token. In
`Handshake` its SSPI challenge is a message of its own.

## Plan

Done: the modules and the theorems above. Left, in this order:

1. Proofs: what `Numerics` and `SqlText` promise of single operators, as lemmas.
2. The redirection loop an application runs on `Error::Routing`, composed of
   `Lookup` and `Handshake`.
3. An unknown packet type in `PacketFraming`'s reader.

## Not modelled

The order of bytes in an integer, the bits of floating-point numbers and the tables
of the code pages (data, covered by unit tests); the TLS libraries, the JDBC
tokenizer, chrono and time (other crates); the build without `tds73`, whose
conversions to the older date types are a second copy of those modelled; the
`ntext(max)` that a parameter of more than a gigabyte declares; zeroization of
passwords; `poll_close` and the pass-through methods of stream wrappers;
`Query::placeholders`, error texts, logging and re-exports. `PROJECT.json` names
the files of each part.
