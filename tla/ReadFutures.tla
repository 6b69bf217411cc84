----------------------------- MODULE ReadFutures -----------------------------
(***************************************************************************)
(* sql_read_bytes.rs over Connection::poll_read: the futures that read one  *)
(* integer, one counted string or one run of bytes of a response which      *)
(* arrives in packets of any size.                                          *)
(*                                                                         *)
(* The readers of strings make a new inner future for every length and code *)
(* unit, also after a Pending: what that future had read is gone.  They are *)
(* right because the reader below them never delivers part of a request.    *)
(* A byte is its position in the response.                                  *)
(***************************************************************************)
EXTENDS Integers, Sequences

CONSTANTS
    Layouts,    \* responses to consider: sequences of fields
    MaxPacket,  \* the largest packet payload (bound)
    PreallocCap \* the window in which read_bytes_into grows (MAX_PREALLOC)

VARIABLES
    layout,     \* the fields of the response
    fields,     \* those the decoder still has to read
    net,        \* bytes not yet received
    hung,       \* the server closed the connection early
    packets,    \* packets received, not yet taken from the socket
    rbuf,       \* Connection::buf
    fut,        \* the future being polled
    values,     \* what was read, field by field
    ended       \* "no", "done", or "eof" when the stream ended too early

readVars == <<layout, fields, net, hung, packets, rbuf, fut, values, ended>>

\* A field: an integer of `width` bytes; a string whose length has `width`
\* bytes and which has `count` code units; `count` bytes.  `at` is the number
\* of bytes before it.
Field == [kind : {"int", "string", "bytes"}, width : Nat, count : Nat, at : Nat]

Size(f) == CASE f.kind = "int" -> f.width
             [] f.kind = "string" -> f.width + 2 * f.count
             [] f.kind = "bytes" -> f.count
End(f) == f.at + Size(f)

\* Fields follow each other; an integer and a length have at least one byte.
ASSUME LayoutAssumption ==
    /\ MaxPacket \in Nat /\ PreallocCap \in Nat \ {0}
    /\ \A fs \in Layouts :
          /\ fs \in Seq(Field) /\ fs # <<>> /\ fs[1].at = 0
          /\ \A i \in 1..Len(fs) : fs[i].kind \in {"int", "string"} => fs[i].width > 0
          /\ \A i \in 1..(Len(fs) - 1) : fs[i + 1].at = End(fs[i])

\* A new future: nothing read; `length` is not known (0 code units wanted)
\* until the length has been read.
NewFuture == [counted |-> FALSE, part |-> <<>>, data |-> <<>>]

ReadIdle == /\ layout = <<>> /\ fields = <<>> /\ net = <<>> /\ hung = FALSE
            /\ packets = <<>> /\ rbuf = <<>>
            /\ fut = NewFuture /\ values = <<>> /\ ended = "done"

ReadInit ==
    \E fs \in Layouts :
        /\ layout = fs /\ fields = fs /\ hung = FALSE
        /\ net = [i \in 1..End(fs[Len(fs)]) |-> i]
        /\ packets = <<>> /\ rbuf = <<>> /\ fut = NewFuture /\ values = <<>>
        /\ ended = "no"

-----------------------------------------------------------------------------
(* The socket                                                               *)

Arrive ==
    /\ net # <<>>
    /\ \E n \in 1..MaxPacket :
          /\ n <= Len(net)
          /\ packets' = Append(packets, SubSeq(net, 1, n))
          /\ net' = SubSeq(net, n + 1, Len(net))
    /\ UNCHANGED <<layout, fields, hung, rbuf, fut, values, ended>>

\* The server closes the connection in the middle of the response.
Hangup ==
    /\ ended = "no" /\ net # <<>>
    /\ net' = <<>> /\ hung' = TRUE
    /\ UNCHANGED <<layout, fields, packets, rbuf, fut, values, ended>>

-----------------------------------------------------------------------------
(* Connection::poll_read                                                    *)

\* A slip: what there is is delivered, as AsyncRead would allow.
DeliversShort(size) == IF Len(rbuf) < size THEN Len(rbuf) ELSE size

\* How much of a request poll_read delivers: all of it, or nothing yet.
Delivers(size) == IF Len(rbuf) < size THEN 0 ELSE size
Enough(size) == size = 0 \/ Delivers(size) > 0

-----------------------------------------------------------------------------
(* The futures                                                              *)

\* How many bytes the next poll_read asks for: the rest of an integer, of a
\* length, of a code unit, or of a window of at most PreallocCap bytes.
Want(f) ==
    CASE f.kind = "int" -> f.width - Len(fut.part)
      [] f.kind = "string" -> (IF fut.counted THEN 2 ELSE f.width) - Len(fut.part)
      [] f.kind = "bytes" ->
           LET begun == (Len(fut.data) \div PreallocCap) * PreallocCap
               end == IF begun + PreallocCap < f.count THEN begun + PreallocCap ELSE f.count
           IN end - Len(fut.data)

\* The future after a poll_read that delivered `got`.
Advance(f, got) ==
    LET part == fut.part \o got
        whole == IF fut.counted THEN 2 ELSE f.width
    IN CASE f.kind = "bytes" -> [fut EXCEPT !.data = @ \o got]
         [] f.kind = "int" -> [fut EXCEPT !.part = part]
         [] f.kind = "string" ->
              IF Len(part) < whole THEN [fut EXCEPT !.part = part]
              ELSE IF ~fut.counted THEN [counted |-> TRUE, part |-> <<>>, data |-> fut.data]
              ELSE [counted |-> TRUE, part |-> <<>>, data |-> fut.data \o part]

\* The value of a future that is ready.
Ready(f, t) ==
    CASE f.kind = "int" -> Len(t.part) = f.width
      [] f.kind = "string" -> t.counted /\ Len(t.data) = 2 * f.count
      [] f.kind = "bytes" -> Len(t.data) = f.count
Value(f, t) == IF f.kind = "int" THEN t.part ELSE t.data

\* Pending: bytes_reader! keeps what it has read, the inner future of
\* varchar_reader! does not outlive the poll.
AfterPending(f) == IF f.kind = "string" THEN [fut EXCEPT !.part = <<>>] ELSE fut

\* The loop of poll_read: packets are taken while there is not enough.
TakePacket ==
    /\ ended = "no" /\ fields # <<>>
    /\ ~Enough(Want(Head(fields))) /\ packets # <<>>
    /\ rbuf' = rbuf \o Head(packets) /\ packets' = Tail(packets)
    /\ UNCHANGED <<layout, fields, net, hung, fut, values, ended>>

\* poll_read delivers; the future goes on, or is ready with its value.
Deliver ==
    /\ ended = "no" /\ fields # <<>>
    /\ LET f == Head(fields)
           n == Delivers(Want(f))
           t == Advance(f, SubSeq(rbuf, 1, n))
       IN /\ Enough(Want(f))
          /\ rbuf' = SubSeq(rbuf, n + 1, Len(rbuf))
          /\ \/ /\ ~Ready(f, t)
                /\ fut' = t
                /\ UNCHANGED <<fields, values, ended>>
             \/ /\ Ready(f, t)
                /\ values' = Append(values, Value(f, t))
                /\ fields' = Tail(fields) /\ fut' = NewFuture
                /\ ended' = IF Tail(fields) = <<>> THEN "done" ELSE "no"
    /\ UNCHANGED <<layout, net, hung, packets>>

\* No packet is left: the poll returns Pending, or the stream has ended.
Starve ==
    /\ ended = "no" /\ fields # <<>>
    /\ ~Enough(Want(Head(fields))) /\ packets = <<>>
    /\ \/ ~hung /\ fut' = AfterPending(Head(fields)) /\ UNCHANGED ended
       \/ hung /\ ended' = "eof" /\ UNCHANGED fut
    /\ UNCHANGED <<layout, fields, net, hung, packets, rbuf, values>>

Poll == TakePacket \/ Deliver \/ Starve

ReadNext == Arrive \/ Hangup \/ Poll

ReadSpec == ReadInit /\ [][ReadNext]_readVars

-----------------------------------------------------------------------------
(* Properties                                                               *)

\* The bytes of field f, without the length of a string.
FieldBytes(f) ==
    LET skip == IF f.kind = "string" THEN f.width ELSE 0
    IN [j \in 1..(Size(f) - skip) |-> f.at + skip + j]

\* Every field is read from its own bytes, however the response was cut into
\* packets and wherever the task was suspended: no byte is lost between two
\* polls of a reader.
NoByteLost == \A i \in 1..Len(values) : values[i] = FieldBytes(layout[i])

\* A response that arrives is read to its end: no reader waits for bytes that
\* are not part of its field, and a server that hangs up is noticed.
ReadEnds == (ended = "no") ~> (ended # "no")

=============================================================================
