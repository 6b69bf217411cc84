-------------------------------- MODULE Wire --------------------------------
(***************************************************************************)
(* What encoders write and decoders read: sql_read_bytes.rs, encode.rs.     *)
(*                                                                         *)
(* The wire is a sequence of units <<width, value>>: an integer of `width`  *)
(* bytes, or `width` bytes of a payload whose content is named by `value`.  *)
(* A reader that asks for another width than the next unit has, is out of   *)
(* step with the writer: it fails (`bad`), and nothing it reads later       *)
(* counts.  Bytes hold ByteBase values each (256 in the code), so that the  *)
(* limits of two-, three- and four-byte fields are within TLC's reach.      *)
(***************************************************************************)
EXTENDS Outcome, Integers, Sequences, SequencesExt

CONSTANT ByteBase
ASSUME ByteBaseAssumption == ByteBase \in Nat \ {0, 1}

\* What n bytes can hold.
Holds(n) == ByteBase ^ n

\* 0xffff: in a two-byte length "no limit" or NULL, in a column count "no
\* metadata".
U16Max == Holds(2) - 1
U8Max == ByteBase - 1

U(width, v) == <<<<width, v>>>>

\* A payload; nothing is written for an empty one.
Blob(width, content) == IF width = 0 THEN <<>> ELSE U(width, content)

Bytes(units) == FoldLeft(LAMBDA n, u : n + u[1], 0, units)

\* One encoder after the other, the first error ending both.
Then(a, b) == IF IsErr(a) THEN a ELSE IF IsErr(b) THEN b ELSE Ok(a.ok \o b.ok)

-----------------------------------------------------------------------------
(* Readers.  `v` is what was read last; `lossy` the Context's two switches  *)
(* for strings that are not well formed.                                    *)

Strict == [codepage |-> FALSE, utf16 |-> FALSE]

Reader(units) == [rest |-> units, v |-> 0, bad |-> FALSE, lossy |-> Strict]

Bad(r) == [r EXCEPT !.bad = TRUE, !.v = 0]

\* The content of a payload that was cut in two.
Torn == -77

\* bytes_reader!: an integer of the given width.
Take(r, width) ==
    IF r.bad \/ r.rest = <<>> THEN Bad(r)
    ELSE IF Head(r.rest)[1] # width THEN Bad(r)
    ELSE [r EXCEPT !.rest = Tail(@), !.v = Head(r.rest)[2]]

\* read_bytes_into: a payload.
TakeBlob(r, width) == IF width = 0 /\ ~r.bad THEN [r EXCEPT !.v = 0]
                                             ELSE Take(r, width)

\* read_exact over a body of `n` bytes, whatever is in them: the units that
\* lie in it, a unit across its end being torn.  `body` is a reader of its
\* own (the Cursor over the bytes), `after` the stream behind it.
Body(r, n) ==
    LET fits(k) == Bytes(SubSeq(r.rest, 1, k)) <= n
        k == CHOOSE i \in 0..Len(r.rest) :
                 fits(i) /\ (i = Len(r.rest) \/ ~fits(i + 1))
        inside == SubSeq(r.rest, 1, k)
        left == n - Bytes(inside)
        cut == left > 0
        behind == SubSeq(r.rest, k + 1, Len(r.rest))
    IN IF r.bad \/ (cut /\ behind = <<>>)
       THEN [body |-> Bad(r), after |-> Bad(r)]
       ELSE IF ~cut
       THEN [body |-> [r EXCEPT !.rest = inside], after |-> [r EXCEPT !.rest = behind]]
       ELSE [body |-> [r EXCEPT !.rest = Append(inside, <<left, Torn>>)],
             after |-> [r EXCEPT !.rest =
                 <<<<behind[1][1] - left, Torn>>>> \o Tail(behind)]]

\* Random access: a reader at a byte offset of a buffer.
At(units, offset) ==
    LET to == FoldLeft(LAMBDA s, u : IF s.n >= offset THEN s
                                     ELSE [n |-> s.n + u[1], k |-> s.k + 1],
                       [n |-> 0, k |-> 0], units)
    IN IF to.n # offset THEN Bad(Reader(<<>>))
       ELSE Reader(SubSeq(units, to.k + 1, Len(units)))

\* The same reader, or a failed one: `v` is what a record was decoded into.
Yield(r, v) == IF r.bad THEN r ELSE [r EXCEPT !.v = v]

\* `?`: a reader that failed ends what would follow.
On(r, K(_)) == IF r.bad THEN r ELSE K(r)

\* A body of `n` bytes is read whole, and K reads the copy: the stream goes on
\* behind the body, however much of it K has looked at.
Scoped(r, n, K(_)) ==
    LET b == Body(r, n)
        t == K(b.body)
    IN IF b.body.bad \/ t.bad THEN Bad(r) ELSE [b.after EXCEPT !.v = t.v]

\* read `n` times: the results in a sequence.
Repeat(Read(_), r, n) ==
    FoldLeft(LAMBDA s, i : On(s, LAMBDA q :
                               On(Read(q), LAMBDA t : Yield(t, Append(q.v, t.v)))),
             Yield(r, <<>>), [i \in 1..n |-> i])

\* read until nothing is left.
RepeatToEnd(Read(_), r) ==
    FoldLeft(LAMBDA s, u : IF s.bad \/ s.rest = <<>> THEN s
                           ELSE On(Read(s), LAMBDA t : Yield(t, Append(s.v, t.v))),
             Yield(r, <<>>), r.rest)

-----------------------------------------------------------------------------
(* Counted strings.  A string is <<units, script>>: how many UTF-16 code    *)
(* units it has and what they are.                                          *)

Utf16(s) == Blob(2 * s[1], s[2])

\* encode_b_varchar: a length byte, or an error when one is not enough.
encode_b_varchar(s) == IF s[1] > U8Max THEN Err("too long for B_VARCHAR")
                       ELSE Ok(U(1, s[1]) \o Utf16(s))

encode_us_varchar(s) == IF s[1] > U16Max THEN Err("too long for US_VARCHAR")
                        ELSE Ok(U(2, s[1]) \o Utf16(s))

\* varchar_reader!: a length, then as many code units.
TakeString(r, width) ==
    On(Take(r, width), LAMBDA n :
    On(TakeBlob(n, 2 * n.v), LAMBDA s : Yield(s, <<n.v, s.v>>)))

read_b_varchar(r) == TakeString(r, 1)
read_us_varchar(r) == TakeString(r, 2)

=============================================================================
