-------------------------- MODULE ReadFuturesProofs --------------------------
(***************************************************************************)
(* No byte is lost between two polls of a reader: for every response, cut   *)
(* into packets in any way, and every window of read_bytes_into.  The bytes *)
(* in Connection::buf, in the packets not yet taken and on the way are the  *)
(* positions of the response that follow those the future has read.         *)
(***************************************************************************)
EXTENDS ReadFutures, TLAPS

(* The inductive invariant *)

\* The bytes s are those that follow the first p of the response.
Follow(s, p) == \A j \in 1..Len(s) : s[j] = p + j

Future == [counted : BOOLEAN, part : Seq(Int), data : Seq(Int)]

\* Between two reads a future holds no part of an integer, a length or a code
\* unit, and its data are the first bytes of its field, without a length.
Skipped(f, t) == IF f.kind = "string" /\ t.counted THEN f.width ELSE 0
Between(f, t) ==
    /\ t.part = <<>> /\ Follow(t.data, f.at + Skipped(f, t))
    /\ t.counted => f.kind = "string"
    /\ (f.kind = "int" \/ (f.kind = "string" /\ ~t.counted)) => t.data = <<>>
    /\ (f.kind = "string" /\ t.counted) =>
          \E u \in Nat : u < f.count /\ Len(t.data) = 2 * u
    /\ f.kind = "bytes" => Len(t.data) <= f.count

\* The bytes of the response consumed so far.
Reached(f, t) == f.at + Skipped(f, t) + Len(t.data)
Consumed == IF fields = <<>> THEN End(layout[Len(layout)]) ELSE Reached(Head(fields), fut)

\* Packets ps that follow the first p bytes of the response, and the bytes
\* rest that follow those: no packet is empty.
Upto(ps, p, i) == IF i = 0 THEN p ELSE ps[i][1] - 1 + Len(ps[i])
Chain(ps, p, rest) ==
    /\ \A i \in 1..Len(ps) : Len(ps[i]) > 0 /\ Follow(ps[i], Upto(ps, p, i - 1))
    /\ Follow(rest, Upto(ps, p, Len(ps)))

ReadTypes ==
    /\ layout \in Layouts
    /\ fields \in Seq(Field)
    /\ net \in Seq(Int) /\ rbuf \in Seq(Int) /\ packets \in Seq(Seq(Int))
    /\ fut \in Future
    /\ values \in Seq(Seq(Int))

\* The decoder is at the field that follows those it has read.
FieldsInv ==
    /\ Len(values) + Len(fields) = Len(layout)
    /\ \A i \in 1..Len(fields) : fields[i] = layout[Len(values) + i]

BytesInv ==
    /\ fields # <<>> => Between(Head(fields), fut)
    /\ fields = <<>> => fut = NewFuture
    /\ Follow(rbuf, Consumed)
    /\ Chain(packets, Consumed + Len(rbuf), net)

ReaderInv == ReadTypes /\ FieldsInv /\ BytesInv /\ NoByteLost

-----------------------------------------------------------------------------
(* Runs of bytes *)

\* Joining two runs that follow each other.
LEMMA FollowJoin ==
    ASSUME NEW s \in Seq(Int), NEW t \in Seq(Int), NEW p \in Int,
           Follow(s, p), Follow(t, p + Len(s))
    PROVE  s \o t \in Seq(Int) /\ Len(s \o t) = Len(s) + Len(t) /\ Follow(s \o t, p)
  <1>1. /\ s \o t \in Seq(Int) /\ Len(s \o t) = Len(s) + Len(t)
        /\ Len(s) \in Nat /\ Len(t) \in Nat
    OBVIOUS
  <1>2. \A j \in 1..Len(s) : (s \o t)[j] = s[j]
    OBVIOUS
  <1>3. \A j \in 1..Len(t) : (s \o t)[Len(s) + j] = t[j]
    OBVIOUS
  <1> DEFINE u == s \o t
  <1> HIDE DEF u
  <1>4. \A j \in 1..Len(u) : u[j] = p + j
    <2>1. TAKE j \in 1..Len(u)
    <2>2. CASE j \in 1..Len(s)
      BY <2>2, <1>2 DEF Follow, u
    <2>3. CASE j \notin 1..Len(s)
      <3>1. PICK i \in Nat : i = j - Len(s)
        BY <2>3, <1>1 DEF u
      <3>2. i \in 1..Len(t) /\ j = Len(s) + i
        BY <2>3, <3>1, <1>1 DEF u
      <3>3. u[j] = t[i] /\ t[i] = p + Len(s) + i
        BY <3>2, <1>3 DEF Follow, u
      <3> QED
        BY <3>2, <3>3, <1>1
    <2> QED
      BY <2>2, <2>3
  <1> QED
    BY <1>1, <1>4 DEF Follow, u

\* The two parts of a run.
LEMMA FollowSplit ==
    ASSUME NEW s \in Seq(Int), NEW p \in Int, NEW n \in 0..Len(s), Follow(s, p)
    PROVE  /\ SubSeq(s, 1, n) \in Seq(Int) /\ Len(SubSeq(s, 1, n)) = n
           /\ Follow(SubSeq(s, 1, n), p)
           /\ SubSeq(s, n + 1, Len(s)) \in Seq(Int)
           /\ Len(SubSeq(s, n + 1, Len(s))) = Len(s) - n
           /\ Follow(SubSeq(s, n + 1, Len(s)), p + n)
  <1>1. n \in Nat /\ Len(s) \in Nat /\ n <= Len(s)
    OBVIOUS
  <1>2. SubSeq(s, 1, n) \in Seq(Int) /\ Len(SubSeq(s, 1, n)) = n
    BY <1>1
  <1>3. \A j \in 1..n : SubSeq(s, 1, n)[j] = s[j]
    BY <1>1
  <1>4. SubSeq(s, n + 1, Len(s)) \in Seq(Int) /\ Len(SubSeq(s, n + 1, Len(s))) = Len(s) - n
    BY <1>1
  <1>5. \A j \in 1..(Len(s) - n) : SubSeq(s, n + 1, Len(s))[j] = s[n + j]
    BY <1>1
  <1>6. Follow(SubSeq(s, 1, n), p)
    <2>1. \A j \in 1..n : j \in 1..Len(s)
      BY <1>1
    <2> QED
      BY <1>2, <1>3, <2>1 DEF Follow
  <1>7. Follow(SubSeq(s, n + 1, Len(s)), p + n)
    <2> DEFINE rest == SubSeq(s, n + 1, Len(s))
    <2>1. ASSUME NEW j \in 1..Len(rest)
          PROVE  rest[j] = p + n + j
      <3>1. j \in 1..(Len(s) - n) /\ n + j \in 1..Len(s)
        BY <1>1, <1>4
      <3>2. rest[j] = s[n + j] /\ s[n + j] = p + (n + j)
        BY <3>1, <1>5 DEF Follow
      <3> QED
        BY <3>1, <3>2, <1>1
    <2> QED
      BY <2>1 DEF Follow
  <1> QED
    BY <1>2, <1>4, <1>6, <1>7

\* A run is determined by where it begins and by its length.
LEMMA FollowIs ==
    ASSUME NEW s \in Seq(Int), NEW p \in Int, NEW n \in Nat, Len(s) = n, Follow(s, p)
    PROVE  s = [j \in 1..n |-> p + j]
  <1>1. s = [j \in 1..Len(s) |-> s[j]]
    OBVIOUS
  <1> QED
    BY <1>1 DEF Follow

\* There is nothing wrong with no bytes.
LEMMA FollowNothing ==
    ASSUME NEW p
    PROVE  <<>> \in Seq(Int) /\ Len(<<>>) = 0 /\ Follow(<<>>, p)
  BY DEF Follow

-----------------------------------------------------------------------------
(* The future *)

\* A future that was given the bytes it asked for: ready with the bytes of its
\* field, or between two reads again.
Advanced(f, got, t) ==
    /\ t \in Future
    /\ Ready(f, t) => /\ Value(f, t) \in Seq(Int) /\ Value(f, t) = FieldBytes(f)
                      /\ Reached(f, fut) + Len(got) = End(f)
    /\ ~Ready(f, t) => Between(f, t) /\ Reached(f, t) = Reached(f, fut) + Len(got)

\* What is known of a field.
LEMMA FieldFacts ==
    ASSUME NEW f \in Field
    PROVE  /\ f.kind \in {"int", "string", "bytes"}
           /\ f.width \in Nat /\ f.count \in Nat /\ f.at \in Nat
           /\ f.kind = "int" => Size(f) = f.width
           /\ f.kind = "string" => Size(f) = f.width + 2 * f.count
           /\ f.kind = "bytes" => Size(f) = f.count
           /\ Size(f) \in Nat /\ End(f) \in Nat
  <1>1. /\ f.kind \in {"int", "string", "bytes"}
        /\ f.width \in Nat /\ f.count \in Nat /\ f.at \in Nat
    BY DEF Field
  <1>2. /\ f.kind = "int" => Size(f) = f.width
        /\ f.kind = "string" => Size(f) = f.width + 2 * f.count
        /\ f.kind = "bytes" => Size(f) = f.count
    BY DEF Size
  <1>3. Size(f) \in Nat
    BY <1>1, <1>2
  <1> QED
    BY <1>1, <1>2, <1>3 DEF End

\* What is known of a future.
LEMMA FutureFacts ==
    ASSUME NEW t \in Future
    PROVE  /\ t.counted \in BOOLEAN /\ t.part \in Seq(Int) /\ t.data \in Seq(Int)
           /\ Len(t.data) \in Nat
           /\ t = [counted |-> t.counted, part |-> t.part, data |-> t.data]
  BY DEF Future

\* An integer is read in one piece.
LEMMA AdvanceInt ==
    ASSUME fut \in Future, NEW f \in Field, f.kind = "int", Between(f, fut),
           NEW got \in Seq(Int), Len(got) = Want(f), Follow(got, Reached(f, fut))
    PROVE  Advanced(f, got, Advance(f, got))
  <1>1. fut.part = <<>> /\ fut.data = <<>> /\ ~fut.counted
    BY DEF Between
  <1>2. Reached(f, fut) = f.at
    BY <1>1, FieldFacts DEF Reached, Skipped
  <1>3. Len(got) = f.width
    BY <1>1, FieldFacts DEF Want
  <1> DEFINE t == [fut EXCEPT !.part = got]
  <1>4. Advance(f, got) = t
    BY <1>1 DEF Advance
  <1>5. t \in Future /\ t.part = got
    BY DEF Future
  <1> HIDE DEF t
  <1>6. Ready(f, t) /\ Value(f, t) = got
    BY <1>3, <1>5 DEF Ready, Value
  <1>7. got = FieldBytes(f)
    <2>1. got = [j \in 1..f.width |-> f.at + j]
      BY <1>2, <1>3, FieldFacts, FollowIs
    <2>2. \A j \in 1..f.width : f.at + 0 + j = f.at + j
      BY FieldFacts
    <2>3. Size(f) - 0 = f.width
      BY FieldFacts
    <2> QED
      BY <2>1, <2>2, <2>3 DEF FieldBytes
  <1>8. Reached(f, fut) + Len(got) = End(f)
    BY <1>2, <1>3, FieldFacts DEF End
  <1> QED
    BY <1>4, <1>5, <1>6, <1>7, <1>8 DEF Advanced

\* The length of a string is read in one piece, and not kept as data.
LEMMA AdvanceLength ==
    ASSUME fut \in Future, NEW f \in Field, f.kind = "string", ~fut.counted,
           Between(f, fut), NEW got \in Seq(Int), Len(got) = Want(f)
    PROVE  Advanced(f, got, Advance(f, got))
  <1>1. fut.part = <<>> /\ fut.data = <<>>
    BY DEF Between
  <1>2. Reached(f, fut) = f.at
    BY <1>1, FieldFacts DEF Reached, Skipped
  <1>3. Len(got) = f.width
    BY <1>1, FieldFacts DEF Want
  <1> DEFINE t == [counted |-> TRUE, part |-> <<>>, data |-> fut.data]
  <1>4. Advance(f, got) = t
    <2>1. <<>> \o got = got
      OBVIOUS
    <2> QED
      BY <1>1, <1>3, <2>1, FieldFacts DEF Advance
  <1>5. t \in Future /\ t.part = <<>> /\ t.data = <<>> /\ t.counted = TRUE
    BY <1>1 DEF Future
  <1> HIDE DEF t
  <1>6. Reached(f, t) = f.at + f.width
    BY <1>5, FieldFacts DEF Reached, Skipped
  <1>7. ASSUME Ready(f, t)
        PROVE  /\ Value(f, t) \in Seq(Int) /\ Value(f, t) = FieldBytes(f)
               /\ Reached(f, fut) + Len(got) = End(f)
    <2>1. 2 * f.count = 0
      BY <1>5, <1>7 DEF Ready
    <2>2. Size(f) = f.width
      BY <2>1, FieldFacts
    <2>3. Value(f, t) = <<>>
      BY <1>5 DEF Value
    <2>4. FieldBytes(f) = <<>>
      <3>1. Size(f) - f.width = 0
        BY <2>2, FieldFacts
      <3>2. \A P : [j \in 1..0 |-> P[j]] = <<>>
        OBVIOUS
      <3> QED
        BY <3>1, <3>2 DEF FieldBytes
    <2> QED
      BY <1>2, <1>3, <2>2, <2>3, <2>4, FieldFacts DEF End
  <1>8. ASSUME ~Ready(f, t)
        PROVE  Between(f, t) /\ Reached(f, t) = Reached(f, fut) + Len(got)
    <2>1. Len(t.data) = 0 /\ 2 * f.count # 0
      BY <1>5, <1>8 DEF Ready
    <2>2. 0 \in Nat /\ 0 < f.count /\ Len(t.data) = 2 * 0
      BY <2>1, FieldFacts
    <2>3. Between(f, t)
      BY <1>5, <2>2, FollowNothing DEF Between
    <2> QED
      BY <1>2, <1>3, <1>6, <2>3
  <1> QED
    BY <1>4, <1>5, <1>7, <1>8 DEF Advanced

\* A code unit is read in one piece.
LEMMA AdvanceUnit ==
    ASSUME fut \in Future, NEW f \in Field, f.kind = "string", fut.counted,
           Between(f, fut), NEW got \in Seq(Int), Len(got) = Want(f),
           Follow(got, Reached(f, fut))
    PROVE  Advanced(f, got, Advance(f, got))
  <1>1. fut.part = <<>> /\ Follow(fut.data, f.at + f.width)
    BY DEF Between, Skipped
  <1>2. PICK u \in Nat : u < f.count /\ Len(fut.data) = 2 * u
    BY DEF Between
  <1>3. Reached(f, fut) = f.at + f.width + Len(fut.data)
    BY DEF Reached, Skipped
  <1>4. Len(got) = 2
    BY <1>1 DEF Want
  <1>5. fut.data \in Seq(Int) /\ fut.counted = TRUE
    BY FutureFacts
  <1> DEFINE all == fut.data \o got
             t == [counted |-> TRUE, part |-> <<>>, data |-> all]
  <1>6. Advance(f, got) = t
    <2>1. <<>> \o got = got
      OBVIOUS
    <2>2. fut.part \o got = got
      BY <1>1, <2>1
    <2>3. ~(Len(got) < 2)
      BY <1>4
    <2> QED
      BY <1>5, <2>2, <2>3 DEF Advance
  <1>7. /\ all \in Seq(Int) /\ Len(all) = Len(fut.data) + 2
        /\ Follow(all, f.at + f.width)
    <2>1. f.at + f.width \in Int
      BY FieldFacts
    <2> QED
      BY <1>1, <1>3, <1>4, <1>5, <2>1, FollowJoin
  <1> HIDE DEF all
  <1>8. t \in Future /\ t.part = <<>> /\ t.data = all /\ t.counted = TRUE
    BY <1>5, <1>7 DEF Future
  <1> HIDE DEF t
  <1>9. u + 1 \in Nat /\ Len(all) = 2 * (u + 1)
    BY <1>2, <1>7
  <1>10. ASSUME Ready(f, t)
         PROVE  /\ Value(f, t) \in Seq(Int) /\ Value(f, t) = FieldBytes(f)
                /\ Reached(f, fut) + Len(got) = End(f)
    <2>1. Len(all) = 2 * f.count
      BY <1>8, <1>10 DEF Ready
    <2>2. Value(f, t) = all
      BY <1>8 DEF Value
    <2>3. Size(f) - f.width = 2 * f.count /\ 2 * f.count \in Nat
      BY FieldFacts
    <2>4. all = [j \in 1..(2 * f.count) |-> f.at + f.width + j]
      <3>1. f.at + f.width \in Int
        BY FieldFacts
      <3> QED
        BY <1>7, <2>1, <2>3, <3>1, FollowIs
    <2>5. all = FieldBytes(f)
      BY <2>3, <2>4 DEF FieldBytes
    <2>6. Reached(f, fut) + Len(got) = End(f)
      <3> DEFINE n == Len(fut.data)
                 m == 2 * f.count
      <3>1. n \in Nat /\ f.at \in Nat /\ f.width \in Nat /\ m \in Nat
        BY FieldFacts, FutureFacts
      <3>2. n + 2 = m
        BY <1>7, <2>1
      <3>3. End(f) = f.at + (f.width + m)
        BY FieldFacts DEF End
      <3>4. Reached(f, fut) + Len(got) = f.at + f.width + n + 2
        BY <1>3, <1>4
      <3> HIDE DEF n, m
      <3>5. \A a, w, k \in Nat : a + w + k + 2 = a + (w + (k + 2))
        OBVIOUS
      <3>6. f.at + f.width + n + 2 = f.at + (f.width + m)
        BY ONLY <3>1, <3>2, <3>5
      <3> QED
        BY ONLY <3>3, <3>4, <3>6
    <2> QED
      BY <1>7, <2>2, <2>5, <2>6
  <1>11. ASSUME ~Ready(f, t)
         PROVE  Between(f, t) /\ Reached(f, t) = Reached(f, fut) + Len(got)
    <2>1. Len(all) # 2 * f.count
      BY <1>8, <1>11 DEF Ready
    <2>2. u + 1 < f.count
      BY <1>2, <1>9, <2>1, FieldFacts
    <2>3. Between(f, t)
      BY <1>7, <1>8, <1>9, <2>2 DEF Between, Skipped
    <2>4. Reached(f, t) = f.at + f.width + Len(all)
      BY <1>8 DEF Reached, Skipped
    <2> QED
      BY <1>2, <1>3, <1>4, <1>7, <2>3, <2>4, FieldFacts
  <1> QED
    BY <1>6, <1>8, <1>10, <1>11 DEF Advanced

\* The request of read_bytes_into stays within its field.
LEMMA WindowFits ==
    ASSUME fut \in Future, NEW f \in Field, f.kind = "bytes", Between(f, fut)
    PROVE  Want(f) \in Nat /\ Len(fut.data) + Want(f) <= f.count
  <1> DEFINE n == Len(fut.data)
             begun == (n \div PreallocCap) * PreallocCap
             end == IF begun + PreallocCap < f.count THEN begun + PreallocCap ELSE f.count
  <1>1. n \in Nat /\ f.count \in Nat /\ n <= f.count
    BY FutureFacts, FieldFacts DEF Between
  <1>2. PreallocCap \in Nat /\ PreallocCap > 0
    BY LayoutAssumption
  <1>3. Want(f) = end - n
    BY DEF Want
  <1> HIDE DEF n
  <1>4. begun \in Nat /\ begun <= n /\ begun + PreallocCap > n
    BY <1>1, <1>2
  <1> HIDE DEF begun
  <1>5. end \in Nat /\ end <= f.count /\ n <= end
    BY <1>1, <1>2, <1>4
  <1> HIDE DEF end
  <1>6. Want(f) \in Nat /\ n + Want(f) <= f.count
    BY <1>1, <1>3, <1>5
  <1> QED
    BY <1>6 DEF n

\* A run of bytes grows by what it asked for.
LEMMA AdvanceBytes ==
    ASSUME fut \in Future, NEW f \in Field, f.kind = "bytes", Between(f, fut),
           NEW got \in Seq(Int), Len(got) = Want(f), Follow(got, Reached(f, fut))
    PROVE  Advanced(f, got, Advance(f, got))
  <1>1. fut.part = <<>> /\ ~fut.counted /\ Follow(fut.data, f.at + 0)
    BY DEF Between, Skipped
  <1>2. Reached(f, fut) = f.at + Len(fut.data)
    BY FieldFacts, FutureFacts DEF Reached, Skipped
  <1>3. Len(got) \in Nat /\ Len(fut.data) + Len(got) <= f.count
    BY WindowFits
  <1>4. fut.data \in Seq(Int) /\ f.at + 0 = f.at
    BY FutureFacts, FieldFacts
  <1> DEFINE all == fut.data \o got
             t == [fut EXCEPT !.data = all]
  <1>5. Advance(f, got) = t
    BY DEF Advance
  <1>6. /\ all \in Seq(Int) /\ Len(all) = Len(fut.data) + Len(got)
        /\ Follow(all, f.at)
    <2>1. f.at \in Int /\ Follow(fut.data, f.at)
      BY FieldFacts, <1>1, <1>4
    <2> QED
      BY <1>2, <1>4, <2>1, FollowJoin
  <1> HIDE DEF all
  <1>7. t \in Future /\ t.part = <<>> /\ t.data = all /\ ~t.counted
    BY <1>1, <1>6 DEF Future
  <1> HIDE DEF t
  <1>8. ASSUME Ready(f, t)
        PROVE  /\ Value(f, t) \in Seq(Int) /\ Value(f, t) = FieldBytes(f)
               /\ Reached(f, fut) + Len(got) = End(f)
    <2>1. Len(all) = f.count
      BY <1>7, <1>8 DEF Ready
    <2>2. Value(f, t) = all
      BY <1>7 DEF Value
    <2>3. all = [j \in 1..f.count |-> f.at + j]
      <3>1. f.at \in Int /\ f.count \in Nat
        BY FieldFacts
      <3> QED
        BY <1>6, <2>1, <3>1, FollowIs
    <2>4. Size(f) - 0 = f.count /\ \A j \in 1..f.count : f.at + 0 + j = f.at + j
      BY FieldFacts
    <2>5. all = FieldBytes(f)
      BY <2>3, <2>4 DEF FieldBytes
    <2>6. Reached(f, fut) + Len(got) = End(f)
      BY <1>2, <1>6, <2>1, <1>3, <1>4, FieldFacts DEF End
    <2> QED
      BY <1>6, <2>2, <2>5, <2>6
  <1>9. ASSUME ~Ready(f, t)
        PROVE  Between(f, t) /\ Reached(f, t) = Reached(f, fut) + Len(got)
    <2>1. Skipped(f, t) = 0
      BY <1>7 DEF Skipped
    <2>2. Between(f, t)
      BY <1>3, <1>4, <1>6, <1>7, <2>1 DEF Between
    <2>3. Reached(f, t) = f.at + 0 + Len(all)
      BY <1>7, <2>1 DEF Reached
    <2> QED
      BY <1>2, <1>3, <1>4, <1>6, <2>2, <2>3, FieldFacts, FutureFacts
  <1> QED
    BY <1>5, <1>7, <1>8, <1>9 DEF Advanced

\* A future that gets what it asked for, whatever it reads.
LEMMA AdvanceField ==
    ASSUME fut \in Future, NEW f \in Field, Between(f, fut),
           NEW got \in Seq(Int), Len(got) = Want(f), Follow(got, Reached(f, fut))
    PROVE  Advanced(f, got, Advance(f, got))
  <1>1. f.kind \in {"int", "string", "bytes"} /\ fut.counted \in BOOLEAN
    BY FieldFacts, FutureFacts
  <1>2. CASE f.kind = "int"
    BY <1>2, AdvanceInt
  <1>3. CASE f.kind = "string" /\ fut.counted
    BY <1>3, AdvanceUnit
  <1>4. CASE f.kind = "string" /\ ~fut.counted
    BY <1>4, AdvanceLength
  <1>5. CASE f.kind = "bytes"
    BY <1>5, AdvanceBytes
  <1> QED
    BY <1>1, <1>2, <1>3, <1>4, <1>5

\* A future asks for a number of bytes.
LEMMA WantNat ==
    ASSUME fut \in Future, NEW f \in Field, Between(f, fut)
    PROVE  Want(f) \in Nat
  <1>1. /\ f.kind \in {"int", "string", "bytes"} /\ f.width \in Nat
        /\ fut.counted \in BOOLEAN /\ Len(fut.part) = 0
    BY FieldFacts, FutureFacts DEF Between
  <1>2. CASE f.kind = "int"
    BY <1>1, <1>2 DEF Want
  <1>3. CASE f.kind = "string" /\ fut.counted
    BY <1>1, <1>3 DEF Want
  <1>4. CASE f.kind = "string" /\ ~fut.counted
    BY <1>1, <1>4 DEF Want
  <1>5. CASE f.kind = "bytes"
    BY <1>5, WindowFits
  <1> QED
    BY <1>1, <1>2, <1>3, <1>4, <1>5

\* A future has reached a position.
LEMMA ReachedNat ==
    ASSUME NEW f \in Field, NEW t \in Future
    PROVE  Reached(f, t) \in Nat
  BY FieldFacts, FutureFacts DEF Reached, Skipped

\* poll_read delivers all of a request or nothing of it.
LEMMA AllOrNothing ==
    ASSUME rbuf \in Seq(Int), NEW w \in Nat, Enough(w)
    PROVE  Delivers(w) = w /\ w \in 0..Len(rbuf)
  BY DEF Enough, Delivers

-----------------------------------------------------------------------------
(* The response *)

\* The fields of a response.
LEMMA LayoutFacts ==
    ASSUME layout \in Layouts
    PROVE  /\ layout \in Seq(Field) /\ Len(layout) \in Nat \ {0} /\ layout[1].at = 0
           /\ \A i \in 1..Len(layout) : layout[i] \in Field
           /\ \A i \in 1..(Len(layout) - 1) : layout[i + 1].at = End(layout[i])
  <1>1. /\ layout \in Seq(Field) /\ layout # <<>> /\ layout[1].at = 0
        /\ \A i \in 1..(Len(layout) - 1) : layout[i + 1].at = End(layout[i])
    BY LayoutAssumption
  <1> QED
    BY <1>1

\* The bytes consumed are counted.
LEMMA ConsumedNat ==
    ASSUME ReadTypes
    PROVE  Consumed \in Nat
  <1>1. CASE fields = <<>>
    <2>1. Consumed = End(layout[Len(layout)])
      BY <1>1 DEF Consumed
    <2>2. layout[Len(layout)] \in Field
      BY LayoutFacts DEF ReadTypes
    <2> QED
      BY <2>1, <2>2, FieldFacts
  <1>2. CASE fields # <<>>
    <2>1. Consumed = Reached(Head(fields), fut)
      BY <1>2 DEF Consumed
    <2>2. Head(fields) \in Field
      BY <1>2 DEF ReadTypes
    <2> QED
      BY <2>1, <2>2, ReachedNat DEF ReadTypes
  <1> QED
    BY <1>1, <1>2

\* Where each packet ends.
LEMMA Positions ==
    ASSUME NEW ps \in Seq(Seq(Int)), NEW p \in Int, NEW rest, Chain(ps, p, rest)
    PROVE  /\ Len(ps) \in Nat
           /\ \A i \in 0..Len(ps) : Upto(ps, p, i) \in Int
           /\ \A i \in 1..Len(ps) :
                 ps[i] \in Seq(Int) /\ Upto(ps, p, i) = Upto(ps, p, i - 1) + Len(ps[i])
  <1>1. Len(ps) \in Nat
    OBVIOUS
  <1>2. ASSUME NEW i \in 1..Len(ps)
        PROVE  /\ ps[i] \in Seq(Int) /\ Len(ps[i]) \in Nat
               /\ Upto(ps, p, i) = ps[i][1] - 1 + Len(ps[i])
               /\ ps[i][1] \in Int /\ ps[i][1] = Upto(ps, p, i - 1) + 1
    <2>1. ps[i] \in Seq(Int) /\ Len(ps[i]) \in Nat /\ Len(ps[i]) > 0
      BY DEF Chain
    <2>2. 1 \in 1..Len(ps[i]) /\ i # 0
      BY <1>1, <2>1
    <2>3. ps[i][1] \in Int
      BY <2>1, <2>2
    <2>4. ps[i][1] = Upto(ps, p, i - 1) + 1
      BY <2>2 DEF Chain, Follow
    <2>5. Upto(ps, p, i) = ps[i][1] - 1 + Len(ps[i])
      BY <2>2 DEF Upto
    <2> QED
      BY <2>1, <2>3, <2>4, <2>5
  <1>3. ASSUME NEW i \in 0..Len(ps)
        PROVE  Upto(ps, p, i) \in Int
    <2>1. CASE i = 0
      BY <2>1 DEF Upto
    <2>2. CASE i # 0
      <3>1. i \in 1..Len(ps)
        BY <2>2, <1>1
      <3>2. /\ Upto(ps, p, i) = ps[i][1] - 1 + Len(ps[i])
            /\ ps[i][1] \in Int /\ Len(ps[i]) \in Int
        BY <3>1, <1>2
      <3>3. \A a, b \in Int : a - 1 + b \in Int
        OBVIOUS
      <3> QED
        BY ONLY <3>2, <3>3
    <2> QED
      BY <2>1, <2>2
  <1>4. ASSUME NEW i \in 1..Len(ps)
        PROVE  Upto(ps, p, i) = Upto(ps, p, i - 1) + Len(ps[i])
    <2>1. i - 1 \in 0..Len(ps)
      BY <1>1
    <2>2. Upto(ps, p, i - 1) \in Int
      BY <1>3, <2>1
    <2>3. \A a, b \in Int : (a + 1) - 1 + b = a + b
      OBVIOUS
    <2>4. /\ Len(ps[i]) \in Int /\ ps[i][1] = Upto(ps, p, i - 1) + 1
          /\ Upto(ps, p, i) = ps[i][1] - 1 + Len(ps[i])
      BY <1>2
    <2> QED
      BY ONLY <2>2, <2>3, <2>4
  <1> QED
    BY <1>1, <1>2, <1>3, <1>4

\* A packet cut off the rest.
LEMMA ChainArrive ==
    ASSUME NEW ps \in Seq(Seq(Int)), NEW p \in Int, NEW rest \in Seq(Int),
           Chain(ps, p, rest), NEW n \in Nat \ {0}, n <= Len(rest)
    PROVE  /\ Append(ps, SubSeq(rest, 1, n)) \in Seq(Seq(Int))
           /\ SubSeq(rest, n + 1, Len(rest)) \in Seq(Int)
           /\ Chain(Append(ps, SubSeq(rest, 1, n)), p, SubSeq(rest, n + 1, Len(rest)))
  <1> DEFINE k == Len(ps)
             q == SubSeq(rest, 1, n)
             r == SubSeq(rest, n + 1, Len(rest))
             qs == Append(ps, q)
  <1>1. k \in Nat /\ Upto(ps, p, k) \in Int
    BY Positions
  <1>2. n \in 0..Len(rest) /\ Follow(rest, Upto(ps, p, k))
    BY DEF Chain
  <1>3. /\ q \in Seq(Int) /\ Len(q) = n /\ Follow(q, Upto(ps, p, k))
        /\ r \in Seq(Int) /\ Follow(r, Upto(ps, p, k) + n)
    BY <1>1, <1>2, FollowSplit
  <1> HIDE DEF q, r
  <1>4. /\ qs \in Seq(Seq(Int)) /\ Len(qs) = k + 1 /\ qs[k + 1] = q
        /\ \A i \in 1..k : qs[i] = ps[i]
    BY <1>3
  <1> HIDE DEF qs
  <1>5. ASSUME NEW i \in 0..k
        PROVE  Upto(qs, p, i) = Upto(ps, p, i)
    <2>1. CASE i = 0
      BY <2>1 DEF Upto
    <2>2. CASE i # 0
      <3>1. i \in 1..k
        BY <2>2, <1>1
      <3> QED
        BY <2>2, <3>1, <1>4 DEF Upto
    <2> QED
      BY <2>1, <2>2
  <1>6. Upto(qs, p, k + 1) = Upto(ps, p, k) + n
    <2>1. k + 1 # 0 /\ 1 \in 1..n
      BY <1>1
    <2>2. q[1] = Upto(ps, p, k) + 1
      BY <2>1, <1>3 DEF Follow
    <2>3. Upto(qs, p, k + 1) = q[1] - 1 + n
      BY <2>1, <1>3, <1>4 DEF Upto
    <2>4. \A a \in Int, b \in Nat : (a + 1) - 1 + b = a + b
      OBVIOUS
    <2> QED
      BY <1>1, <2>2, <2>3, <2>4
  <1>7. ASSUME NEW i \in 1..Len(qs)
        PROVE  Len(qs[i]) > 0 /\ Follow(qs[i], Upto(qs, p, i - 1))
    <2>1. i \in 1..(k + 1) /\ i - 1 \in 0..k
      BY <1>1, <1>4
    <2>2. Upto(qs, p, i - 1) = Upto(ps, p, i - 1)
      BY <2>1, <1>5
    <2>3. CASE i \in 1..k
      BY <2>2, <2>3, <1>4 DEF Chain
    <2>4. CASE i = k + 1
      <3>1. i - 1 = k
        BY <2>4, <1>1
      <3> QED
        BY <2>2, <2>4, <3>1, <1>3, <1>4
    <2>5. i \in 1..k \/ i = k + 1
      <3>1. \A m \in Nat : \A j \in 1..(m + 1) : j \in 1..m \/ j = m + 1
        OBVIOUS
      <3> QED
        BY ONLY <2>1, <1>1, <3>1
    <2> QED
      BY <2>3, <2>4, <2>5
  <1>8. Follow(r, Upto(qs, p, Len(qs)))
    BY <1>3, <1>4, <1>6
  <1>9. Chain(qs, p, r)
    BY <1>7, <1>8 DEF Chain
  <1> QED
    BY <1>3, <1>4, <1>9 DEF q, r, qs

\* A packet taken.
LEMMA ChainTake ==
    ASSUME NEW ps \in Seq(Seq(Int)), NEW p \in Int, NEW rest \in Seq(Int),
           Chain(ps, p, rest), ps # <<>>
    PROVE  /\ Head(ps) \in Seq(Int) /\ Follow(Head(ps), p)
           /\ Tail(ps) \in Seq(Seq(Int))
           /\ Chain(Tail(ps), p + Len(Head(ps)), rest)
  <1> DEFINE k == Len(ps)
             qs == Tail(ps)
             p1 == p + Len(Head(ps))
  <1>1. k \in Nat \ {0} /\ 1 \in 1..k /\ Head(ps) = ps[1]
    OBVIOUS
  <1>2. qs \in Seq(Seq(Int)) /\ Len(qs) = k - 1 /\ \A i \in 1..(k - 1) : qs[i] = ps[i + 1]
    OBVIOUS
  <1>3. Upto(ps, p, 0) = p /\ 1 - 1 = 0
    BY DEF Upto
  <1>4. Head(ps) \in Seq(Int) /\ Follow(Head(ps), p) /\ Upto(ps, p, 1) = p1
    <2>1. ps[1] \in Seq(Int) /\ Upto(ps, p, 1) = Upto(ps, p, 1 - 1) + Len(ps[1])
      BY <1>1, Positions
    <2>2. Follow(ps[1], Upto(ps, p, 1 - 1))
      BY <1>1 DEF Chain
    <2> QED
      BY <1>1, <1>3, <2>1, <2>2
  <1> HIDE DEF qs, p1
  <1>5. ASSUME NEW i \in 0..(k - 1)
        PROVE  Upto(qs, p1, i) = Upto(ps, p, i + 1)
    <2>1. CASE i = 0
      BY <2>1, <1>4 DEF Upto
    <2>2. CASE i # 0
      <3>1. i \in 1..(k - 1) /\ i + 1 # 0
        BY <2>2, <1>1
      <3> QED
        BY <2>2, <3>1, <1>2 DEF Upto
    <2> QED
      BY <2>1, <2>2
  <1>6. ASSUME NEW i \in 1..Len(qs)
        PROVE  Len(qs[i]) > 0 /\ Follow(qs[i], Upto(qs, p1, i - 1))
    <2>1. /\ i \in 1..(k - 1) /\ i - 1 \in 0..(k - 1) /\ (i - 1) + 1 = (i + 1) - 1
          /\ i + 1 \in 1..k
      BY <1>1, <1>2
    <2>2. Upto(qs, p1, i - 1) = Upto(ps, p, (i + 1) - 1)
      BY <2>1, <1>5
    <2>3. Len(ps[i + 1]) > 0 /\ Follow(ps[i + 1], Upto(ps, p, (i + 1) - 1))
      BY <2>1 DEF Chain
    <2> QED
      BY <2>1, <2>2, <2>3, <1>2
  <1>7. Follow(rest, Upto(qs, p1, Len(qs)))
    <2>1. k - 1 \in 0..(k - 1) /\ (k - 1) + 1 = k
      BY <1>1
    <2> QED
      BY <2>1, <1>2, <1>5 DEF Chain
  <1>8. Chain(qs, p1, rest)
    BY <1>6, <1>7 DEF Chain
  <1> QED
    BY <1>2, <1>4, <1>8 DEF qs, p1

-----------------------------------------------------------------------------
(* The steps *)

\* What stays of the invariant when only the socket changes.
LEMMA SocketStep ==
    ASSUME ReaderInv, UNCHANGED <<layout, fields, rbuf, fut, values>>,
           packets' \in Seq(Seq(Int)), net' \in Seq(Int),
           Chain(packets', Consumed + Len(rbuf), net')
    PROVE  ReaderInv'
  <1>1. ReadTypes' /\ FieldsInv' /\ NoByteLost'
    BY DEF ReaderInv, ReadTypes, FieldsInv, NoByteLost
  <1>2. Consumed' = Consumed
    BY DEF Consumed
  <1>3. /\ fields' # <<>> => Between(Head(fields'), fut')
        /\ fields' = <<>> => fut' = NewFuture
        /\ Follow(rbuf', Consumed')
    BY <1>2 DEF ReaderInv, BytesInv
  <1>4. Chain(packets', Consumed' + Len(rbuf'), net')
    BY <1>2
  <1>5. BytesInv'
    BY <1>3, <1>4 DEF BytesInv
  <1> QED
    BY <1>1, <1>5 DEF ReaderInv

\* A packet arrives.
LEMMA ArriveStep ==
    ASSUME ReaderInv, Arrive
    PROVE  ReaderInv'
  <1>1. PICK n \in 1..MaxPacket :
            /\ n <= Len(net) /\ packets' = Append(packets, SubSeq(net, 1, n))
            /\ net' = SubSeq(net, n + 1, Len(net))
    BY DEF Arrive
  <1>2. UNCHANGED <<layout, fields, rbuf, fut, values>>
    BY DEF Arrive
  <1>3. n \in Nat \ {0}
    BY LayoutAssumption
  <1>4. /\ packets \in Seq(Seq(Int)) /\ net \in Seq(Int)
        /\ Chain(packets, Consumed + Len(rbuf), net)
    BY DEF ReaderInv, ReadTypes, BytesInv
  <1>5. Consumed + Len(rbuf) \in Int
    BY ConsumedNat DEF ReaderInv, ReadTypes
  <1>6. /\ packets' \in Seq(Seq(Int)) /\ net' \in Seq(Int)
        /\ Chain(packets', Consumed + Len(rbuf), net')
    BY <1>1, <1>3, <1>4, <1>5, ChainArrive
  <1> QED
    BY <1>2, <1>6, SocketStep

\* The server hangs up.
LEMMA HangupStep ==
    ASSUME ReaderInv, Hangup
    PROVE  ReaderInv'
  <1>1. net' = <<>> /\ UNCHANGED <<layout, fields, packets, rbuf, fut, values, ended>>
    BY DEF Hangup
  <1>2. packets' \in Seq(Seq(Int)) /\ net' \in Seq(Int)
    BY <1>1, FollowNothing DEF ReaderInv, ReadTypes
  <1>3. Chain(packets', Consumed + Len(rbuf), net')
    BY <1>1, FollowNothing DEF ReaderInv, BytesInv, Chain
  <1> QED
    BY <1>1, <1>2, <1>3, SocketStep

\* poll_read takes a packet.
LEMMA TakePacketStep ==
    ASSUME ReaderInv, TakePacket
    PROVE  ReaderInv'
  <1>1. /\ packets # <<>> /\ rbuf' = rbuf \o Head(packets) /\ packets' = Tail(packets)
        /\ UNCHANGED <<layout, fields, net, hung, fut, values, ended>>
    BY DEF TakePacket
  <1>2. /\ packets \in Seq(Seq(Int)) /\ net \in Seq(Int) /\ rbuf \in Seq(Int)
        /\ Chain(packets, Consumed + Len(rbuf), net) /\ Follow(rbuf, Consumed)
    BY DEF ReaderInv, ReadTypes, BytesInv
  <1>3. Consumed \in Int /\ Len(rbuf) \in Int /\ Consumed + Len(rbuf) \in Int
    BY <1>2, ConsumedNat DEF ReaderInv
  <1>4. /\ Head(packets) \in Seq(Int) /\ Follow(Head(packets), Consumed + Len(rbuf))
        /\ packets' \in Seq(Seq(Int))
        /\ Chain(packets', Consumed + Len(rbuf) + Len(Head(packets)), net)
    BY <1>1, <1>2, <1>3, ChainTake
  <1>5. /\ rbuf' \in Seq(Int) /\ Len(rbuf') = Len(rbuf) + Len(Head(packets))
        /\ Follow(rbuf', Consumed)
    BY <1>1, <1>2, <1>3, <1>4, FollowJoin
  <1>6. Consumed' = Consumed
    BY <1>1 DEF Consumed
  <1>7. Consumed + Len(rbuf) + Len(Head(packets)) = Consumed' + Len(rbuf')
    <2>1. Len(Head(packets)) \in Int
      BY <1>4
    <2>2. \A a, b, c \in Int : a + b + c = a + (b + c)
      OBVIOUS
    <2>3. Consumed + Len(rbuf) + Len(Head(packets)) =
          Consumed + (Len(rbuf) + Len(Head(packets)))
      BY ONLY <1>3, <2>1, <2>2
    <2> QED
      BY ONLY <1>5, <1>6, <2>3
  <1>8. ReadTypes' /\ FieldsInv' /\ NoByteLost'
    BY <1>1, <1>4, <1>5 DEF ReaderInv, ReadTypes, FieldsInv, NoByteLost
  <1>9. /\ fields' # <<>> => Between(Head(fields'), fut')
        /\ fields' = <<>> => fut' = NewFuture
    BY <1>1 DEF ReaderInv, BytesInv
  <1>10. Chain(packets', Consumed' + Len(rbuf'), net')
    BY <1>1, <1>4, <1>7
  <1>11. BytesInv'
    BY <1>5, <1>6, <1>9, <1>10 DEF BytesInv
  <1> QED
    BY <1>8, <1>11 DEF ReaderInv

\* The field that is read, and the one after it.
LEMMA HeadField ==
    ASSUME ReaderInv, fields # <<>>
    PROVE  /\ Head(fields) \in Field /\ Tail(fields) \in Seq(Field)
           /\ Len(values) + 1 \in 1..Len(layout)
           /\ Head(fields) = layout[Len(values) + 1]
           /\ Len(Tail(fields)) = Len(fields) - 1 /\ Len(fields) \in Nat /\ Len(values) \in Nat
           /\ \A i \in 1..Len(Tail(fields)) : Tail(fields)[i] = fields[i + 1]
           /\ Consumed = Reached(Head(fields), fut) /\ Between(Head(fields), fut)
  <1>1. /\ fields \in Seq(Field) /\ values \in Seq(Seq(Int)) /\ layout \in Layouts
        /\ Len(values) + Len(fields) = Len(layout)
        /\ \A i \in 1..Len(fields) : fields[i] = layout[Len(values) + i]
    BY DEF ReaderInv, ReadTypes, FieldsInv
  <1>2. /\ Head(fields) \in Field /\ Tail(fields) \in Seq(Field)
        /\ Head(fields) = fields[1] /\ Len(fields) \in Nat \ {0} /\ Len(values) \in Nat
        /\ Len(Tail(fields)) = Len(fields) - 1
        /\ \A i \in 1..Len(Tail(fields)) : Tail(fields)[i] = fields[i + 1]
    BY <1>1
  <1>3. 1 \in 1..Len(fields) /\ Len(values) + 1 \in 1..Len(layout)
    BY <1>1, <1>2
  <1>4. Head(fields) = layout[Len(values) + 1]
    BY <1>1, <1>2, <1>3
  <1>5. Consumed = Reached(Head(fields), fut) /\ Between(Head(fields), fut)
    BY DEF Consumed, ReaderInv, BytesInv
  <1> QED
    BY <1>2, <1>3, <1>4, <1>5

\* The field after the one that is read begins where it ends.
LEMMA NextField ==
    ASSUME ReaderInv, fields # <<>>
    PROVE  /\ Tail(fields) = <<>> => Head(fields) = layout[Len(layout)]
           /\ Tail(fields) # <<>> =>
                 /\ Head(Tail(fields)) \in Field
                 /\ Head(Tail(fields)).at = End(Head(fields))
  <1> DEFINE v == Len(values)
             m == Len(layout)
             k == Len(fields)
             ts == Tail(fields)
  <1>1. /\ v \in Nat /\ k \in Nat \ {0} /\ v + k = m /\ m \in Nat
        /\ \A i \in 1..k : fields[i] = layout[v + i]
        /\ layout \in Layouts
    BY LayoutFacts DEF ReaderInv, ReadTypes, FieldsInv
  <1>2. /\ Head(fields) = layout[v + 1]
        /\ ts \in Seq(Field) /\ Len(ts) = k - 1
        /\ \A i \in 1..Len(ts) : ts[i] = fields[i + 1]
    BY HeadField
  <1> HIDE DEF v, m, k, ts
  <1>3. ASSUME ts = <<>>
        PROVE  Head(fields) = layout[m]
    <2>1. v + 1 = m
      BY <1>1, <1>2, <1>3
    <2> QED
      BY <1>2, <2>1
  <1>4. ASSUME ts # <<>>
        PROVE  Head(ts) \in Field /\ Head(ts).at = End(Head(fields))
    <2>1. Head(ts) \in Field /\ Head(ts) = ts[1] /\ 1 \in 1..Len(ts) /\ Len(ts) \in Nat \ {0}
      BY <1>2, <1>4
    <2>2. k > 1
      BY <1>1, <1>2, <2>1
    <2>3. 2 \in 1..k /\ v + 1 \in 1..(m - 1) /\ (v + 1) + 1 = v + 2
      BY <1>1, <2>2
    <2>4. Head(ts) = layout[v + 2]
      BY <1>1, <1>2, <2>1, <2>3
    <2>5. layout[(v + 1) + 1].at = End(layout[v + 1])
      BY <1>1, <2>3, LayoutFacts DEF m
    <2> QED
      BY <1>2, <2>1, <2>3, <2>4, <2>5
  <1> QED
    BY <1>3, <1>4 DEF m, ts

\* A new future has read nothing.
LEMMA NewFacts ==
    /\ NewFuture \in Future
    /\ \A f \in Field : Between(f, NewFuture) /\ Reached(f, NewFuture) = f.at
  <1>1. NewFuture \in Future /\ NewFuture.part = <<>> /\ NewFuture.data = <<>>
    BY FollowNothing DEF NewFuture, Future
  <1>2. NewFuture.counted = FALSE
    BY DEF NewFuture
  <1>3. ASSUME NEW f \in Field
        PROVE  Between(f, NewFuture) /\ Reached(f, NewFuture) = f.at
    <2>1. Skipped(f, NewFuture) = 0
      BY <1>2 DEF Skipped
    <2>2. Len(NewFuture.data) = 0 /\ f.count \in Nat /\ f.at \in Nat
      BY <1>1, FieldFacts
    <2>3. Follow(NewFuture.data, f.at + Skipped(f, NewFuture))
      BY <1>1, FollowNothing
    <2>4. Between(f, NewFuture)
      BY <1>1, <1>2, <2>2, <2>3 DEF Between
    <2> QED
      BY <2>1, <2>2, <2>4 DEF Reached
  <1> QED
    BY <1>1, <1>3

\* What stays of the invariant when the reader moves by the n bytes it took
\* from the buffer.
LEMMA ReaderStep ==
    ASSUME ReaderInv, ReadTypes', FieldsInv', NoByteLost', UNCHANGED <<net, packets>>,
           NEW n \in 0..Len(rbuf), rbuf' = SubSeq(rbuf, n + 1, Len(rbuf)),
           Consumed' = Consumed + n,
           fields' # <<>> => Between(Head(fields'), fut'),
           fields' = <<>> => fut' = NewFuture
    PROVE  ReaderInv'
  <1>1. Consumed \in Int /\ rbuf \in Seq(Int) /\ Follow(rbuf, Consumed)
    BY ConsumedNat DEF ReaderInv, ReadTypes, BytesInv
  <1>2. Len(rbuf') = Len(rbuf) - n /\ Follow(rbuf', Consumed')
    BY <1>1, FollowSplit
  <1>3. Consumed' + Len(rbuf') = Consumed + Len(rbuf)
    <2>1. Len(rbuf) \in Int /\ n \in Int
      BY <1>1
    <2>2. \A a, b, c \in Int : (a + b) + (c - b) = a + c
      OBVIOUS
    <2> QED
      BY ONLY <1>1, <1>2, <2>1, <2>2, Consumed' = Consumed + n
  <1>4. Chain(packets', Consumed' + Len(rbuf'), net')
    BY <1>3 DEF ReaderInv, BytesInv
  <1>5. BytesInv'
    BY <1>2, <1>4 DEF BytesInv
  <1> QED
    BY <1>5 DEF ReaderInv

\* poll_read delivers, and the future is not ready or is.
LEMMA DeliverStep ==
    ASSUME ReaderInv, Deliver
    PROVE  ReaderInv'
  <1> DEFINE f == Head(fields)
             n == Want(f)
             got == SubSeq(rbuf, 1, n)
             t == Advance(f, got)
  <1>1. fields # <<>> /\ UNCHANGED <<layout, net, hung, packets>> /\ Enough(Want(f))
    BY DEF Deliver
  <1>2. /\ f \in Field /\ Consumed = Reached(f, fut) /\ Between(f, fut)
        /\ f = layout[Len(values) + 1]
    BY <1>1, HeadField
  <1>3. fut \in Future /\ rbuf \in Seq(Int) /\ Follow(rbuf, Consumed)
    BY DEF ReaderInv, ReadTypes, BytesInv
  <1>4. n \in Nat
    BY <1>2, <1>3, WantNat
  <1>5. Delivers(n) = n /\ n \in 0..Len(rbuf)
    BY <1>1, <1>3, <1>4, AllOrNothing
  <1>6. /\ rbuf' = SubSeq(rbuf, n + 1, Len(rbuf))
        /\ \/ ~Ready(f, t) /\ fut' = t /\ UNCHANGED <<fields, values, ended>>
           \/ /\ Ready(f, t) /\ values' = Append(values, Value(f, t))
              /\ fields' = Tail(fields) /\ fut' = NewFuture
    BY <1>5 DEF Deliver
  <1>7. Consumed \in Int
    BY ConsumedNat DEF ReaderInv
  <1>8. /\ got \in Seq(Int) /\ Len(got) = n /\ Follow(got, Consumed)
        /\ rbuf' \in Seq(Int)
    BY <1>3, <1>5, <1>6, <1>7, FollowSplit
  <1> HIDE DEF got
  <1>9. Advanced(f, got, t)
    BY <1>2, <1>3, <1>8, AdvanceField
  <1> HIDE DEF t, n, f
  <1>10. CASE ~Ready(f, t) /\ fut' = t /\ UNCHANGED <<fields, values, ended>>
    <2>1. t \in Future /\ Between(f, t) /\ Reached(f, t) = Consumed + n
      BY <1>2, <1>8, <1>9, <1>10 DEF Advanced
    <2>2. ReadTypes' /\ FieldsInv' /\ NoByteLost'
      BY <1>1, <1>8, <1>10, <2>1 DEF ReaderInv, ReadTypes, FieldsInv, NoByteLost
    <2>3. fields' # <<>> /\ Head(fields') = f /\ fut' = t
      BY <1>1, <1>10 DEF f
    <2>4. Consumed' = Consumed + n
      BY <2>1, <2>3 DEF Consumed
    <2> QED
      BY <1>1, <1>5, <1>6, <2>1, <2>2, <2>3, <2>4, ReaderStep
  <1>11. CASE /\ Ready(f, t) /\ values' = Append(values, Value(f, t))
              /\ fields' = Tail(fields) /\ fut' = NewFuture
    <2>1. /\ Value(f, t) \in Seq(Int) /\ Value(f, t) = FieldBytes(f)
          /\ Consumed + n = End(f)
      BY <1>2, <1>8, <1>9, <1>11 DEF Advanced
    <2>2. values \in Seq(Seq(Int)) /\ layout \in Layouts /\ Len(values) \in Nat
      BY DEF ReaderInv, ReadTypes
    <2>3. /\ values' \in Seq(Seq(Int)) /\ Len(values') = Len(values) + 1
          /\ values'[Len(values) + 1] = Value(f, t)
          /\ \A i \in 1..Len(values) : values'[i] = values[i]
      BY <1>11, <2>1, <2>2
    <2>4. /\ fields' \in Seq(Field) /\ Len(fields') = Len(fields) - 1 /\ Len(fields) \in Nat
          /\ \A i \in 1..Len(fields') : fields'[i] = fields[i + 1]
      BY <1>1, <1>11, HeadField
    <2>5. ReadTypes'
      BY <1>1, <1>8, <1>11, <2>2, <2>3, <2>4, NewFacts DEF ReaderInv, ReadTypes
    <2>6. NoByteLost'
      <3>1. ASSUME NEW i \in 1..Len(values')
            PROVE  values'[i] = FieldBytes(layout[i])
        <4>1. i \in 1..Len(values) \/ i = Len(values) + 1
          <5>1. \A m \in Nat : \A j \in 1..(m + 1) : j \in 1..m \/ j = m + 1
            OBVIOUS
          <5> QED
            BY ONLY <2>2, <2>3, <5>1, i \in 1..Len(values')
        <4>2. CASE i \in 1..Len(values)
          BY <4>2, <2>3 DEF ReaderInv, NoByteLost
        <4>3. CASE i = Len(values) + 1
          BY <4>3, <2>1, <2>3, <1>2
        <4> QED
          BY <4>1, <4>2, <4>3
      <3> QED
        BY <1>1, <3>1 DEF NoByteLost
    <2>7. FieldsInv'
      <3>1. /\ Len(values) + Len(fields) = Len(layout)
            /\ \A i \in 1..Len(fields) : fields[i] = layout[Len(values) + i]
        BY DEF ReaderInv, FieldsInv
      <3>2. Len(values') + Len(fields') = Len(layout)
        <4>1. \A a, b \in Nat : (a + 1) + (b - 1) = a + b
          OBVIOUS
        <4> QED
          BY ONLY <2>2, <2>3, <2>4, <3>1, <4>1
      <3>3. ASSUME NEW i \in 1..Len(fields')
            PROVE  fields'[i] = layout[Len(values') + i]
        <4>1. i + 1 \in 1..Len(fields) /\ Len(values) + (i + 1) = (Len(values) + 1) + i
          BY <2>2, <2>4
        <4> QED
          BY <4>1, <2>3, <2>4, <3>1
      <3> QED
        BY <1>1, <3>2, <3>3 DEF FieldsInv
    <2>8. /\ Tail(fields) = <<>> => f = layout[Len(layout)]
          /\ Tail(fields) # <<>> =>
                Head(Tail(fields)) \in Field /\ Head(Tail(fields)).at = End(f)
      BY <1>1, NextField DEF f
    <2>9. Consumed' = Consumed + n
      <3>1. CASE fields' = <<>>
        BY <3>1, <1>1, <1>11, <2>1, <2>8 DEF Consumed
      <3>2. CASE fields' # <<>>
        <4>1. Head(fields') \in Field /\ Head(fields').at = End(f)
          BY <3>2, <1>11, <2>8
        <4>2. Consumed' = Reached(Head(fields'), NewFuture)
          BY <3>2, <1>11 DEF Consumed
        <4> QED
          BY <4>1, <4>2, <2>1, NewFacts
      <3> QED
        BY <3>1, <3>2
    <2>10. fields' # <<>> => Between(Head(fields'), fut')
      BY <1>11, <2>8, NewFacts
    <2> QED
      BY <1>1, <1>5, <1>6, <1>11, <2>5, <2>6, <2>7, <2>9, <2>10, ReaderStep
  <1> QED
    BY <1>6, <1>10, <1>11

\* The buffer is short and no packet is left: what a future holds of an
\* integer, a length or a code unit is nothing.
LEMMA StarveStep ==
    ASSUME ReaderInv, Starve
    PROVE  ReaderInv'
  <1>1. /\ fields # <<>> /\ UNCHANGED <<layout, fields, net, packets, rbuf, values>>
        /\ fut' = AfterPending(Head(fields)) \/ fut' = fut
    BY DEF Starve
  <1>2. fut \in Future /\ fut.part = <<>>
    BY <1>1 DEF ReaderInv, ReadTypes, BytesInv, Between
  <1>3. [fut EXCEPT !.part = <<>>] = fut
    BY <1>2 DEF Future
  <1>4. fut' = fut
    BY <1>1, <1>3 DEF AfterPending
  <1>5. /\ packets' \in Seq(Seq(Int)) /\ net' \in Seq(Int)
        /\ Chain(packets', Consumed + Len(rbuf), net')
    BY <1>1 DEF ReaderInv, ReadTypes, BytesInv
  <1> QED
    BY <1>1, <1>4, <1>5, SocketStep

\* At the beginning the whole response is on its way.
LEMMA ReadStarts ==
    ASSUME ReadInit
    PROVE  ReaderInv
  <1>1. PICK fs \in Layouts :
            /\ layout = fs /\ fields = fs /\ net = [i \in 1..End(fs[Len(fs)]) |-> i]
            /\ packets = <<>> /\ rbuf = <<>> /\ fut = NewFuture /\ values = <<>>
    BY DEF ReadInit
  <1>2. /\ layout \in Seq(Field) /\ layout[1] \in Field /\ layout[1].at = 0
        /\ layout # <<>> /\ layout[Len(layout)] \in Field /\ Len(layout) \in Nat
    <2>1. layout \in Layouts
      BY <1>1
    <2>2. /\ layout \in Seq(Field) /\ Len(layout) \in Nat \ {0} /\ layout[1].at = 0
          /\ \A i \in 1..Len(layout) : layout[i] \in Field
      BY <2>1, LayoutFacts
    <2>3. 1 \in 1..Len(layout) /\ Len(layout) \in 1..Len(layout) /\ layout # <<>>
      BY <2>2
    <2> QED
      BY <2>2, <2>3
  <1>3. End(layout[Len(layout)]) \in Nat
    BY <1>2, FieldFacts
  <1> DEFINE e == End(layout[Len(layout)])
  <1>4. net \in Seq(Int) /\ Len(net) = e /\ \A i \in 1..e : net[i] = i
    <2>1. net = [i \in 1..e |-> i] /\ e \in Nat
      BY <1>1, <1>3
    <2> HIDE DEF e
    <2> QED
      BY <2>1
  <1>5. Follow(net, 0)
    <2>1. \A i \in 1..e : i = 0 + i
      BY <1>3
    <2> QED
      BY <1>4, <2>1 DEF Follow
  <1>6. /\ rbuf \in Seq(Int) /\ Len(rbuf) = 0 /\ packets \in Seq(Seq(Int)) /\ Len(packets) = 0
        /\ values \in Seq(Seq(Int)) /\ Len(values) = 0
    BY <1>1
  <1>7. fields # <<>> /\ Head(fields) = layout[1] /\ fut = NewFuture
    BY <1>1, <1>2
  <1>8. Between(Head(fields), fut) /\ Reached(Head(fields), fut) = 0
    BY <1>2, <1>7, NewFacts
  <1>9. Consumed = 0 /\ Consumed + Len(rbuf) = 0
    BY <1>6, <1>7, <1>8 DEF Consumed
  <1>10. Chain(packets, Consumed + Len(rbuf), net)
    <2>1. Upto(packets, 0, Len(packets)) = 0
      BY <1>6 DEF Upto
    <2>2. \A i \in 1..Len(packets) : FALSE
      BY <1>6
    <2> QED
      BY <1>5, <1>9, <2>1, <2>2 DEF Chain
  <1>11. BytesInv
    BY <1>1, <1>7, <1>8, <1>9, <1>10, FollowNothing DEF BytesInv
  <1>12. ReadTypes
    BY <1>1, <1>2, <1>4, <1>6, NewFacts DEF ReadTypes
  <1>13. FieldsInv
    <2>1. \A i \in 1..Len(layout) : 0 + i = i
      BY <1>2
    <2> QED
      BY <1>1, <1>2, <1>6, <2>1 DEF FieldsInv
  <1>14. NoByteLost
    BY <1>6 DEF NoByteLost
  <1> QED
    BY <1>11, <1>12, <1>13, <1>14 DEF ReaderInv

-----------------------------------------------------------------------------
(* The theorem *)

\* Every integer, string and run of bytes that sql_read_bytes.rs hands to a
\* decoder is made of the bytes of its own field: for every layout of a
\* response, every way it is cut into packets, every point at which the task
\* is suspended and every window of read_bytes_into.
THEOREM NothingIsLost == ReadSpec => []NoByteLost
  <1>1. ReadInit => ReaderInv
    BY ReadStarts
  <1>2. ReaderInv /\ [ReadNext]_readVars => ReaderInv'
    <2> SUFFICES ASSUME ReaderInv, [ReadNext]_readVars
                 PROVE  ReaderInv'
      OBVIOUS
    <2>1. CASE Arrive
      BY <2>1, ArriveStep
    <2>2. CASE Hangup
      BY <2>2, HangupStep
    <2>3. CASE TakePacket
      BY <2>3, TakePacketStep
    <2>4. CASE Deliver
      BY <2>4, DeliverStep
    <2>5. CASE Starve
      BY <2>5, StarveStep
    <2>6. CASE UNCHANGED readVars
      <3>1. /\ UNCHANGED <<layout, fields, rbuf, fut, values>>
            /\ packets' = packets /\ net' = net
        BY <2>6 DEF readVars
      <3>2. /\ packets' \in Seq(Seq(Int)) /\ net' \in Seq(Int)
            /\ Chain(packets', Consumed + Len(rbuf), net')
        BY <3>1 DEF ReaderInv, ReadTypes, BytesInv
      <3> QED
        BY <3>1, <3>2, SocketStep
    <2> QED
      BY <2>1, <2>2, <2>3, <2>4, <2>5, <2>6 DEF ReadNext, Poll
  <1>3. ReaderInv => NoByteLost
    BY DEF ReaderInv
  <1> QED
    BY <1>1, <1>2, <1>3, PTL DEF ReadSpec

=============================================================================
