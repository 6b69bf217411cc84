------------------------- MODULE ResultStreamsProofs -------------------------
(***************************************************************************)
(* Proofs about ResultStreams: rows are decoded with the metadata of their  *)
(* own result set, a server's error is never lost, columns() answers with   *)
(* the right columns, and what the streams hand out and the collecting      *)
(* calls return is what the response says. The invariants relate the        *)
(* Context and the consumer's state to the tokens read so far.              *)
(***************************************************************************)
EXTENDS ResultStreams, FiniteSetTheorems, WellFoundedInduction, TLAPS

(* Extremes of sets of positions *)

Less == {p \in Nat \X Nat : p[1] < p[2]}

\* The order on the naturals is well founded, as a set of pairs.
LEMMA LessWellFounded == IsWellFoundedOn(Less, Nat)
  <1>1. OpToRel(<, Nat) = Less
    BY DEF OpToRel, Less
  <1> QED
    BY <1>1, NatLessThanWellFounded

\* A nonempty set of naturals has a least element.
LEMMA LeastNatural ==
    ASSUME NEW S, S \subseteq Nat, S # {}
    PROVE  \E x \in S : \A y \in S : x <= y
  <1>1. PICK x \in S : \A y \in S : ~(<<y, x>> \in Less)
    BY LessWellFounded, WFMin
  <1>2. \A y \in S : x <= y
    <2>1. TAKE y \in S
    <2>2. x \in Nat /\ y \in Nat
      OBVIOUS
    <2>3. ~(y < x)
      <3>1. y < x => <<y, x>> \in Less
        BY <2>2 DEF Less
      <3> QED
        BY <3>1, <1>1
    <2> QED
      BY <2>2, <2>3
  <1> QED
    BY <1>2

\* Min of a nonempty set of naturals is its least element.
LEMMA MinIsLeast ==
    ASSUME NEW S, S \subseteq Nat, S # {}
    PROVE  Min(S) \in S /\ \A y \in S : Min(S) <= y
  BY LeastNatural DEF Min

\* Max of a nonempty set of positions is its greatest element.
LEMMA MaxIsGreatest ==
    ASSUME NEW n \in Nat, NEW S, S \subseteq 1..n, S # {}
    PROVE  Max(S) \in S /\ \A y \in S : y <= Max(S)
  <1> DEFINE T == {n - x : x \in S}
  <1>1. T \subseteq Nat /\ T # {}
    <2>1. \A x \in S : x \in 1..n
      OBVIOUS
    <2>2. \A x \in 1..n : n - x \in Nat
      OBVIOUS
    <2>3. T \subseteq Nat
      BY <2>1, <2>2, Zenon
    <2>4. PICK x : x \in S
      OBVIOUS
    <2>5. n - x \in T
      BY <2>4
    <2> QED
      BY <2>3, <2>5
  <1>2. PICK z \in T : \A y \in T : z <= y
    BY <1>1, LeastNatural
  <1>3. PICK x \in S : z = n - x
    BY <1>2
  <1>4. \A y \in S : y <= x
    <2>1. TAKE y \in S
    <2>2. n - y \in T
      OBVIOUS
    <2>3. n - x <= n - y
      BY <2>2, <1>2, <1>3
    <2>4. x \in Int /\ y \in Int
      OBVIOUS
    <2> QED
      BY <2>3, <2>4
  <1>5. \A y \in S : x >= y
    BY <1>4
  <1> QED
    BY <1>5 DEF Max

\* An element above all the others is the Max.
LEMMA MaxIs ==
    ASSUME NEW S, S \subseteq Int, NEW x \in S, \A y \in S : y <= x
    PROVE  Max(S) = x
  <1>1. \A y \in S : x >= y
    OBVIOUS
  <1>2. Max(S) \in S /\ \A y \in S : Max(S) >= y
    BY <1>1 DEF Max
  <1>3. Max(S) >= x /\ x >= Max(S)
    BY <1>1, <1>2
  <1>4. Max(S) \in Int /\ x \in Int
    BY <1>2
  <1> QED
    BY <1>3, <1>4

-----------------------------------------------------------------------------
(* The sequence of tokens, extended by one *)

\* The metadata of a COMPUTE clause sent before position i of s.
AltOwn(s, a, i) == {j \in Before(Positions(s, "altmeta"), i) : s[j].n = a}

\* An element of a sequence of a set of records, whatever the set is.
LEMMA ElementOf == \A R : \A F \in Seq(R) : \A k \in 1..Len(F) : F[k] \in R
  OBVIOUS

\* What Append leaves alone.
LEMMA Appended ==
    ASSUME NEW R, NEW s \in Seq(R), NEW x \in R
    PROVE  /\ Append(s, x) \in Seq(R)
           /\ Len(Append(s, x)) = Len(s) + 1
           /\ Append(s, x)[Len(s) + 1] = x
           /\ \A i \in 1..Len(s) : Append(s, x)[i] = s[i]
  OBVIOUS

\* Positions are positions.
LEMMA PositionsBound ==
    ASSUME NEW R, NEW s \in Seq(R), NEW type, NEW i
    PROVE  /\ Positions(s, type) \subseteq 1..Len(s)
           /\ Before(Positions(s, type), i) \subseteq Positions(s, type)
           /\ \A a : AltOwn(s, a, i) \subseteq Positions(s, "altmeta")
  BY DEF Positions, Before, AltOwn

\* What a token added at the end changes of the positions of a type.
LEMMA PositionsAppend ==
    ASSUME NEW R, NEW s \in Seq(R), NEW x \in R, NEW type
    PROVE  Positions(Append(s, x), type) =
             Positions(s, type) \cup (IF x.t = type THEN {Len(s) + 1} ELSE {})
  <1> DEFINE u == Append(s, x)
             L == Len(s)
  <1>1. /\ Len(u) = L + 1 /\ u[L + 1] = x
        /\ \A i \in 1..L : u[i] = s[i]
    BY Appended
  <1>2. L \in Nat
    OBVIOUS
  <1>3. 1..(L + 1) = 1..L \cup {L + 1}
    BY <1>2
  <1> HIDE DEF u
  <1>4. \A i : i \in Positions(u, type) <=> i \in 1..(L + 1) /\ u[i].t = type
    BY <1>1 DEF Positions
  <1>5. \A i : i \in Positions(s, type) <=> i \in 1..L /\ s[i].t = type
    BY DEF Positions
  <1> HIDE DEF L
  <1>6. \A i : i \in Positions(u, type) <=>
                 i \in Positions(s, type) \/ (i = L + 1 /\ x.t = type)
    <2>1. TAKE i
    <2>2. CASE i \in 1..L
      <3>1. i # L + 1
        BY <2>2, <1>2
      <3> QED
        BY <2>2, <3>1, <1>1, <1>3, <1>4, <1>5
    <2>3. CASE i = L + 1
      <3>1. i \notin 1..L
        BY <2>3, <1>2
      <3> QED
        BY <2>3, <3>1, <1>1, <1>3, <1>4, <1>5
    <2>4. CASE i \notin 1..L /\ i # L + 1
      BY <2>4, <1>3, <1>4, <1>5
    <2> QED
      BY <2>2, <2>3, <2>4
  <1>7. Positions(u, type) =
          Positions(s, type) \cup (IF x.t = type THEN {L + 1} ELSE {})
    BY <1>6
  <1> QED
    BY <1>7 DEF u, L

\* Nothing changes before the token added.
LEMMA BeforeAppend ==
    ASSUME NEW R, NEW s \in Seq(R), NEW x \in R, NEW type,
           NEW i \in 1..(Len(s) + 1)
    PROVE  Before(Positions(Append(s, x), type), i) = Before(Positions(s, type), i)
  <1>1. \A j : j < i /\ j = Len(s) + 1 => FALSE
    OBVIOUS
  <1>2. \A j : j \in Before(Positions(Append(s, x), type), i) <=>
                 j \in Before(Positions(s, type), i)
    BY <1>1, PositionsAppend DEF Before
  <1> QED
    BY <1>2

\* All positions of a sequence are before its end.
LEMMA BeforeEnd ==
    ASSUME NEW R, NEW s \in Seq(R), NEW type
    PROVE  Before(Positions(s, type), Len(s) + 1) = Positions(s, type)
  <1>1. \A j \in 1..Len(s) : j < Len(s) + 1
    OBVIOUS
  <1>2. \A j \in Positions(s, type) : j < Len(s) + 1
    BY <1>1, PositionsBound, Zenon
  <1> QED
    BY <1>2 DEF Before

\* The columns a position belongs to, when a token is added at the end.
LEMMA ColumnsAppend ==
    ASSUME NEW R, NEW s \in Seq(R), NEW x \in R
    PROVE  /\ \A i \in 1..(Len(s) + 1) : OwnColumns(Append(s, x), i) = OwnColumns(s, i)
           /\ OwnColumns(Append(s, x), Len(s) + 2) =
                IF x.t = "meta" THEN x.m ELSE OwnColumns(s, Len(s) + 1)
  <1> DEFINE u == Append(s, x)
             L == Len(s)
             old == Positions(s, "meta")
             new == Positions(u, "meta")
  <1>1. /\ u \in Seq(R) /\ Len(u) = L + 1 /\ u[L + 1] = x
        /\ \A i \in 1..L : u[i] = s[i]
    BY Appended
  <1>2. L \in Nat
    OBVIOUS
  <1>3. \A i : Before(old, i) \subseteq 1..L
    BY PositionsBound
  <1>4. \A i \in 1..(L + 1) : Before(new, i) = Before(old, i)
    BY BeforeAppend
  <1>5. \A i : Before(old, i) # {} => u[Max(Before(old, i))] = s[Max(Before(old, i))]
    <2>1. TAKE i
    <2>2. HAVE Before(old, i) # {}
    <2>3. Max(Before(old, i)) \in Before(old, i)
      BY <1>2, <1>3, <2>2, MaxIsGreatest
    <2>4. Max(Before(old, i)) \in 1..L
      BY <1>3, <2>3
    <2> QED
      BY <1>1, <2>4
  <1>6. Before(old, L + 1) = old
    BY BeforeEnd
  <1>7. Before(new, L + 2) = new
    <2>1. Before(new, Len(u) + 1) = new
      BY <1>1, BeforeEnd
    <2>2. Len(u) + 1 = L + 2
      BY <1>1, <1>2
    <2> QED
      BY <2>1, <2>2
  <1>8. new = old \cup (IF x.t = "meta" THEN {L + 1} ELSE {})
    BY PositionsAppend
  <1>9. old \subseteq 1..L
    BY PositionsBound
  <1> HIDE DEF u, L, old, new
  <1>10. \A i \in 1..(L + 1) : OwnColumns(u, i) = OwnColumns(s, i)
    BY <1>4, <1>5 DEF OwnColumns, old, new
  <1>11. CASE x.t = "meta"
    <2>1. L + 1 \in new /\ new \subseteq Int /\ \A y \in new : y <= L + 1
      BY <1>11, <1>2, <1>8, <1>9
    <2>2. Max(new) = L + 1
      BY <2>1, MaxIs
    <2>3. OwnColumns(u, L + 2) = x.m
      BY <1>1, <1>7, <2>1, <2>2 DEF OwnColumns, new
    <2> QED
      BY <1>10, <1>11, <2>3 DEF u, L
  <1>12. CASE x.t # "meta"
    <2>1. OwnColumns(u, L + 2) = OwnColumns(s, L + 1)
      <3>1. Before(new, L + 2) = Before(old, L + 1)
        BY <1>6, <1>7, <1>8, <1>12
      <3> QED
        BY <3>1, <1>5 DEF OwnColumns, old, new
    <2> QED
      BY <1>10, <1>12, <2>1 DEF u, L
  <1> QED
    BY <1>11, <1>12

\* The metadata of a COMPUTE clause, when a token is added at the end.
LEMMA AltAppend ==
    ASSUME NEW R, NEW s \in Seq(R), NEW x \in R, NEW a
    PROVE  /\ \A i \in 1..(Len(s) + 1) :
                 /\ AltOwn(Append(s, x), a, i) = AltOwn(s, a, i)
                 /\ AltOwn(s, a, i) # {} =>
                      Append(s, x)[Max(AltOwn(s, a, i))] = s[Max(AltOwn(s, a, i))]
           /\ (x.t = "altmeta" /\ x.n = a) =>
                 Append(s, x)[Max(AltOwn(Append(s, x), a, Len(s) + 2))] = x
           /\ ~(x.t = "altmeta" /\ x.n = a) =>
                 AltOwn(Append(s, x), a, Len(s) + 2) = AltOwn(s, a, Len(s) + 1)
  <1> DEFINE u == Append(s, x)
             L == Len(s)
             old == Positions(s, "altmeta")
             new == Positions(u, "altmeta")
  <1>1. /\ u \in Seq(R) /\ Len(u) = L + 1 /\ u[L + 1] = x
        /\ \A i \in 1..L : u[i] = s[i]
    BY Appended
  <1>2. L \in Nat
    OBVIOUS
  <1>3. \A i \in 1..(L + 1) : Before(new, i) = Before(old, i)
    BY BeforeAppend
  <1>4. Before(old, L + 1) = old
    BY BeforeEnd
  <1>5. Before(new, L + 2) = new
    <2>1. Before(new, Len(u) + 1) = new
      BY <1>1, BeforeEnd
    <2>2. Len(u) + 1 = L + 2
      BY <1>1, <1>2
    <2> QED
      BY <2>1, <2>2
  <1>6. new = old \cup (IF x.t = "altmeta" THEN {L + 1} ELSE {})
    BY PositionsAppend
  <1>7. old \subseteq 1..L
    BY PositionsBound
  <1> HIDE DEF u, L, old, new
  <1>8. \A i \in 1..(L + 1) : AltOwn(u, a, i) = AltOwn(s, a, i)
    <2>1. \A i : Before(old, i) \subseteq 1..L
      BY <1>7 DEF Before
    <2> QED
      BY <2>1, <1>1, <1>3 DEF AltOwn, old, new
  <1>9. \A i : AltOwn(s, a, i) # {} => u[Max(AltOwn(s, a, i))] = s[Max(AltOwn(s, a, i))]
    <2>1. TAKE i
    <2>2. HAVE AltOwn(s, a, i) # {}
    <2>3. AltOwn(s, a, i) \subseteq 1..L
      BY <1>7 DEF AltOwn, Before, old
    <2>4. Max(AltOwn(s, a, i)) \in 1..L
      BY <1>2, <2>2, <2>3, MaxIsGreatest
    <2> QED
      BY <1>1, <2>4
  <1>10. ASSUME x.t = "altmeta", x.n = a
         PROVE  u[Max(AltOwn(u, a, L + 2))] = x
    <2>1. L + 1 \in new /\ new \subseteq Int /\ \A y \in new : y <= L + 1
      BY <1>10, <1>2, <1>6, <1>7
    <2>2. /\ L + 1 \in AltOwn(u, a, L + 2)
          /\ AltOwn(u, a, L + 2) \subseteq new
      BY <1>1, <1>5, <1>10, <2>1 DEF AltOwn, new
    <2>3. Max(AltOwn(u, a, L + 2)) = L + 1
      <3>1. /\ AltOwn(u, a, L + 2) \subseteq Int
            /\ \A y \in AltOwn(u, a, L + 2) : y <= L + 1
        BY <2>1, <2>2
      <3> QED
        BY <3>1, <2>2, MaxIs
    <2> QED
      BY <1>1, <2>3
  <1>11. ASSUME ~(x.t = "altmeta" /\ x.n = a)
         PROVE  AltOwn(u, a, L + 2) = AltOwn(s, a, L + 1)
    <2>1. \A j : j \in AltOwn(u, a, L + 2) <=> j \in new /\ u[j].n = a
      BY <1>5 DEF AltOwn, new
    <2>2. \A j : j \in AltOwn(s, a, L + 1) <=> j \in old /\ s[j].n = a
      BY <1>4 DEF AltOwn, old
    <2>3. \A j \in old : j \in new /\ u[j] = s[j]
      BY <1>1, <1>6, <1>7
    <2>4. \A j \in new : j \in old \/ (j = L + 1 /\ x.t = "altmeta")
      BY <1>6
    <2>5. \A j : j \in AltOwn(u, a, L + 2) <=> j \in AltOwn(s, a, L + 1)
      BY <2>1, <2>2, <2>3, <2>4, <1>1, <1>11
    <2> QED
      BY <2>5
  <1> QED
    BY <1>8, <1>9, <1>10, <1>11 DEF u, L

-----------------------------------------------------------------------------
(* The inductive invariant: TypeInv, ItemInv, ContextInv, FirstErrorInv, ToldInv,
   ColumnsInv and ItemsInv. *)

\* What a poll of the token stream may leave behind.
PollItem == [t : Types \cup {"nothing", "end", "err"},
             m : Metas \cup DoneStatus \cup {NoMeta}, n : Nat]

\* An item in the application's hands.
Handed == [t : Types \cup {"affected"}, cols : Metas \cup {NoMeta}, idx : Int,
           data : (Metas \cup DoneStatus \cup {NoMeta}) \X Nat]

TypeInv ==
    /\ lastMeta \in Metas \cup {NoMeta}
    /\ altMetas \in [AltIds -> Metas \cup {NoMeta}]
    /\ read \in Seq(Token)
    /\ lastError \in Nat
    /\ live \in BOOLEAN
    /\ item \in PollItem
    /\ item.t = "nothing" => item = Nothing
    /\ kind \in Streams \cup Folds
    /\ columns \in Metas \cup {NoMeta}
    /\ index \in Int
    /\ got \in Seq(Handed)
    /\ told \subseteq Nat
    /\ ended \in BOOLEAN

\* The item kept is the last token read; a row has its position in n.
ItemInv ==
    /\ IsToken(item) => Len(read) > 0 /\ item = read[Len(read)]
    /\ \A i \in 1..Len(read) : /\ read[i].t = "meta" => read[i].m \in Metas
                               /\ read[i].t = "row" => read[i].n = i

\* The Context holds the last metadata of the response, once there is any.
ContextInv ==
    /\ OwnColumns(read, Len(read) + 1) # NoMeta =>
          lastMeta = OwnColumns(read, Len(read) + 1)
    /\ \A a \in AltIds :
          AltOwn(read, a, Len(read) + 1) # {} =>
             altMetas[a] = read[Max(AltOwn(read, a, Len(read) + 1))].m
    /\ DecodedWithOwnMetadata

\* last_error is the first error read, or there is none.
FirstErrorInv ==
    LET errors == Positions(read, "error")
    IN /\ lastError = IF errors = {} THEN NoError ELSE read[Min(errors)].n
       /\ \A i \in errors : read[i].n \in ServerErrors

\* An error is on its way to the application or has been told.
ToldInv ==
    /\ item.t = "err" => item.n = Protocol \/ (item.n = lastError /\ lastError # NoError)
    /\ item.t \in {"err", "end"} => ~live
    /\ \A e \in told : e = Protocol \/ (e = lastError /\ lastError # NoError)
    /\ (~live /\ item.t # "err") =>
          lastError = NoError \/ Protocol \in told \/ lastError \in told
    /\ (ended \/ outcome = "ok") => ~live /\ item.t \in {"nothing", "end"}

\* The columns of the consumer are those of the tokens taken, unless columns()
\* has looked ahead.
ColumnsInv ==
    /\ pc \in {"forward", "columns"} => kind = "query"
    /\ pc \in {"open", "forward", "columns", "next", "collect"} => kind \in Streams
    /\ pc = "fold" => kind \in Folds
    /\ kind \in Streams =>
          \/ columns = OwnColumns(Taken, Len(Taken) + 1)
          \/ item.t = "meta" /\ columns = item.m
    /\ pc = "forward" => columns = NoMeta

\* The items g tell what the tokens s say, and idx numbers their result sets.
Delivered(s, g, idx) ==
    /\ idx = Cardinality(Positions(s, "meta")) - 1
    /\ Len(g) = Cardinality(OwedPositions(s))
    /\ \A i \in OwedPositions(s) :
          Tells(g[Cardinality(Before(OwedPositions(s), i)) + 1], s, i)

\* Every position owed has been handed out, at its own place.
ItemsInv == kind \in Streams => Delivered(Taken, got, index)

-----------------------------------------------------------------------------
(* Types *)

\* The tokens a server sends are tokens, and items of a poll.
LEMMA TokenTypes ==
    /\ Tokens \subseteq Token
    /\ Token \subseteq PollItem
    /\ ServerErrors \subseteq Nat
    /\ \A x \in Token : x.t \in Types /\ x.m \in Metas \cup DoneStatus \cup {NoMeta} /\ x.n \in Nat
    /\ \A x \in PollItem : x.m \in Metas \cup DoneStatus \cup {NoMeta} /\ x.n \in Nat
    /\ \A x \in PollItem : IsToken(x) => x \in Token
  <1>1. Tokens \subseteq Token
    BY TokensAssumption
  <1>2. Token \subseteq PollItem
    BY DEF Token, PollItem
  <1>3. ServerErrors \subseteq Nat
    BY <1>1 DEF ServerErrors, Token
  <1>4. \A x \in Token : x.t \in Types /\ x.m \in Metas \cup DoneStatus \cup {NoMeta} /\ x.n \in Nat
    BY DEF Token
  <1>5. \A x \in PollItem : x.m \in Metas \cup DoneStatus \cup {NoMeta} /\ x.n \in Nat
    BY DEF PollItem
  <1>6. \A x \in PollItem : IsToken(x) => x \in Token
    BY DEF PollItem, Token, IsToken
  <1> QED
    BY <1>1, <1>2, <1>3, <1>4, <1>5, <1>6

\* What is not a token.
LEMMA NotTokens ==
    /\ Nothing \in PollItem /\ Nothing.t = "nothing" /\ ~IsToken(Nothing)
    /\ End \in PollItem /\ End.t = "end" /\ ~IsToken(End)
    /\ \A e \in Nat : Err(e) \in PollItem
    /\ \A e : Err(e).t = "err" /\ Err(e).n = e /\ ~IsToken(Err(e))
    /\ \A x : IsToken(x) => x.t \notin {"nothing", "end", "err"}
  <1>1. Nothing \in PollItem /\ Nothing.t = "nothing"
    BY DEF PollItem, Nothing
  <1>2. End \in PollItem /\ End.t = "end"
    BY DEF PollItem, End
  <1>3. \A e \in Nat : Err(e) \in PollItem
    BY DEF PollItem, Err
  <1>4. \A e : Err(e).t = "err" /\ Err(e).n = e
    BY DEF Err
  <1>5. \A x : IsToken(x) => x.t \notin {"nothing", "end", "err"}
    BY DEF IsToken, Types
  <1> QED
    BY <1>1, <1>2, <1>3, <1>4, <1>5

\* How a poll of the token stream ends: with a token, or without one.
Decodes(tk) == DecodePlain(tk) \/ (DecodeRow(tk) /\ MetaOf(tk) # NoMeta)
NoToken ==
    /\ \/ item' = Err(Protocol) /\ live /\ live' = FALSE
       \/ item' = EndItem /\ live /\ live' = FALSE
       \/ item' = End /\ ~live /\ UNCHANGED live
    /\ UNCHANGED <<context, read, lastError>>

\* A poll decodes a token or meets the end of the stream.
LEMMA UnfoldCases ==
    ASSUME Unfold
    PROVE  /\ item = Nothing /\ pc \in Reading
           /\ UNCHANGED <<calls, pc, kind, stream, history, acc, outcome>>
           /\ (live /\ \E tk \in Tokens : Decodes(tk)) \/ NoToken
  <1>1. /\ item = Nothing /\ pc \in Reading
        /\ UNCHANGED <<calls, pc, kind, stream, history, acc, outcome>>
    BY DEF Unfold
  <1>2. CASE live /\ \E tk \in Tokens : DecodePlain(tk)
    BY <1>1, <1>2 DEF Decodes
  <1>3. CASE live /\ \E tk \in Tokens : DecodeRow(tk)
    <2>1. PICK tk \in Tokens : DecodeRow(tk)
      BY <1>3
    <2>2. CASE MetaOf(tk) = NoMeta
      BY <1>1, <1>3, <2>1, <2>2 DEF DecodeRow, NoToken
    <2>3. CASE MetaOf(tk) # NoMeta
      BY <1>1, <1>3, <2>1, <2>3 DEF Decodes
    <2> QED
      BY <2>2, <2>3
  <1>4. CASE live /\ (AtEof \/ ReadFails)
    BY <1>1, <1>4 DEF AtEof, ReadFails, NoToken
  <1>5. CASE Fused
    BY <1>1, <1>5 DEF Fused, NoToken, tokenStream
  <1> QED
    BY <1>2, <1>3, <1>4, <1>5 DEF Unfold

\* The token a poll decodes: read is extended by it, with the metadata of the
\* Context if it is a row.
LEMMA DecodedToken ==
    ASSUME TypeInv, NEW tk \in Tokens, Decodes(tk)
    PROVE  /\ item' \in Token /\ read' = Append(read, item') /\ UNCHANGED live
           /\ item'.t = tk.t
           /\ tk.t \notin {"row", "altrow"} => item' = tk /\ SetContext(tk) /\ KeepError(tk)
           /\ tk.t \in {"row", "altrow"} => UNCHANGED <<context, lastError>>
           /\ tk.t = "row" => item'.m = lastMeta /\ item'.n = Len(read) + 1
           /\ tk.t = "altrow" => item'.m = altMetas[tk.n] /\ item'.n = tk.n /\ tk.n \in AltIds
           /\ tk.t = "altmeta" => tk.n \in AltIds
           /\ tk.t = "meta" => tk.m \in Metas
           /\ tk.t = "error" => tk.n \in ServerErrors
  <1>1. tk \in Token /\ tk.t \in Types
    BY TokenTypes
  <1>2. /\ tk.t \in {"meta", "altmeta"} => tk.m \in Metas
        /\ tk.t \in {"altmeta", "altrow"} => tk.n \in AltIds
    BY TokensAssumption
  <1>3. tk.t = "error" => tk.n \in ServerErrors
    BY DEF ServerErrors
  <1>4. CASE DecodePlain(tk)
    BY <1>1, <1>2, <1>3, <1>4 DEF DecodePlain
  <1>5. CASE DecodeRow(tk) /\ MetaOf(tk) # NoMeta
    <2> DEFINE decoded == [t |-> tk.t, m |-> MetaOf(tk),
                           n |-> IF tk.t = "row" THEN Len(read) + 1 ELSE tk.n]
    <2>1. tk.t \in {"row", "altrow"} /\ UNCHANGED <<context, lastError>>
      BY <1>5 DEF DecodeRow
    <2>2. item' = decoded /\ read' = Append(read, decoded) /\ UNCHANGED live
      BY <1>5 DEF DecodeRow
    <2>3. MetaOf(tk) \in Metas \cup {NoMeta}
      BY <1>2, <2>1 DEF MetaOf, TypeInv
    <2>4. tk.n \in Nat /\ Len(read) \in Nat
      BY <1>1, TokenTypes DEF TypeInv
    <2>5. decoded \in Token
      BY <1>1, <2>3, <2>4 DEF Token
    <2> QED
      BY <1>2, <2>1, <2>2, <2>5 DEF MetaOf
  <1> QED
    BY <1>4, <1>5 DEF Decodes

\* A fresh stream.
LEMMA FreshStep ==
    ASSUME Fresh
    PROVE  /\ read' = <<>> /\ lastError' = NoError /\ item' = Nothing
           /\ columns' = NoMeta /\ index' = -1 /\ got' = <<>>
           /\ told' = {} /\ ended' = FALSE /\ outcome' = "none"
  BY DEF Fresh, NoIndex

\* The steps that begin or drop a stream, the poll of the token stream, and the
\* ones that only consume: these change no token read.
Consumes ==
    \/ ForwardToMetadata \/ Columns \/ PollNext \/ FoldStep
    \/ \E what \in {"columns", "next", "collect"} : Ask(what)
    \/ GiveUp
LEMMA NextCases ==
    ASSUME [Next]_vars
    PROVE  \/ \E k \in Streams \cup Folds : Call(k)
           \/ DropStream
           \/ Unfold
           \/ Consumes
           \/ UNCHANGED vars
  BY DEF Next, Consumes

\* A consumer leaves the token stream alone, and the item is kept or taken.
LEMMA ConsumesReads ==
    ASSUME TypeInv, Consumes
    PROVE  /\ UNCHANGED tokenStream /\ UNCHANGED kind
           /\ item' = item \/ item' = Nothing
  <1>1. CASE ForwardToMetadata
    BY <1>1 DEF ForwardToMetadata
  <1>2. CASE Columns
    BY <1>2 DEF Columns
  <1>3. CASE PollNext
    BY <1>3 DEF PollNext
  <1>4. CASE FoldStep
    BY <1>4 DEF FoldStep
  <1>5. CASE \E what \in {"columns", "next", "collect"} : Ask(what)
    BY <1>5 DEF Ask
  <1>6. CASE GiveUp
    BY <1>6 DEF GiveUp
  <1> QED
    BY <1>1, <1>2, <1>3, <1>4, <1>5, <1>6 DEF Consumes

\* The item made of a token has its type.
LEMMA ItemType ==
    ASSUME TypeInv, ItemInv, IsToken(item)
    PROVE  Item(item) \in Handed
  <1>1. /\ item.t \in Types /\ item.m \in Metas \cup DoneStatus \cup {NoMeta}
        /\ item.n \in Nat
    BY TokenTypes DEF TypeInv, IsToken
  <1>2. item.t = "meta" => item.m \in Metas
    <2>1. Len(read) > 0 /\ item = read[Len(read)] /\ Len(read) \in Nat
      BY DEF ItemInv, TypeInv
    <2>2. Len(read) \in 1..Len(read)
      BY <2>1
    <2> QED
      BY <2>1, <2>2 DEF ItemInv
  <1>3. columns \in Metas \cup {NoMeta} /\ index \in Int
    BY DEF TypeInv
  <1>4. Item(item).t \in Types \cup {"affected"}
    BY <1>1 DEF Item
  <1>5. Item(item).cols \in Metas \cup {NoMeta}
    BY <1>2, <1>3 DEF Item
  <1>6. Item(item).idx \in Int
    BY <1>3 DEF Item, NextIndex, NoIndex
  <1>7. Item(item).data \in (Metas \cup DoneStatus \cup {NoMeta}) \X Nat
    <2>1. Rows(item) \in Nat
      BY <1>1 DEF Rows
    <2> QED
      BY <1>1, <2>1 DEF Item
  <1>8. Item(item) = [t |-> Item(item).t, cols |-> Item(item).cols,
                      idx |-> Item(item).idx, data |-> Item(item).data]
    BY DEF Item
  <1> QED
    BY <1>4, <1>5, <1>6, <1>7, <1>8 DEF Handed

\* How poll_next deals with the item.
PollCase ==
    \/ item.t = "err" /\ PollFails(item.n)
    \/ item.t = "end" /\ PollEnds
    \/ IsToken(item) /\ Yields(item) /\ PollYields
    \/ item.t = "row" /\ ~Yields(item) /\ PollFails(Protocol)
    \/ /\ IsToken(item) /\ ~Yields(item) /\ item.t # "row"
       /\ UNCHANGED <<pc, stream, got, told, ended, acc, outcome>>
LEMMA PollCases ==
    ASSUME TypeInv, PollNext
    PROVE  /\ pc \in {"next", "collect"} /\ item # Nothing /\ item' = Nothing
           /\ item.t # "nothing"
           /\ UNCHANGED <<tokenStream, calls, kind, start, answer>>
           /\ PollCase
  <1>1. /\ pc \in {"next", "collect"} /\ item # Nothing /\ item' = Nothing
        /\ UNCHANGED <<tokenStream, calls, kind, start, answer>>
    BY DEF PollNext
  <1>2. item.t \in Types \cup {"end", "err"} /\ item.t # "nothing"
    BY <1>1 DEF TypeInv, PollItem
  <1>3. CASE item.t = "err"
    BY <1>1, <1>2, <1>3 DEF PollNext, PollCase, Yields, CountsRows
  <1>4. CASE item.t = "end"
    BY <1>1, <1>2, <1>4 DEF PollNext, PollCase, Yields, CountsRows
  <1>5. CASE IsToken(item)
    <2>1. item.t # "err" /\ item.t # "end"
      BY <1>5, NotTokens
    <2>2. CASE Yields(item)
      BY <1>1, <1>2, <1>5, <2>1, <2>2 DEF PollNext, PollCase
    <2>3. CASE ~Yields(item) /\ item.t = "row"
      BY <1>1, <1>2, <1>5, <2>1, <2>3 DEF PollNext, PollCase
    <2>4. CASE ~Yields(item) /\ item.t # "row"
      BY <1>1, <1>2, <1>5, <2>1, <2>4 DEF PollNext, PollCase
    <2> QED
      BY <2>2, <2>3, <2>4
  <1> QED
    BY <1>2, <1>3, <1>4, <1>5 DEF IsToken

\* How a fold deals with the item.
LEMMA FoldCases ==
    ASSUME TypeInv, FoldStep
    PROVE  /\ pc = "fold" /\ item' = Nothing /\ item.t # "nothing"
           /\ UNCHANGED <<tokenStream, calls, kind, stream, got, start, ended, answer>>
           /\ \/ /\ item.t = "err" /\ pc' = "idle" /\ outcome' = "err"
                 /\ told' = told \cup {item.n}
              \/ item.t = "end" /\ FoldEnds
              \/ IsToken(item) /\ UNCHANGED <<pc, outcome, told>>
  <1>1. /\ pc = "fold" /\ item' = Nothing /\ item # Nothing
        /\ UNCHANGED <<tokenStream, calls, kind, stream, got, start, ended, answer>>
    BY DEF FoldStep
  <1>2. item.t \in Types \cup {"end", "err"} /\ item.t # "nothing"
    BY <1>1 DEF TypeInv, PollItem
  <1>3. CASE item.t = "err"
    BY <1>1, <1>2, <1>3 DEF FoldStep
  <1>4. CASE item.t = "end"
    BY <1>1, <1>2, <1>4 DEF FoldStep
  <1>5. CASE IsToken(item)
    <2>1. item.t # "err" /\ item.t # "end"
      BY <1>5, NotTokens
    <2> QED
      BY <1>1, <1>2, <1>5, <2>1 DEF FoldStep
  <1> QED
    BY <1>2, <1>3, <1>4, <1>5 DEF IsToken

\* Everything starts as it should.
LEMMA TypeInit ==
    ASSUME Init
    PROVE  TypeInv
  <1>1. <<>> \in Seq(Token) /\ <<>> \in Seq(Handed)
    OBVIOUS
  <1>2. {} \subseteq Nat /\ FALSE \in BOOLEAN
    OBVIOUS
  <1>3. [i \in AltIds |-> NoMeta] \in [AltIds -> Metas \cup {NoMeta}]
    OBVIOUS
  <1>4. "query" \in Streams \cup Folds /\ NoIndex \in Int /\ NoError \in Nat
    BY DEF Streams, NoIndex, NoError
  <1> QED
    BY <1>1, <1>2, <1>3, <1>4, NotTokens, Zenon DEF Init, TypeInv

\* Beginning or dropping a stream keeps the types.
LEMMA TypeFresh ==
    ASSUME TypeInv, Fresh, UNCHANGED context, live' \in BOOLEAN,
           kind' \in Streams \cup Folds
    PROVE  TypeInv'
  <1>1. <<>> \in Seq(Token) /\ <<>> \in Seq(Handed)
    OBVIOUS
  <1>2. {} \subseteq Nat /\ FALSE \in BOOLEAN /\ -1 \in Int /\ NoError \in Nat
    BY DEF NoError
  <1>3. /\ lastMeta' \in Metas \cup {NoMeta}
        /\ altMetas' \in [AltIds -> Metas \cup {NoMeta}]
    BY DEF TypeInv, context
  <1> QED
    BY <1>1, <1>2, <1>3, FreshStep, NotTokens, Zenon DEF TypeInv

\* A poll of the token stream keeps the types.
LEMMA TypeUnfold ==
    ASSUME TypeInv, Unfold
    PROVE  TypeInv'
  <1>1. /\ kind' \in Streams \cup Folds /\ columns' \in Metas \cup {NoMeta}
        /\ index' \in Int /\ got' \in Seq(Handed) /\ told' \subseteq Nat
        /\ ended' \in BOOLEAN
    <2>1. UNCHANGED <<kind, columns, index, got, told, ended>>
      BY UnfoldCases DEF stream, history
    <2> QED
      BY <2>1 DEF TypeInv
  <1>2. ASSUME NEW tk \in Tokens, Decodes(tk)
        PROVE  TypeInv'
    <2>1. item' \in PollItem /\ read' \in Seq(Token) /\ item'.t # "nothing"
      <3>1. item' \in Token /\ read' = Append(read, item')
        BY <1>2, DecodedToken
      <3>2. item'.t \in Types
        BY <3>1, TokenTypes
      <3> QED
        BY <3>1, <3>2, TokenTypes DEF Types, TypeInv
    <2>2. live' \in BOOLEAN
      <3>1. UNCHANGED live
        BY <1>2, DecodedToken
      <3> QED
        BY <3>1 DEF TypeInv
    <2>3. lastMeta' \in Metas \cup {NoMeta}
      BY <1>2, DecodedToken DEF SetContext, TypeInv, context
    <2>4. altMetas' \in [AltIds -> Metas \cup {NoMeta}]
      <3>1. CASE tk.t \in {"row", "altrow"}
        BY <1>2, <3>1, DecodedToken DEF TypeInv, context
      <3>2. CASE tk.t \notin {"row", "altrow"}
        <4>1. SetContext(tk)
          BY <1>2, <3>2, DecodedToken
        <4>2. tk.t = "altmeta" => tk.m \in Metas
          BY TokensAssumption
        <4> QED
          BY <4>1, <4>2 DEF SetContext, TypeInv
      <3> QED
        BY <3>1, <3>2
    <2>5. lastError' \in Nat
      <3>1. lastError' = lastError \/ lastError' = tk.n
        BY <1>2, DecodedToken DEF KeepError
      <3>2. tk.n \in Nat
        BY TokenTypes
      <3> QED
        BY <3>1, <3>2 DEF TypeInv
    <2> QED
      BY <1>1, <2>1, <2>2, <2>3, <2>4, <2>5 DEF TypeInv
  <1>3. ASSUME NoToken
        PROVE  TypeInv'
    <2>1. item' \in PollItem /\ item'.t # "nothing"
      <3>1. EndItem \in PollItem /\ EndItem.t # "nothing"
        BY NotTokens DEF EndItem, TypeInv
      <3>2. Protocol \in Nat
        BY DEF Protocol
      <3> QED
        BY <1>3, <3>1, <3>2, NotTokens DEF NoToken
    <2>2. live' \in BOOLEAN
      BY <1>3, Zenon DEF NoToken, TypeInv
    <2>3. UNCHANGED <<lastMeta, altMetas, read, lastError>>
      BY <1>3 DEF NoToken, context
    <2> QED
      BY <1>1, <2>1, <2>2, <2>3 DEF TypeInv
  <1> QED
    BY <1>2, <1>3, UnfoldCases

\* So does a consumer.
LEMMA TypeConsumes ==
    ASSUME TypeInv, ItemInv, Consumes
    PROVE  TypeInv'
  <1>1. /\ lastMeta' \in Metas \cup {NoMeta}
        /\ altMetas' \in [AltIds -> Metas \cup {NoMeta}]
        /\ read' \in Seq(Token) /\ lastError' \in Nat /\ live' \in BOOLEAN
        /\ kind' \in Streams \cup Folds
    BY ConsumesReads, Zenon DEF TypeInv, tokenStream, context
  <1>2. item' \in PollItem /\ (item'.t = "nothing" => item' = Nothing)
    BY ConsumesReads, NotTokens DEF TypeInv
  <1>3. item.n \in Nat /\ Protocol \in Nat
    BY TokenTypes DEF TypeInv, Protocol
  <1>4. item.t = "meta" => item.m \in Metas
    <2>1. SUFFICES ASSUME item.t = "meta" PROVE item.m \in Metas
      OBVIOUS
    <2>2. IsToken(item)
      BY <2>1 DEF IsToken, Types
    <2>3. Len(read) > 0 /\ item = read[Len(read)] /\ Len(read) \in Nat
      BY <2>2 DEF ItemInv, TypeInv
    <2>4. Len(read) \in 1..Len(read)
      BY <2>3
    <2> QED
      BY <2>1, <2>3, <2>4 DEF ItemInv
  <1>5. columns' \in Metas \cup {NoMeta} /\ index' \in Int
    <2>1. columns \in Metas \cup {NoMeta} /\ index \in Int /\ NextIndex \in Int
      BY DEF TypeInv, NextIndex, NoIndex
    <2>2. CASE PollNext
      <3>1. UNCHANGED <<columns, index>> \/ PollYields
        BY <2>2, PollCases DEF PollCase, PollFails, PollEnds, stream
      <3> QED
        BY <3>1, <2>1, <1>4 DEF PollYields
    <2>3. CASE Columns
      BY <2>1, <2>3, <1>4 DEF Columns, Peeked
    <2>4. CASE ~PollNext /\ ~Columns
      <3>1. UNCHANGED <<columns, index>>
        BY <2>4 DEF Consumes, ForwardToMetadata, FoldStep, Ask, GiveUp, stream
      <3> QED
        BY <3>1, <2>1
    <2> QED
      BY <2>2, <2>3, <2>4
  <1>6. got' \in Seq(Handed)
    <2>1. CASE PollNext
      <3>1. UNCHANGED got \/ (IsToken(item) /\ PollYields)
        BY <2>1, PollCases DEF PollCase, PollFails, PollEnds
      <3>2. CASE UNCHANGED got
        BY <3>2 DEF TypeInv
      <3>3. CASE IsToken(item) /\ PollYields
        <4>1. Item(item) \in Handed /\ got' = Append(got, Item(item))
          BY <3>3, ItemType DEF PollYields
        <4> HIDE DEF Item
        <4> QED
          BY <4>1 DEF TypeInv
      <3> QED
        BY <3>1, <3>2, <3>3
    <2>2. CASE ~PollNext
      <3>1. UNCHANGED got
        BY <2>2 DEF Consumes, ForwardToMetadata, Columns, FoldStep, Ask, GiveUp, history
      <3> QED
        BY <3>1 DEF TypeInv
    <2> QED
      BY <2>1, <2>2
  <1>7. told' \subseteq Nat
    <2>1. told' = told \/ told' = told \cup {item.n} \/ told' = told \cup {Protocol}
      <3>1. CASE ForwardToMetadata
        BY <3>1 DEF ForwardToMetadata
      <3>2. CASE PollNext
        BY <3>2, PollCases DEF PollCase, PollFails, PollEnds, PollYields
      <3>3. CASE FoldStep
        BY <3>3, FoldCases DEF FoldEnds
      <3>4. CASE ~ForwardToMetadata /\ ~PollNext /\ ~FoldStep
        BY <3>4 DEF Consumes, Columns, Ask, GiveUp, history
      <3> QED
        BY <3>1, <3>2, <3>3, <3>4
    <2> QED
      BY <2>1, <1>3 DEF TypeInv
  <1>8. ended' \in BOOLEAN
    <2>1. ended' = ended \/ ended' = TRUE
      <3>1. CASE PollNext
        BY <3>1, PollCases, Zenon DEF PollCase, PollFails, PollEnds, PollYields
      <3>2. CASE ~PollNext
        BY <3>2, Zenon DEF Consumes, ForwardToMetadata, Columns, FoldStep, Ask, GiveUp, history
      <3> QED
        BY <3>1, <3>2
    <2> QED
      BY <2>1 DEF TypeInv
  <1> QED
    BY <1>1, <1>2, <1>5, <1>6, <1>7, <1>8 DEF TypeInv

\* A step begins or drops a stream with nothing read.
LEMMA FreshCases ==
    ASSUME TypeInv, (\E k \in Streams \cup Folds : Call(k)) \/ DropStream
    PROVE  Fresh /\ UNCHANGED context /\ live' \in BOOLEAN /\ kind' \in Streams \cup Folds
  <1>1. ASSUME NEW k \in Streams \cup Folds, Call(k)
        PROVE  Fresh /\ UNCHANGED context /\ live' \in BOOLEAN /\ kind' \in Streams \cup Folds
    BY <1>1 DEF Call
  <1>2. CASE DropStream
    BY <1>2 DEF DropStream, TypeInv
  <1> QED
    BY <1>1, <1>2

-----------------------------------------------------------------------------
(* The item, the Context and the first error *)

\* Nothing has been read of a fresh response.
LEMMA NothingRead ==
    ASSUME NEW type, NEW i, NEW a
    PROVE  /\ Positions(<<>>, type) = {} /\ Before(Positions(<<>>, type), i) = {}
           /\ OwnColumns(<<>>, i) = NoMeta /\ AltOwn(<<>>, a, i) = {}
           /\ 1..Len(<<>>) = {}
  <1>1. 1..Len(<<>>) = {}
    OBVIOUS
  <1>2. \A x : Positions(<<>>, x) = {}
    BY <1>1 DEF Positions
  <1>3. \A x : Before(Positions(<<>>, x), i) = {}
    BY <1>2 DEF Before
  <1> QED
    BY <1>1, <1>2, <1>3 DEF OwnColumns, AltOwn

\* What has been read of a response, with the Context it leaves.
ReadInv == ItemInv /\ ContextInv /\ FirstErrorInv

\* The invariant holds before a response is read.
LEMMA ReadFresh ==
    ASSUME read' = <<>>, item' = Nothing, lastError' = NoError
    PROVE  ReadInv'
  <1>1. ItemInv'
    BY NotTokens, NothingRead DEF ItemInv
  <1>2. ContextInv'
    BY NothingRead DEF ContextInv, DecodedWithOwnMetadata
  <1>3. FirstErrorInv'
    BY NothingRead DEF FirstErrorInv
  <1> QED
    BY <1>1, <1>2, <1>3 DEF ReadInv

\* A step that reads no token.
LEMMA ReadSame ==
    ASSUME ReadInv, UNCHANGED <<context, read, lastError>>,
           item' = item \/ ~IsToken(item')
    PROVE  ReadInv'
  <1>1. ItemInv'
    <2>1. UNCHANGED read
      OBVIOUS
    <2>2. IsToken(item)' => IsToken(item) /\ item' = item
      BY DEF IsToken
    <2> QED
      BY <2>1, <2>2 DEF ReadInv, ItemInv
  <1>2. ContextInv'
    BY DEF ReadInv, ContextInv, DecodedWithOwnMetadata, context
  <1>3. FirstErrorInv'
    BY DEF ReadInv, FirstErrorInv
  <1> QED
    BY <1>1, <1>2, <1>3 DEF ReadInv

\* The token added is the item, and a row has its position.
LEMMA ItemDecodes ==
    ASSUME TypeInv, ReadInv, NEW tk \in Tokens, Decodes(tk)
    PROVE  ItemInv'
  <1> DEFINE L == Len(read)
             x == item'
             u == Append(read, x)
  <1>1. /\ read' = u /\ x \in Token /\ x.t = tk.t
        /\ tk.t = "meta" => x.m \in Metas
        /\ tk.t = "row" => x.n = L + 1
    BY DecodedToken
  <1>2. read \in Seq(Token) /\ L \in Nat
    BY DEF TypeInv
  <1>3. /\ Len(u) = L + 1 /\ u[L + 1] = x
        /\ \A i \in 1..L : u[i] = read[i]
    BY <1>1, <1>2, Appended
  <1>4. \A i \in 1..L : /\ read[i].t = "meta" => read[i].m \in Metas
                        /\ read[i].t = "row" => read[i].n = i
    BY DEF ReadInv, ItemInv
  <1> HIDE DEF L, u
  <1>5. Len(u) > 0 /\ x = u[Len(u)]
    BY <1>2, <1>3
  <1>6. \A i \in 1..Len(u) : /\ u[i].t = "meta" => u[i].m \in Metas
                             /\ u[i].t = "row" => u[i].n = i
    <2>1. TAKE i \in 1..Len(u)
    <2>2. CASE i \in 1..L
      BY <2>2, <1>3, <1>4
    <2>3. CASE i = L + 1
      BY <2>3, <1>1, <1>3
    <2> QED
      BY <2>2, <2>3, <1>2, <1>3
  <1> HIDE DEF x
  <1>7. read' = u /\ item' = x
    BY <1>1 DEF x
  <1> QED
    BY <1>5, <1>6, <1>7 DEF ItemInv

\* The Context after the token is that of the longer response.
LEMMA ContextDecodes ==
    ASSUME TypeInv, ReadInv, NEW tk \in Tokens, Decodes(tk)
    PROVE  ContextInv'
  <1> DEFINE L == Len(read)
             x == item'
             u == Append(read, x)
  <1>1. /\ read' = u /\ x \in Token /\ x.t = tk.t
    BY DecodedToken
  <1>2. read \in Seq(Token) /\ L \in Nat
    BY DEF TypeInv
  <1>3. /\ Len(u) = L + 1 /\ u[L + 1] = x
        /\ \A i \in 1..L : u[i] = read[i]
    BY <1>1, <1>2, Appended
  <1>4. /\ \A i \in 1..(L + 1) : OwnColumns(u, i) = OwnColumns(read, i)
        /\ OwnColumns(u, L + 2) = IF x.t = "meta" THEN x.m ELSE OwnColumns(read, L + 1)
    BY <1>1, <1>2, ColumnsAppend
  <1>5. \A a : \A i \in 1..(L + 1) :
                 /\ AltOwn(u, a, i) = AltOwn(read, a, i)
                 /\ AltOwn(read, a, i) # {} =>
                      u[Max(AltOwn(read, a, i))] = read[Max(AltOwn(read, a, i))]
    <2>1. TAKE a
    <2>2. x \in Token /\ read \in Seq(Token)
      BY <1>1, <1>2
    <2> HIDE DEF x
    <2> QED
      BY <2>2, AltAppend
  <1>6. \A a : /\ (x.t = "altmeta" /\ x.n = a) => u[Max(AltOwn(u, a, L + 2))] = x
               /\ ~(x.t = "altmeta" /\ x.n = a) =>
                     AltOwn(u, a, L + 2) = AltOwn(read, a, L + 1)
    BY <1>1, <1>2, AltAppend
  <1>7. L + 1 \in 1..(L + 1) /\ Len(u) + 1 = L + 2 /\ 1..Len(u) = 1..L \cup {L + 1}
    BY <1>2, <1>3
  <1>8. /\ OwnColumns(read, L + 1) # NoMeta => lastMeta = OwnColumns(read, L + 1)
        /\ \A a \in AltIds :
              AltOwn(read, a, L + 1) # {} =>
                altMetas[a] = read[Max(AltOwn(read, a, L + 1))].m
        /\ DecodedWithOwnMetadata
    BY DEF ReadInv, ContextInv
  <1>9. /\ tk.t \in {"row", "altrow"} => UNCHANGED <<lastMeta, altMetas>>
        /\ tk.t = "row" => x.m = lastMeta
        /\ tk.t = "altrow" => x.m = altMetas[tk.n] /\ x.n = tk.n /\ tk.n \in AltIds
    BY DecodedToken DEF context
  <1>10. tk.t \notin {"row", "altrow"} =>
           /\ x = tk
           /\ lastMeta' = IF tk.t = "meta" THEN tk.m ELSE lastMeta
           /\ altMetas' = IF tk.t = "altmeta" THEN [altMetas EXCEPT ![tk.n] = tk.m]
                                              ELSE altMetas
    BY DecodedToken DEF SetContext
  <1>11. tk.t = "altmeta" => tk.n \in AltIds
    BY DecodedToken
  <1>12. altMetas \in [AltIds -> Metas \cup {NoMeta}]
    BY DEF TypeInv
  <1> HIDE DEF L, u, x
  <1>13. OwnColumns(u, Len(u) + 1) # NoMeta => lastMeta' = OwnColumns(u, Len(u) + 1)
    BY <1>1, <1>4, <1>7, <1>8, <1>9, <1>10
  <1>14. \A a \in AltIds :
            AltOwn(u, a, Len(u) + 1) # {} =>
              altMetas'[a] = u[Max(AltOwn(u, a, Len(u) + 1))].m
    <2>1. TAKE a \in AltIds
    <2>2. SUFFICES ASSUME AltOwn(u, a, L + 2) # {}
                   PROVE  altMetas'[a] = u[Max(AltOwn(u, a, L + 2))].m
      BY <1>7
    <2>3. CASE x.t = "altmeta" /\ x.n = a
      <3>1. u[Max(AltOwn(u, a, L + 2))] = x
        BY <2>3, <1>6
      <3>2. x = tk /\ altMetas' = [altMetas EXCEPT ![tk.n] = tk.m]
        BY <2>3, <1>1, <1>10
      <3>3. altMetas'[a] = x.m
        BY <3>2, <2>3, <1>12
      <3> QED
        BY <3>1, <3>3, <1>7
    <2>4. CASE ~(x.t = "altmeta" /\ x.n = a)
      <3>1. AltOwn(u, a, L + 2) = AltOwn(read, a, L + 1)
        BY <2>4, <1>6
      <3>2. u[Max(AltOwn(u, a, L + 2))] = read[Max(AltOwn(read, a, L + 1))]
        BY <3>1, <2>2, <1>5, <1>7
      <3>3. altMetas'[a] = altMetas[a]
        BY <2>4, <1>1, <1>9, <1>10, <1>11, <1>12
      <3> QED
        BY <3>1, <3>2, <3>3, <2>2, <1>7, <1>8
    <2> QED
      BY <2>3, <2>4
  <1>15. \A i \in 1..Len(u) :
            /\ (u[i].t = "row" /\ OwnColumns(u, i) # NoMeta) => u[i].m = OwnColumns(u, i)
            /\ (u[i].t = "altrow" /\ AltOwn(u, u[i].n, i) # {}) =>
                  u[i].m = u[Max(AltOwn(u, u[i].n, i))].m
    <2>1. TAKE i \in 1..Len(u)
    <2>2. CASE i \in 1..L
      <3>1. i \in 1..(L + 1)
        BY <2>2, <1>2
      <3>2. /\ (read[i].t = "row" /\ OwnColumns(read, i) # NoMeta)
                  => read[i].m = OwnColumns(read, i)
            /\ (read[i].t = "altrow" /\ AltOwn(read, read[i].n, i) # {})
                  => read[i].m = read[Max(AltOwn(read, read[i].n, i))].m
        BY <2>2, <1>8 DEF DecodedWithOwnMetadata, AltOwn, L
      <3>3. u[i] = read[i]
        BY <2>2, <1>3
      <3> QED
        BY <3>1, <3>2, <3>3, <1>4, <1>5
    <2>3. CASE i = L + 1
      <3>1. u[i] = x
        BY <2>3, <1>3
      <3>2. (x.t = "row" /\ OwnColumns(u, i) # NoMeta) => x.m = OwnColumns(u, i)
        BY <2>3, <1>1, <1>4, <1>7, <1>8, <1>9
      <3>3. ASSUME x.t = "altrow", AltOwn(u, x.n, i) # {}
            PROVE  x.m = u[Max(AltOwn(u, x.n, i))].m
        <4>1. x.n \in AltIds /\ x.m = altMetas[x.n]
          BY <3>3, <1>1, <1>9
        <4>2. /\ AltOwn(u, x.n, i) = AltOwn(read, x.n, i)
              /\ u[Max(AltOwn(u, x.n, i))] = read[Max(AltOwn(read, x.n, i))]
          BY <2>3, <3>3, <1>5, <1>7
        <4> QED
          BY <2>3, <3>3, <4>1, <4>2, <1>8
      <3> QED
        BY <3>1, <3>2, <3>3
    <2> QED
      BY <2>2, <2>3, <1>7
  <1>16. read' = u
    BY <1>1
  <1>17. DecodedWithOwnMetadata'
    BY <1>15, <1>16 DEF DecodedWithOwnMetadata, AltOwn
  <1> QED
    BY <1>13, <1>14, <1>16, <1>17 DEF ContextInv

\* An element below all the others is the Min.
LEMMA MinIs ==
    ASSUME NEW S, S \subseteq Int, NEW x \in S, \A y \in S : x <= y
    PROVE  Min(S) = x
  <1>1. Min(S) \in S /\ \A y \in S : Min(S) =< y
    BY DEF Min
  <1>2. Min(S) =< x /\ x =< Min(S)
    BY <1>1
  <1>3. Min(S) \in Int /\ x \in Int
    BY <1>1
  <1> QED
    BY <1>2, <1>3

\* A server's error is none of the values the stream uses for its own ends.
LEMMA ErrorCodes == NoError \notin ServerErrors /\ Protocol \notin ServerErrors
  BY TokensAssumption

\* The first error read stays the first.
LEMMA FirstErrorDecodes ==
    ASSUME TypeInv, ReadInv, NEW tk \in Tokens, Decodes(tk)
    PROVE  FirstErrorInv'
  <1> DEFINE L == Len(read)
             x == item'
             u == Append(read, x)
             old == Positions(read, "error")
             new == Positions(u, "error")
  <1>1. /\ read' = u /\ x \in Token /\ x.t = tk.t
    BY DecodedToken
  <1>2. read \in Seq(Token) /\ L \in Nat
    BY DEF TypeInv
  <1>3. /\ Len(u) = L + 1 /\ u[L + 1] = x
        /\ \A i \in 1..L : u[i] = read[i]
    BY <1>1, <1>2, Appended
  <1>4. new = old \cup (IF x.t = "error" THEN {L + 1} ELSE {})
    BY <1>1, <1>2, PositionsAppend
  <1>5. old \subseteq 1..L
    BY <1>2, PositionsBound
  <1>6. /\ lastError = IF old = {} THEN NoError ELSE read[Min(old)].n
        /\ \A i \in old : read[i].n \in ServerErrors
    BY DEF ReadInv, FirstErrorInv
  <1>7. /\ tk.t = "error" => x = tk /\ tk.n \in ServerErrors
        /\ lastError' = IF tk.t = "error" /\ lastError = NoError THEN tk.n ELSE lastError
    <2>1. CASE tk.t \in {"row", "altrow"}
      BY <2>1, DecodedToken
    <2>2. CASE tk.t \notin {"row", "altrow"}
      BY <2>2, DecodedToken DEF KeepError
    <2> QED
      BY <2>1, <2>2
  <1> HIDE DEF L, u, x, old, new
  <1>8. \A i \in new : u[i].n \in ServerErrors
    BY <1>1, <1>3, <1>4, <1>5, <1>6, <1>7
  <1>9. lastError' = IF new = {} THEN NoError ELSE u[Min(new)].n
    <2>1. CASE old # {}
      <3>1. Min(old) \in old /\ \A y \in old : Min(old) <= y
        <4>1. old \subseteq Nat
          BY <1>2, <1>5
        <4> QED
          BY <2>1, <4>1, MinIsLeast
      <3>2. lastError = read[Min(old)].n /\ lastError # NoError
        BY <2>1, <3>1, <1>6, ErrorCodes
      <3>3. Min(old) \in new /\ new \subseteq Int /\ \A y \in new : Min(old) <= y
        <4>1. \A y \in old : y \in Int /\ y <= L
          BY <1>2, <1>5
        <4>2. Min(old) <= L + 1 /\ L + 1 \in Int
          BY <3>1, <4>1, <1>2
        <4>3. \A y \in new : y \in old \/ y = L + 1
          BY <1>4
        <4>4. Min(old) \in new
          BY <3>1, <1>4
        <4> QED
          BY <3>1, <4>1, <4>2, <4>3, <4>4
      <3>4. Min(new) = Min(old)
        BY <3>3, MinIs
      <3>5. u[Min(new)] = read[Min(old)]
        BY <3>1, <3>4, <1>3, <1>5
      <3> QED
        BY <3>2, <3>3, <3>5, <1>7
    <2>2. CASE old = {} /\ x.t = "error"
      <3>1. new = {L + 1}
        BY <2>2, <1>4
      <3>2. Min(new) = L + 1
        <4>1. new \subseteq Int /\ L + 1 \in new /\ \A y \in new : L + 1 <= y
          BY <3>1, <1>2
        <4> QED
          BY <4>1, MinIs
      <3> QED
        BY <2>2, <3>1, <3>2, <1>1, <1>3, <1>6, <1>7
    <2>3. CASE old = {} /\ x.t # "error"
      BY <2>3, <1>1, <1>4, <1>6, <1>7
    <2> QED
      BY <2>1, <2>2, <2>3
  <1>10. read' = u
    BY <1>1
  <1> QED
    BY <1>8, <1>9, <1>10 DEF FirstErrorInv, new

\* Every step keeps the Context in line with what has been read.
LEMMA ReadStep ==
    ASSUME TypeInv, ReadInv, [Next]_vars
    PROVE  TypeInv' /\ ReadInv'
  <1>1. CASE (\E k \in Streams \cup Folds : Call(k)) \/ DropStream
    BY <1>1, FreshCases, FreshStep, TypeFresh, ReadFresh
  <1>2. CASE Unfold
    <2>1. TypeInv'
      BY <1>2, TypeUnfold
    <2>2. ASSUME NEW tk \in Tokens, Decodes(tk)
          PROVE  ReadInv'
      BY <2>2, ItemDecodes, ContextDecodes, FirstErrorDecodes DEF ReadInv
    <2>3. ASSUME NoToken
          PROVE  ReadInv'
      <3>1. ~IsToken(item') /\ UNCHANGED <<context, read, lastError>>
        BY <2>3, NotTokens DEF NoToken, EndItem
      <3> QED
        BY <3>1, ReadSame
    <2> QED
      BY <1>2, <2>1, <2>2, <2>3, UnfoldCases
  <1>3. CASE Consumes
    <2>1. ItemInv
      BY DEF ReadInv
    <2>2. TypeInv'
      BY <1>3, <2>1, TypeConsumes
    <2>3. UNCHANGED <<context, read, lastError>> /\ (item' = item \/ ~IsToken(item'))
      BY <1>3, ConsumesReads, NotTokens DEF tokenStream
    <2> QED
      BY <2>2, <2>3, ReadSame
  <1>4. CASE UNCHANGED vars
    <2>1. UNCHANGED <<context, read, lastError>> /\ item' = item
      BY <1>4 DEF vars, tokenStream
    <2>2. ReadInv'
      BY <2>1, ReadSame
    <2>3. TypeInv'
      BY <1>4 DEF TypeInv, vars, tokenStream, context, stream, history
    <2> QED
      BY <2>2, <2>3
  <1> QED
    BY <1>1, <1>2, <1>3, <1>4, NextCases

\* The Context is in line with what has been read, in every reachable state.
LEMMA ReadAlways == Spec => [](TypeInv /\ ReadInv)
  <1>1. ASSUME Init
        PROVE  TypeInv /\ ReadInv
    <2>1. read = <<>> /\ item = Nothing /\ lastError = NoError
      BY <1>1 DEF Init
    <2>2. ItemInv
      BY <2>1, NotTokens, NothingRead DEF ItemInv
    <2>3. ContextInv
      BY <2>1, NothingRead DEF ContextInv, DecodedWithOwnMetadata
    <2>4. FirstErrorInv
      BY <2>1, NothingRead DEF FirstErrorInv
    <2> QED
      BY <1>1, <2>2, <2>3, <2>4, TypeInit DEF ReadInv
  <1>2. ASSUME TypeInv /\ ReadInv, [Next]_vars
        PROVE  (TypeInv /\ ReadInv)'
    BY <1>2, ReadStep
  <1> QED
    BY <1>1, <1>2, PTL DEF Spec

\* Rows are decoded with the metadata of their own result set, COMPUTE rows with
\* that of their own clause, for every response and whatever earlier calls left
\* in the Context (Context::set_last_meta, set_alt_meta, TokenStream).
THEOREM RowsDecodeRight == Spec => []DecodedWithOwnMetadata
  <1>1. TypeInv /\ ReadInv => DecodedWithOwnMetadata
    BY DEF ReadInv, ContextInv
  <1> QED
    BY <1>1, ReadAlways, PTL

-----------------------------------------------------------------------------
(* Errors reach the application *)

\* Beginning or dropping a stream: nothing to tell.
LEMMA ToldFresh ==
    ASSUME TypeInv, (\E k \in Streams \cup Folds : Call(k)) \/ DropStream
    PROVE  ToldInv'
  <1>1. Fresh
    BY FreshCases
  <1> QED
    BY <1>1, FreshStep, NotTokens DEF ToldInv

\* A poll of the token stream.
LEMMA ToldUnfold ==
    ASSUME TypeInv, ReadInv, ToldInv, Unfold
    PROVE  ToldInv'
  <1>1. item = Nothing /\ UNCHANGED <<told, ended, outcome>>
    BY UnfoldCases DEF history
  <1>2. item.t = "nothing"
    BY <1>1, NotTokens
  <1>3. ASSUME live, NEW tk \in Tokens, Decodes(tk)
        PROVE  ToldInv'
    <2>1. item' \in Token /\ UNCHANGED live
      BY <1>3, DecodedToken
    <2>2. item'.t \notin {"nothing", "end", "err"}
      <3>1. IsToken(item')
        BY <2>1, TokenTypes DEF IsToken
      <3> QED
        BY <3>1, NotTokens
    <2>3. live' /\ ~(ended' \/ outcome' = "ok")
      BY <1>1, <1>3, <2>1 DEF ToldInv
    <2>4. lastError # NoError => lastError' = lastError
      BY <1>3, DecodedToken DEF KeepError
    <2>5. \A e \in told : e = Protocol \/ (e = lastError' /\ lastError' # NoError)
      BY <2>4 DEF ToldInv
    <2> QED
      BY <1>1, <2>2, <2>3, <2>5 DEF ToldInv
  <1>4. ASSUME NoToken
        PROVE  ToldInv'
    <2>1. UNCHANGED lastError /\ ~live'
      BY <1>4 DEF NoToken
    <2>2. \A e \in told' : e = Protocol \/ (e = lastError' /\ lastError' # NoError)
      BY <1>1, <2>1 DEF ToldInv
    <2>3. item'.t = "err" => item'.n = Protocol \/ (item'.n = lastError /\ lastError # NoError)
      BY <1>4, NotTokens DEF NoToken, EndItem
    <2>4. item'.t # "err" => lastError = NoError \/ Protocol \in told \/ lastError \in told
      <3>1. CASE item' = EndItem
        BY <3>1, NotTokens DEF EndItem
      <3>2. CASE item' = End /\ ~live
        BY <3>2, <1>2 DEF ToldInv
      <3>3. CASE item' = Err(Protocol)
        BY <3>3, NotTokens
      <3> QED
        BY <1>4, <3>1, <3>2, <3>3 DEF NoToken
    <2>5. (ended' \/ outcome' = "ok") => item'.t \in {"nothing", "end"}
      <3>1. ended \/ outcome = "ok" => ~live
        BY DEF ToldInv
      <3>2. ~live => item' = End
        BY <1>4 DEF NoToken
      <3> QED
        BY <3>1, <3>2, <1>1, NotTokens
    <2> QED
      BY <1>1, <2>1, <2>2, <2>3, <2>4, <2>5 DEF ToldInv
  <1> QED
    BY <1>3, <1>4, UnfoldCases

\* A consumer: an error it takes is told, and no stream ends before its errors.
LEMMA ToldConsumes ==
    ASSUME TypeInv, ReadInv, ToldInv, Consumes
    PROVE  ToldInv'
  <1>1. /\ UNCHANGED <<lastError, live>>
        /\ item' = item \/ item' = Nothing
    BY ConsumesReads DEF tokenStream
  <1>2. /\ item'.t = "err" => item.t = "err" /\ item' = item
        /\ item'.t \in {"err", "end"} => item' = item
        /\ Nothing.t = "nothing"
    BY <1>1, NotTokens
  <1>3. /\ told \subseteq told'
        /\ \A e \in told' : e \in told \/ e = Protocol \/ (item.t = "err" /\ e = item.n)
        /\ item.t = "err" => item' = item \/ item.n \in told'
    <2>1. CASE ForwardToMetadata
      <3>1. told' = IF item.t = "err" THEN told \cup {item.n} ELSE told
        BY <2>1 DEF ForwardToMetadata
      <3> QED
        BY <3>1
    <2>2. CASE Columns
      BY <2>2 DEF Columns, KeptPeeked
    <2>3. CASE PollNext
      <3>1. CASE item.t = "err" /\ told' = told \cup {item.n}
        BY <3>1
      <3>2. CASE item.t # "err" /\ (told' = told \/ told' = told \cup {Protocol})
        BY <3>2
      <3>3. IsToken(item) => item.t # "err"
        BY NotTokens
      <3> QED
        BY <2>3, <3>1, <3>2, <3>3, PollCases DEF PollCase, PollFails, PollEnds, PollYields
    <2>4. CASE FoldStep
      <3>1. CASE item.t = "err" /\ told' = told \cup {item.n}
        BY <3>1
      <3>2. CASE item.t # "err" /\ (told' = told \/ told' = told \cup {Protocol})
        BY <3>2
      <3>3. IsToken(item) => item.t # "err"
        BY NotTokens
      <3> QED
        BY <2>4, <3>1, <3>2, <3>3, FoldCases DEF FoldEnds
    <2>5. CASE \E what \in {"columns", "next", "collect"} : Ask(what)
      BY <2>5 DEF Ask
    <2>6. CASE GiveUp
      BY <2>6 DEF GiveUp, history
    <2> QED
      BY <2>1, <2>2, <2>3, <2>4, <2>5, <2>6 DEF Consumes
  <1>4. (ended' \/ outcome' = "ok") => ended \/ outcome = "ok" \/ item.t = "end"
    <2>1. CASE PollNext
      BY <2>1, PollCases DEF PollCase, PollFails, PollEnds, PollYields
    <2>2. CASE FoldStep
      BY <2>2, FoldCases DEF FoldEnds
    <2>3. CASE ~PollNext /\ ~FoldStep
      <3>1. UNCHANGED <<ended, outcome>>
        BY <2>3 DEF Consumes, ForwardToMetadata, Columns, Ask, GiveUp, history
      <3> QED
        BY <3>1
    <2> QED
      BY <2>1, <2>2, <2>3
  <1>5. item'.t = "err" => item'.n = Protocol \/ (item'.n = lastError' /\ lastError' # NoError)
    BY <1>1, <1>2 DEF ToldInv
  <1>6. item'.t \in {"err", "end"} => ~live'
    BY <1>1, <1>2 DEF ToldInv
  <1>7. \A e \in told' : e = Protocol \/ (e = lastError' /\ lastError' # NoError)
    BY <1>1, <1>3 DEF ToldInv
  <1>8. (~live' /\ item'.t # "err") =>
           lastError' = NoError \/ Protocol \in told' \/ lastError' \in told'
    <2>1. CASE item.t # "err"
      BY <2>1, <1>1, <1>2, <1>3 DEF ToldInv
    <2>2. CASE item.t = "err"
      <3>1. item' # item => item.n \in told'
        BY <2>2, <1>3
      <3> QED
        BY <2>2, <3>1, <1>1 DEF ToldInv
    <2> QED
      BY <2>1, <2>2
  <1>9. (ended' \/ outcome' = "ok") => ~live' /\ item'.t \in {"nothing", "end"}
    <2>1. (ended' \/ outcome' = "ok") => ~live /\ item.t \in {"nothing", "end"}
      BY <1>4 DEF ToldInv
    <2> QED
      BY <2>1, <1>1, <1>2
  <1> QED
    BY <1>5, <1>6, <1>7, <1>8, <1>9 DEF ToldInv

\* No error is lost on its way, in every reachable state.
LEMMA ToldAlways == Spec => []ToldInv
  <1>1. ASSUME Init
        PROVE  ToldInv
    BY <1>1, NotTokens DEF Init, ToldInv
  <1>2. ASSUME TypeInv /\ ReadInv, ToldInv, [Next]_vars
        PROVE  ToldInv'
    <2>1. CASE UNCHANGED vars
      BY <1>2, <2>1 DEF ToldInv, vars, tokenStream, history
    <2> QED
      BY <1>2, <2>1, ToldFresh, ToldUnfold, ToldConsumes, NextCases
  <1> QED
    BY <1>1, <1>2, ReadAlways, PTL DEF Spec

\* A response with an ERROR token never ends as if it had succeeded, and the error
\* told is the first the server sent, for every response and every way of polling
\* it (get_error and the end of try_unfold, columns(), poll_next, the folds).
THEOREM ErrorsAreTold == Spec => []ErrorReported
  <1>1. ASSUME TypeInv, ReadInv, ToldInv
        PROVE  ErrorReported
    <2> DEFINE errors == Positions(read, "error")
               first == {read[i].n : i \in {j \in errors : j = Min(errors)}}
    <2>1. /\ lastError = IF errors = {} THEN NoError ELSE read[Min(errors)].n
          /\ \A i \in errors : read[i].n \in ServerErrors
      BY <1>1 DEF ReadInv, FirstErrorInv
    <2>2. errors # {} => Min(errors) \in errors
      <3>1. errors \subseteq Nat
        BY <1>1, PositionsBound DEF TypeInv
      <3> HIDE DEF errors
      <3> QED
        BY <3>1, MinIsLeast
    <2>3. first = IF lastError = NoError THEN {} ELSE {lastError}
      <3> HIDE DEF errors
      <3>1. CASE errors = {}
        BY <3>1, <2>1
      <3>2. CASE errors # {}
        <4>1. lastError = read[Min(errors)].n /\ lastError # NoError
          BY <3>2, <2>1, <2>2, ErrorCodes
        <4>2. {j \in errors : j = Min(errors)} = {Min(errors)}
          BY <3>2, <2>2
        <4> QED
          BY <4>1, <4>2
      <3> QED
        BY <3>1, <3>2
    <2> HIDE DEF first, errors
    <2>4. told \cap ServerErrors \subseteq first
      BY <1>1, <2>3, ErrorCodes DEF ToldInv
    <2>5. (ended \/ outcome = "ok") =>
             lastError = NoError \/ Protocol \in told \/ lastError \in told
      BY <1>1 DEF ToldInv
    <2>6. ((ended \/ outcome = "ok") /\ Protocol \notin told) => first \subseteq told
      BY <2>3, <2>5
    <2>7. ((ended \/ outcome = "ok") /\ first # {}) => told # {}
      BY <2>3, <2>5
    <2> QED
      BY <2>4, <2>6, <2>7 DEF ErrorReported, first, errors
  <1> QED
    BY <1>1, ReadAlways, ToldAlways, PTL

-----------------------------------------------------------------------------
(* The columns of the consumer *)

\* A sequence without the element last added.
LEMMA FrontOfAppend ==
    ASSUME NEW R, NEW s \in Seq(R), NEW x \in R
    PROVE  SubSeq(Append(s, x), 1, Len(s)) = s
  OBVIOUS

\* A nonempty sequence is its front and its last element.
LEMMA FrontAndLast ==
    ASSUME NEW R, NEW s \in Seq(R), Len(s) > 0
    PROVE  /\ SubSeq(s, 1, Len(s) - 1) \in Seq(R)
           /\ Len(SubSeq(s, 1, Len(s) - 1)) = Len(s) - 1
           /\ s[Len(s)] \in R
           /\ s = Append(SubSeq(s, 1, Len(s) - 1), s[Len(s)])
  <1> DEFINE front == SubSeq(s, 1, Len(s) - 1)
             whole == Append(front, s[Len(s)])
  <1>1. Len(s) \in Nat /\ Len(s) \in 1..Len(s)
    OBVIOUS
  <1>2. s[Len(s)] \in R
    BY <1>1
  <1>3. Len(front) = Len(s) - 1 /\ \A i \in 1..(Len(s) - 1) : front[i] = s[i]
    <2>1. PICK n \in Nat : n = Len(s) - 1
      BY <1>1
    <2>2. Len(SubSeq(s, 1, n)) = n
      BY <2>1, <1>1
    <2>3. \A i \in 1..n : SubSeq(s, 1, n)[i] = s[i]
      BY <2>1, <1>1
    <2> QED
      BY <2>1, <2>2, <2>3
  <1>4. front \in Seq(R)
    BY <1>1
  <1>5. whole \in Seq(R) /\ Len(whole) = Len(s)
    BY <1>1, <1>2, <1>3, <1>4
  <1>6. \A i \in 1..Len(s) : whole[i] = s[i]
    <2>1. TAKE i \in 1..Len(s)
    <2>2. CASE i \in 1..(Len(s) - 1)
      BY <2>2, <1>1, <1>2, <1>3, <1>4
    <2>3. CASE i = Len(s)
      BY <2>3, <1>1, <1>2, <1>3, <1>4
    <2> QED
      BY <2>2, <2>3, <1>1
  <1> HIDE DEF whole
  <1>7. whole = s
    BY <1>5, <1>6
  <1> QED
    BY <1>2, <1>3, <1>4, <1>7 DEF whole

\* The tokens taken are all that were read, but for the item kept.
LEMMA TakenIs ==
    ASSUME TypeInv, ItemInv
    PROVE  /\ Taken \in Seq(Token)
           /\ ~IsToken(item) => Taken = read
           /\ IsToken(item) => /\ item \in Token /\ read = Append(Taken, item)
                               /\ Len(read) = Len(Taken) + 1
  <1>1. read \in Seq(Token)
    BY DEF TypeInv
  <1>2. CASE ~IsToken(item)
    BY <1>1, <1>2 DEF Taken
  <1>3. CASE IsToken(item)
    <2>1. Len(read) > 0 /\ item = read[Len(read)] /\ Taken = SubSeq(read, 1, Len(read) - 1)
      BY <1>3 DEF ItemInv, Taken
    <2>2. /\ Taken \in Seq(Token) /\ Len(Taken) = Len(read) - 1
          /\ item \in Token /\ read = Append(Taken, item)
      BY <1>1, <2>1, FrontAndLast
    <2>3. Len(read) \in Nat
      BY <1>1
    <2>4. Len(read) = Len(Taken) + 1
      BY <2>2, <2>3
    <2> QED
      BY <1>3, <2>2, <2>4
  <1> QED
    BY <1>2, <1>3

\* Polling the token stream takes nothing.
LEMMA TakenUnfold ==
    ASSUME TypeInv, ItemInv, Unfold
    PROVE  Taken' = Taken
  <1>1. Taken' = IF IsToken(item') THEN SubSeq(read', 1, Len(read') - 1) ELSE read'
    BY DEF Taken, IsToken
  <1>2. Taken = read /\ read \in Seq(Token) /\ Len(read) \in Nat
    BY UnfoldCases, NotTokens, TakenIs DEF TypeInv
  <1>3. ASSUME NEW tk \in Tokens, Decodes(tk)
        PROVE  Taken' = Taken
    <2>1. item' \in Token /\ read' = Append(read, item')
      BY <1>3, DecodedToken
    <2>2. IsToken(item')
      BY <2>1, TokenTypes DEF IsToken
    <2>3. Len(read') - 1 = Len(read)
      BY <1>2, <2>1, Appended
    <2> QED
      BY <1>1, <1>2, <2>1, <2>2, <2>3, FrontOfAppend
  <1>4. ASSUME NoToken
        PROVE  Taken' = Taken
    <2>1. ~IsToken(item') /\ UNCHANGED read
      BY <1>4, NotTokens DEF NoToken, EndItem
    <2> QED
      BY <1>1, <1>2, <2>1
  <1> QED
    BY <1>3, <1>4, UnfoldCases

\* A consumer takes the item or leaves it.
LEMMA TakenConsumes ==
    ASSUME TypeInv, ItemInv, Consumes
    PROVE  Taken' = IF IsToken(item) /\ item' = Nothing THEN Append(Taken, item) ELSE Taken
  <1>1. Taken' = IF IsToken(item') THEN SubSeq(read', 1, Len(read') - 1) ELSE read'
    BY DEF Taken, IsToken
  <1>2. UNCHANGED read /\ (item' = item \/ item' = Nothing)
    BY ConsumesReads DEF tokenStream
  <1>3. CASE IsToken(item) /\ item' = Nothing
    BY <1>1, <1>2, <1>3, TakenIs, NotTokens
  <1>4. CASE IsToken(item) /\ item' = item
    <2>1. item' # Nothing
      BY <1>4, NotTokens
    <2> QED
      BY <1>1, <1>2, <1>4, <2>1 DEF Taken
  <1>5. CASE ~IsToken(item)
    <2>1. ~IsToken(item')
      BY <1>2, <1>5, NotTokens
    <2> QED
      BY <1>1, <1>2, <1>5, <2>1 DEF Taken
  <1> QED
    BY <1>2, <1>3, <1>4, <1>5

\* The columns in force after the tokens taken.
Current == OwnColumns(Taken, Len(Taken) + 1)

\* Taking a token changes them when it is metadata.
LEMMA CurrentConsumes ==
    ASSUME TypeInv, ItemInv, Consumes
    PROVE  Current' = IF item.t = "meta" /\ item' = Nothing THEN item.m ELSE Current
  <1>1. Current' = OwnColumns(Taken', Len(Taken') + 1)
    BY DEF Current, OwnColumns, Before, Positions
  <1>2. CASE IsToken(item) /\ item' = Nothing
    <2>1. Taken' = Append(Taken, item) /\ Taken \in Seq(Token) /\ item \in Token
      BY <1>2, TakenConsumes, TakenIs
    <2>2. Len(Taken') + 1 = Len(Taken) + 2
      BY <2>1
    <2>3. Current' = IF item.t = "meta" THEN item.m ELSE Current
      BY <1>1, <2>1, <2>2, ColumnsAppend DEF Current
    <2> QED
      BY <1>2, <2>3
  <1>3. CASE ~(IsToken(item) /\ item' = Nothing)
    <2>1. Taken' = Taken
      BY <1>3, TakenConsumes
    <2>2. item.t = "meta" => IsToken(item)
      BY DEF IsToken, Types
    <2> QED
      BY <1>1, <1>3, <2>1, <2>2 DEF Current
  <1> QED
    BY <1>2, <1>3

\* The columns of a fresh stream.
LEMMA ColumnsFresh ==
    ASSUME TypeInv, (\E k \in Streams \cup Folds : Call(k)) \/ DropStream
    PROVE  ColumnsInv'
  <1>1. Fresh
    BY FreshCases
  <1>2. read' = <<>> /\ item' = Nothing /\ columns' = NoMeta
    BY <1>1, FreshStep
  <1>3. Taken' = <<>>
    BY <1>2, NotTokens DEF Taken, IsToken
  <1>4. OwnColumns(Taken', Len(Taken') + 1) = NoMeta
    BY <1>3, NothingRead
  <1>5. (columns = OwnColumns(Taken, Len(Taken) + 1))'
    BY <1>2, <1>4 DEF OwnColumns, Before, Positions
  <1>6. /\ pc' \in {"forward", "columns"} => kind' = "query"
        /\ pc' \in {"open", "forward", "columns", "next", "collect"} => kind' \in Streams
        /\ pc' = "fold" => kind' \in Folds
    <2>1. CASE DropStream
      BY <2>1 DEF DropStream
    <2>2. ASSUME NEW k \in Streams \cup Folds, Call(k)
          PROVE  /\ pc' \in {"forward", "columns"} => kind' = "query"
                 /\ pc' \in {"open", "forward", "columns", "next", "collect"} => kind' \in Streams
                 /\ pc' = "fold" => kind' \in Folds
      <3>1. kind' = k
        BY <2>2 DEF Call
      <3>2. CASE k = "query"
        BY <2>2, <3>1, <3>2 DEF Call, Streams, Folds
      <3>3. CASE k = "command"
        BY <2>2, <3>1, <3>3 DEF Call, Streams, Folds
      <3>4. CASE k \in Folds
        <4>1. k # "query" /\ k # "command"
          BY <3>4 DEF Folds
        <4>2. pc' = "fold"
          BY <2>2, <3>4, <4>1 DEF Call
        <4> QED
          BY <3>1, <3>4, <4>2
      <3> QED
        BY <3>2, <3>3, <3>4 DEF Streams
    <2> QED
      BY <2>1, <2>2
  <1> QED
    BY <1>2, <1>5, <1>6 DEF ColumnsInv

\* Polling the token stream changes no columns.
LEMMA ColumnsUnfold ==
    ASSUME TypeInv, ItemInv, ColumnsInv, Unfold
    PROVE  ColumnsInv'
  <1>1. item = Nothing /\ UNCHANGED <<pc, kind, columns>>
    BY UnfoldCases DEF stream
  <1>2. item.t # "meta"
    BY <1>1, NotTokens
  <1>3. Taken' = Taken
    BY TakenUnfold
  <1>4. Current' = Current
    BY <1>3 DEF Current, OwnColumns, Before, Positions
  <1>5. kind \in Streams => columns = Current
    BY <1>2 DEF ColumnsInv, Current
  <1> QED
    BY <1>1, <1>4, <1>5 DEF ColumnsInv, Current

\* A consumer: metadata taken sets the columns, columns() may run ahead of it.
LEMMA ColumnsConsumes ==
    ASSUME TypeInv, ItemInv, ColumnsInv, Consumes
    PROVE  ColumnsInv'
  <1>1. UNCHANGED kind /\ (item' = item \/ item' = Nothing)
    BY ConsumesReads
  <1>2. Current' = IF item.t = "meta" /\ item' = Nothing THEN item.m ELSE Current
    BY CurrentConsumes
  <1>3. kind \in Streams => columns = Current \/ (item.t = "meta" /\ columns = item.m)
    BY DEF ColumnsInv, Current
  <1>4. Streams \cap Folds = {} /\ "query" \in Streams
    BY DEF Streams, Folds
  <1>5. CASE ForwardToMetadata
    <2>1. /\ pc = "forward" /\ UNCHANGED columns
          /\ pc' \in {"idle", "open", "forward"}
          /\ item' = IF item.t = "meta" THEN item ELSE Nothing
      BY <1>5 DEF ForwardToMetadata, stream
    <2>2. kind = "query" /\ columns = NoMeta
      BY <2>1 DEF ColumnsInv
    <2>3. columns' = Current' \/ (item'.t = "meta" /\ columns' = item'.m)
      BY <2>1, <2>2, <1>2, <1>3, <1>4, NotTokens
    <2> QED
      BY <2>1, <2>2, <2>3, <1>1, <1>4 DEF ColumnsInv, Current
  <1>6. CASE Columns
    <2>1. /\ pc = "columns" /\ columns' = Peeked
          /\ pc' \in {"open", "columns"}
          /\ item' = IF KeptPeeked THEN item ELSE Nothing
      BY <1>6 DEF Columns
    <2>2. kind = "query"
      BY <2>1 DEF ColumnsInv
    <2>3. CASE item.t = "meta"
      <3>1. item' = item /\ columns' = item.m
        BY <2>1, <2>3 DEF KeptPeeked, Peeked
      <3> QED
        BY <2>1, <2>2, <2>3, <3>1, <1>1, <1>4 DEF ColumnsInv
    <2>4. CASE item.t # "meta"
      <3>1. columns' = columns /\ columns = Current /\ Current' = Current
        BY <2>1, <2>2, <2>4, <1>2, <1>3, <1>4 DEF Peeked
      <3> QED
        BY <2>1, <2>2, <3>1, <1>1, <1>4 DEF ColumnsInv, Current
    <2> QED
      BY <2>3, <2>4
  <1>7. CASE PollNext
    <2>1. /\ pc \in {"next", "collect"} /\ item' = Nothing /\ PollCase
      BY <1>7, PollCases
    <2>2. kind \in Streams
      BY <2>1 DEF ColumnsInv
    <2>3. pc' \in {"open", "idle", pc}
      BY <2>1 DEF PollCase, PollFails, PollEnds, PollYields
    <2>4. columns' = Current'
      <3>1. CASE item.t = "meta"
        <4>1. Yields(item)
          BY <3>1 DEF Yields
        <4>2. columns' = item.m
          BY <2>1, <3>1, <4>1 DEF PollCase, PollYields
        <4> QED
          BY <2>1, <3>1, <4>2, <1>2
      <3>2. CASE item.t # "meta"
        <4>1. columns' = columns
          BY <2>1, <3>2 DEF PollCase, PollFails, PollEnds, PollYields, stream
        <4> QED
          BY <2>2, <3>2, <4>1, <1>2, <1>3
      <3> QED
        BY <3>1, <3>2
    <2>5. pc' \notin {"forward", "columns", "fold"}
      BY <2>1, <2>3
    <2> QED
      BY <2>2, <2>4, <2>5, <1>1 DEF ColumnsInv, Current
  <1>8. CASE FoldStep
    <2>1. pc = "fold" /\ pc' \in {"fold", "idle"}
      BY <1>8, FoldCases DEF FoldEnds
    <2>2. kind \in Folds /\ kind \notin Streams
      BY <2>1, <1>4 DEF ColumnsInv
    <2> QED
      BY <2>1, <2>2, <1>1 DEF ColumnsInv
  <1>9. CASE (\E what \in {"columns", "next", "collect"} : Ask(what)) \/ GiveUp
    <2>1. /\ pc \in {"open", "columns", "next"} /\ pc' \in {"open", "columns", "next", "collect"}
          /\ pc' = "columns" => kind = "query"
          /\ UNCHANGED <<item, columns>>
      BY <1>9 DEF Ask, GiveUp, stream
    <2>2. kind \in Streams
      BY <2>1 DEF ColumnsInv
    <2>3. item.t = "meta" => item # Nothing
      BY NotTokens
    <2>4. Current' = Current
      BY <2>1, <2>3, <1>2
    <2> QED
      BY <2>1, <2>2, <2>4, <1>1, <1>3 DEF ColumnsInv, Current
  <1> QED
    BY <1>5, <1>6, <1>7, <1>8, <1>9 DEF Consumes

\* The columns are right in every reachable state.
LEMMA ColumnsAlways == Spec => []ColumnsInv
  <1>1. ASSUME Init
        PROVE  ColumnsInv
    <2>1. /\ pc = "idle" /\ columns = NoMeta /\ Taken = <<>>
      BY <1>1, NotTokens DEF Init, Taken
    <2> QED
      BY <2>1, NothingRead DEF ColumnsInv
  <1>2. ASSUME TypeInv /\ ReadInv, ColumnsInv, [Next]_vars
        PROVE  ColumnsInv'
    <2>1. ItemInv
      BY <1>2 DEF ReadInv
    <2>2. CASE UNCHANGED vars
      <3>1. Taken' = Taken
        BY <2>2 DEF Taken, IsToken, vars, tokenStream
      <3>2. Current' = Current
        BY <3>1 DEF Current, OwnColumns, Before, Positions
      <3>3. UNCHANGED <<pc, kind, columns, item>>
        BY <2>2 DEF vars, stream
      <3> QED
        BY <1>2, <3>2, <3>3 DEF ColumnsInv, Current
    <2> QED
      BY <1>2, <2>1, <2>2, ColumnsFresh, ColumnsUnfold, ColumnsConsumes, NextCases
  <1> QED
    BY <1>1, <1>2, ReadAlways, PTL DEF Spec

\* columns() answers with the next result set's columns when it stands before one
\* and with those of the rows it stands in otherwise, for every response and
\* however often and wherever it is called (QueryStream::columns).
THEOREM ColumnsAreRight == Spec => ColumnsAnswer
  <1>1. ASSUME TypeInv /\ ReadInv, ColumnsInv, [Next]_vars
        PROVE  [(pc = "columns" /\ pc' = "open" /\ item # Nothing /\ item.t # "err") =>
                   answer' = OwnColumns(read, Len(read) + 1)]_vars
    <2>1. SUFFICES ASSUME pc = "columns", pc' = "open", item # Nothing, item.t # "err", Next
                   PROVE  answer' = OwnColumns(read, Len(read) + 1)
      <3>1. UNCHANGED vars \/ Next
        BY <1>1
      <3> QED
        BY <3>1
    <2>2. Columns
      BY <2>1, FreshCases, UnfoldCases DEF Next, Call, Unfold, ForwardToMetadata, PollNext,
         FoldStep, Ask, GiveUp, DropStream
    <2>3. kind \in Streams /\ ItemInv /\ TypeInv
      BY <1>1, <2>1 DEF ColumnsInv, ReadInv, Streams
    <2>4. item.t \in {"meta", "row", "end"} /\ answer' = Peeked
      BY <2>1, <2>2 DEF Columns
    <2>5. columns = Current \/ (item.t = "meta" /\ columns = item.m)
      BY <1>1, <2>3 DEF ColumnsInv, Current
    <2>6. CASE item.t = "end"
      <3>1. Taken = read
        BY <2>3, <2>6, NotTokens, TakenIs
      <3> QED
        BY <2>4, <2>5, <2>6, <3>1 DEF Current, Peeked
    <2>7. CASE item.t # "end"
      <3>1. IsToken(item)
        BY <2>4, <2>7 DEF IsToken, Types
      <3>2. /\ Taken \in Seq(Token) /\ item \in Token /\ read = Append(Taken, item)
            /\ Len(read) = Len(Taken) + 1
        BY <2>3, <3>1, TakenIs
      <3>3. Len(read) + 1 = Len(Taken) + 2
        BY <3>2
      <3>4. OwnColumns(read, Len(read) + 1) = IF item.t = "meta" THEN item.m ELSE Current
        BY <3>2, <3>3, ColumnsAppend DEF Current
      <3> QED
        BY <2>4, <2>5, <3>4 DEF Peeked
    <2> QED
      BY <2>6, <2>7
  <1> QED
    BY <1>1, ReadAlways, ColumnsAlways, PTL DEF Spec, ColumnsAnswer

-----------------------------------------------------------------------------
(* Positions, counted *)

\* A set of positions can be counted.
LEMMA PositionsCount ==
    ASSUME NEW n \in Nat, NEW S, S \subseteq 1..n
    PROVE  IsFiniteSet(S) /\ Cardinality(S) \in Nat
  <1>1. IsFiniteSet(1..n)
    BY FS_Interval
  <1>2. S \in SUBSET (1..n)
    OBVIOUS
  <1>3. IsFiniteSet(S)
    BY <1>1, <1>2, FS_Subset
  <1> QED
    BY <1>3, FS_CardinalityType

\* The k-th smallest element exists, and Nth is it.
LEMMA NthIs ==
    ASSUME NEW n \in Nat, NEW S, S \subseteq 1..n, NEW k \in 1..Cardinality(S)
    PROVE  Nth(S, k) \in S /\ Cardinality(Before(S, Nth(S, k))) = k - 1
  <1> DEFINE T == {m \in Nat : Cardinality(Before(S, m + 1)) >= k}
  <1>1. \A m : Before(S, m) \subseteq S /\ Before(S, m) \subseteq 1..n
    BY DEF Before
  <1>2. /\ \A m : IsFiniteSet(Before(S, m)) /\ Cardinality(Before(S, m)) \in Nat
        /\ Cardinality(S) \in Nat /\ k \in Nat /\ k >= 1
    <2>1. \A m : IsFiniteSet(Before(S, m)) /\ Cardinality(Before(S, m)) \in Nat
      <3>1. TAKE m
      <3>2. Before(S, m) \subseteq 1..n
        BY <1>1
      <3> QED
        BY <3>2, PositionsCount
    <2>2. Cardinality(S) \in Nat
      BY PositionsCount
    <2> QED
      BY <2>1, <2>2
  <1>3. n \in T
    <2>1. \A x \in S : x < n + 1
      OBVIOUS
    <2>2. Before(S, n + 1) = S
      BY <2>1 DEF Before
    <2> QED
      BY <2>2, <1>2
  <1>4. PICK m \in T : \A y \in T : m <= y
    <2>1. T \subseteq Nat /\ T # {}
      BY <1>3
    <2> HIDE DEF T
    <2> QED
      BY <2>1, LeastNatural
  <1>5. m \in Nat /\ Cardinality(Before(S, m + 1)) >= k
    BY <1>4
  <1>6. m # 0
    <2>1. \A x \in S : ~(x < 0 + 1)
      OBVIOUS
    <2>2. Before(S, 0 + 1) = {}
      BY <2>1 DEF Before
    <2>3. Cardinality(Before(S, 0 + 1)) = 0
      BY <2>2, FS_EmptySet
    <2> QED
      BY <2>3, <1>2, <1>5
  <1>7. Cardinality(Before(S, m)) < k
    <2>1. m - 1 \in Nat /\ m - 1 < m /\ (m - 1) + 1 = m
      BY <1>5, <1>6
    <2>2. m - 1 \notin T
      BY <2>1, <1>4, <1>5
    <2>3. ~(Cardinality(Before(S, m)) >= k)
      BY <2>1, <2>2
    <2> QED
      BY <2>3, <1>2
  <1> HIDE DEF T
  <1>8. Before(S, m + 1) = Before(S, m) \cup (IF m \in S THEN {m} ELSE {})
    <2>1. \A x \in S : x < m + 1 <=> x < m \/ x = m
      BY <1>5
    <2> QED
      BY <2>1 DEF Before
  <1>9. m \in S
    <2>1. SUFFICES ASSUME m \notin S PROVE FALSE
      OBVIOUS
    <2>2. Before(S, m + 1) = Before(S, m)
      BY <1>8, <2>1
    <2> QED
      BY <2>2, <1>2, <1>5, <1>7
  <1>10. Cardinality(Before(S, m)) = k - 1
    <2>1. m \notin Before(S, m)
      BY <1>5 DEF Before
    <2>2. Before(S, m + 1) = Before(S, m) \cup {m}
      BY <1>8, <1>9
    <2>3. Cardinality(Before(S, m + 1)) = Cardinality(Before(S, m)) + 1
      BY <2>1, <2>2, <1>2, FS_AddElement
    <2> QED
      BY <2>3, <1>2, <1>5, <1>7
  <1> QED
    BY <1>9, <1>10 DEF Nth

\* A set of positions with one more at the end.
LEMMA CountOneMore ==
    ASSUME NEW n \in Nat, NEW S, S \subseteq 1..n
    PROVE  /\ Cardinality(S \cup {n + 1}) = Cardinality(S) + 1
           /\ Before(S \cup {n + 1}, n + 1) = S
           /\ \A i \in S : Before(S \cup {n + 1}, i) = Before(S, i)
           /\ \A i \in S : /\ Cardinality(Before(S, i)) \in Nat
                           /\ Cardinality(Before(S, i)) < Cardinality(S)
  <1>1. n + 1 \notin S /\ \A i \in S : i < n + 1 /\ ~(n + 1 < i) /\ i \in Nat
    OBVIOUS
  <1>2. IsFiniteSet(S) /\ Cardinality(S) \in Nat
    BY PositionsCount
  <1>3. Cardinality(S \cup {n + 1}) = Cardinality(S) + 1
    BY <1>1, <1>2, FS_AddElement
  <1>4. Before(S \cup {n + 1}, n + 1) = S
    <2>1. ~(n + 1 < n + 1)
      OBVIOUS
    <2>2. \A j : (j \in S \cup {n + 1} /\ j < n + 1) <=> j \in S
      BY <1>1, <2>1
    <2> QED
      BY <2>2, Zenon DEF Before
  <1>5. \A i \in S : Before(S \cup {n + 1}, i) = Before(S, i)
    BY <1>1 DEF Before
  <1>6. ASSUME NEW i \in S
        PROVE  /\ Cardinality(Before(S, i)) \in Nat
               /\ Cardinality(Before(S, i)) < Cardinality(S)
    <2>1. Before(S, i) \in SUBSET S /\ Before(S, i) # S
      BY <1>1 DEF Before
    <2>2. /\ IsFiniteSet(Before(S, i))
          /\ Cardinality(Before(S, i)) <= Cardinality(S)
          /\ Cardinality(S) = Cardinality(Before(S, i)) => S = Before(S, i)
      BY <2>1, <1>2, FS_Subset
    <2>3. Cardinality(Before(S, i)) \in Nat
      BY <2>2, FS_CardinalityType
    <2> QED
      BY <2>1, <2>2, <2>3, <1>2
  <1> QED
    BY <1>3, <1>4, <1>5, <1>6

-----------------------------------------------------------------------------
(* The items handed out *)

\* What is owed for the positions of a longer response.
LEMMA OwedAppend ==
    ASSUME NEW s \in Seq(Token), NEW x \in Token
    PROVE  /\ OwedPositions(s) \subseteq 1..Len(s)
           /\ OwedPositions(Append(s, x)) =
                OwedPositions(s) \cup
                  (IF Owed(Append(s, x), Len(s) + 1) THEN {Len(s) + 1} ELSE {})
  <1> DEFINE u == Append(s, x)
             L == Len(s)
  <1>1. /\ Len(u) = L + 1 /\ u[L + 1] = x /\ L \in Nat
        /\ \A i \in 1..L : u[i] = s[i]
    BY Appended
  <1>2. \A i \in 1..(L + 1) : OwnColumns(u, i) = OwnColumns(s, i)
    BY ColumnsAppend
  <1> HIDE DEF u, L
  <1>3. \A i \in 1..L : i \in 1..(L + 1)
    BY <1>1
  <1>4. \A i \in 1..L : Owed(u, i) <=> Owed(s, i)
    BY <1>1, <1>2, <1>3 DEF Owed
  <1>5. 1..Len(u) = 1..L \cup {L + 1}
    BY <1>1
  <1>6. OwedPositions(u) = OwedPositions(s) \cup (IF Owed(u, L + 1) THEN {L + 1} ELSE {})
    <2>1. OwedPositions(u) = {i \in 1..L \cup {L + 1} : Owed(u, i)}
      BY <1>5, Zenon DEF OwedPositions
    <2>2. OwedPositions(s) = {i \in 1..L : Owed(s, i)}
      BY DEF OwedPositions, L
    <2> QED
      BY <2>1, <2>2, <1>4
  <1> QED
    BY <1>6 DEF u, L, OwedPositions

\* What an item tells about a position does not change with what follows.
LEMMA TellsAppend ==
    ASSUME NEW s \in Seq(Token), NEW x \in Token, NEW i \in 1..Len(s), NEW g, Tells(g, s, i)
    PROVE  Tells(g, Append(s, x), i)
  <1> DEFINE u == Append(s, x)
             L == Len(s)
  <1>1. u[i] = s[i] /\ L \in Nat
    BY Appended
  <1>2. OwnColumns(u, i) = OwnColumns(s, i)
    <2>1. i \in 1..(Len(s) + 1)
      OBVIOUS
    <2> QED
      BY <2>1, ColumnsAppend
  <1>3. {j \in Positions(u, "meta") : j <= i} = {j \in Positions(s, "meta") : j <= i}
    <2>1. ~(Len(s) + 1 <= i)
      OBVIOUS
    <2>2. Positions(u, "meta") =
            Positions(s, "meta") \cup (IF x.t = "meta" THEN {Len(s) + 1} ELSE {})
      BY PositionsAppend
    <2> HIDE DEF u
    <2> QED
      BY <2>1, <2>2
  <1> HIDE DEF u
  <1>4. ResultSet(u, i) = ResultSet(s, i)
    BY <1>3 DEF ResultSet
  <1>5. Tells(g, u, i)
    BY <1>1, <1>2, <1>4 DEF Tells
  <1> QED
    BY <1>5 DEF u

\* How many result sets a longer response has.
LEMMA MetasCount ==
    ASSUME NEW s \in Seq(Token), NEW x \in Token
    PROVE  /\ Cardinality(Positions(s, "meta")) \in Nat
           /\ Cardinality(Positions(Append(s, x), "meta")) =
                Cardinality(Positions(s, "meta")) + (IF x.t = "meta" THEN 1 ELSE 0)
           /\ ResultSet(Append(s, x), Len(s) + 1) =
                Cardinality(Positions(Append(s, x), "meta")) - 1
  <1> DEFINE u == Append(s, x)
             old == Positions(s, "meta")
             new == Positions(u, "meta")
  <1>1. /\ old \subseteq 1..Len(s) /\ Len(s) \in Nat
        /\ new = old \cup (IF x.t = "meta" THEN {Len(s) + 1} ELSE {})
    <2>1. old \subseteq 1..Len(s) /\ Len(s) \in Nat
      BY DEF Positions
    <2>2. new = old \cup (IF x.t = "meta" THEN {Len(s) + 1} ELSE {})
      BY PositionsAppend
    <2> QED
      BY <2>1, <2>2
  <1> HIDE DEF old, new
  <1>2. Cardinality(old) \in Nat
    BY <1>1, PositionsCount
  <1>3. Cardinality(new) = Cardinality(old) + (IF x.t = "meta" THEN 1 ELSE 0)
    <2>1. CASE x.t = "meta"
      BY <1>1, <2>1, CountOneMore
    <2>2. CASE x.t # "meta"
      BY <1>1, <1>2, <2>2
    <2> QED
      BY <2>1, <2>2
  <1>4. {j \in new : j <= Len(s) + 1} = new
    <2>1. \A j \in old : j <= Len(s) + 1
      BY <1>1
    <2>2. Len(s) + 1 <= Len(s) + 1
      BY <1>1
    <2>3. \A j \in new : j <= Len(s) + 1
      BY <1>1, <2>1, <2>2
    <2> QED
      BY <2>3
  <1> QED
    BY <1>2, <1>3, <1>4 DEF ResultSet, old, new

\* A token more, handed out if it is owed.
LEMMA DeliveredAppend ==
    ASSUME NEW s \in Seq(Token), NEW x \in Token, NEW g \in Seq(Handed), NEW it \in Handed,
           NEW idx, Delivered(s, g, idx), NEW h, NEW jdx,
           Owed(Append(s, x), Len(s) + 1) =>
              h = Append(g, it) /\ Tells(it, Append(s, x), Len(s) + 1),
           ~Owed(Append(s, x), Len(s) + 1) => h = g,
           jdx = idx + (IF x.t = "meta" THEN 1 ELSE 0)
    PROVE  Delivered(Append(s, x), h, jdx)
  <1> DEFINE u == Append(s, x)
             L == Len(s)
             old == OwedPositions(s)
             new == OwedPositions(u)
             nth(i) == Cardinality(Before(old, i)) + 1
  <1>1. /\ old \subseteq 1..L /\ L \in Nat
        /\ new = old \cup (IF Owed(u, L + 1) THEN {L + 1} ELSE {})
    BY OwedAppend
  <1>2. jdx = Cardinality(Positions(u, "meta")) - 1
    <2>1. idx = Cardinality(Positions(s, "meta")) - 1
      BY DEF Delivered
    <2> QED
      BY <2>1, MetasCount
  <1>3. Len(g) = Cardinality(old) /\ \A i \in old : Tells(g[nth(i)], s, i)
    BY DEF Delivered
  <1>4. \A i \in old : Tells(g[nth(i)], u, i)
    <2>1. TAKE i \in old
    <2>2. i \in 1..Len(s) /\ Tells(g[nth(i)], s, i)
      BY <1>1, <1>3
    <2> HIDE DEF nth
    <2> QED
      BY <2>2, TellsAppend
  <1>5. CASE ~Owed(u, L + 1)
    <2>1. h = g /\ new = old
      BY <1>1, <1>5
    <2> QED
      BY <2>1, <1>2, <1>3, <1>4 DEF Delivered
  <1>6. CASE Owed(u, L + 1)
    <2>1. h = Append(g, it) /\ Tells(it, u, L + 1) /\ new = old \cup {L + 1}
      BY <1>1, <1>6
    <2>2. Len(h) = Len(g) + 1 /\ h[Len(g) + 1] = it /\ \A k \in 1..Len(g) : h[k] = g[k]
      BY <2>1, Appended
    <2> HIDE DEF u, L, old, new
    <2>3. /\ Cardinality(new) = Cardinality(old) + 1
          /\ Before(new, L + 1) = old
          /\ \A i \in old : Before(new, i) = Before(old, i)
          /\ \A i \in old : /\ Cardinality(Before(old, i)) \in Nat
                            /\ Cardinality(Before(old, i)) < Cardinality(old)
      <3>1. old \subseteq 1..L /\ L \in Nat
        BY <1>1
      <3>2. /\ Cardinality(old \cup {L + 1}) = Cardinality(old) + 1
            /\ Before(old \cup {L + 1}, L + 1) = old
            /\ \A i \in old : Before(old \cup {L + 1}, i) = Before(old, i)
            /\ \A i \in old : /\ Cardinality(Before(old, i)) \in Nat
                              /\ Cardinality(Before(old, i)) < Cardinality(old)
        BY ONLY <3>1, CountOneMore
      <3>3. new = old \cup {L + 1}
        BY <2>1
      <3> QED
        BY ONLY <3>2, <3>3
    <2>4. Len(h) = Cardinality(new)
      BY <2>2, <2>3, <1>3
    <2>5. \A i \in new : Tells(h[Cardinality(Before(new, i)) + 1], u, i)
      <3>1. TAKE i \in new
      <3>2. CASE i = L + 1
        <4>1. h[Cardinality(Before(new, i)) + 1] = it
          BY <3>2, <2>2, <2>3, <1>3
        <4> QED
          BY <3>2, <4>1, <2>1
      <3>3. CASE i \in old
        <4>1. nth(i) \in 1..Len(g)
          BY <3>3, <2>3, <1>3
        <4>2. h[Cardinality(Before(new, i)) + 1] = g[nth(i)]
          <5>1. Before(new, i) = Before(old, i)
            BY <3>3, <2>3
          <5> QED
            BY <4>1, <5>1, <2>2
        <4> QED
          BY <3>3, <4>2, <1>4
      <3> QED
        BY <3>2, <3>3, <2>1
    <2> QED
      BY <2>4, <2>5, <1>2 DEF Delivered, u, new
  <1> QED
    BY <1>5, <1>6

\* A token is owed exactly when poll_next makes an item of it.
LEMMA OwedIsYielded ==
    ASSUME TypeInv, ItemInv, ColumnsInv, kind \in Streams, IsToken(item)
    PROVE  Owed(Append(Taken, item), Len(Taken) + 1) <=> Yields(item)
  <1> DEFINE u == Append(Taken, item)
             L == Len(Taken)
  <1>1. Taken \in Seq(Token) /\ item \in Token /\ L \in Nat
    BY TakenIs
  <1>2. u[L + 1] = item
    BY <1>1, Appended
  <1>3. OwnColumns(u, L + 1) = Current
    <2>1. L + 1 \in 1..(L + 1)
      BY <1>1
    <2> QED
      BY <1>1, <2>1, ColumnsAppend DEF Current
  <1>4. item.t # "meta" => columns = Current
    BY DEF ColumnsInv, Current
  <1> HIDE DEF u, L
  <1>5. Owed(u, L + 1) <=>
          \/ item.t = "meta"
          \/ item.t = "row" /\ Current # NoMeta
          \/ /\ kind = "command"
             /\ \/ item.t \in {"status", "value", "done", "doneinproc"}
                \/ item.t = "doneproc" /\ item.m # "final"
    BY <1>2, <1>3 DEF Owed
  <1>6. Owed(u, L + 1) <=> Yields(item)
    BY <1>4, <1>5 DEF Yields, CountsRows, IsFinal
  <1> QED
    BY <1>6 DEF u, L

\* The item made of a token tells what it says.
LEMMA ItemTells ==
    ASSUME TypeInv, ReadInv, ColumnsInv, kind \in Streams, IsToken(item), Yields(item),
           index = Cardinality(Positions(Taken, "meta")) - 1
    PROVE  Tells(Item(item), Append(Taken, item), Len(Taken) + 1)
  <1> DEFINE u == Append(Taken, item)
             L == Len(Taken)
             count == Cardinality(Positions(Taken, "meta"))
  <1>1. /\ Taken \in Seq(Token) /\ item \in Token /\ L \in Nat
        /\ read = u /\ Len(read) = L + 1
    BY TakenIs DEF ReadInv
  <1>2. u[L + 1] = item
    BY <1>1, Appended
  <1>3. OwnColumns(u, L + 1) = Current
    <2>1. L + 1 \in 1..(L + 1)
      BY <1>1
    <2> QED
      BY <1>1, <2>1, ColumnsAppend DEF Current
  <1>4. item.t # "meta" => columns = Current
    BY DEF ColumnsInv, Current
  <1>5. /\ count \in Nat
        /\ ResultSet(u, L + 1) = count + (IF item.t = "meta" THEN 1 ELSE 0) - 1
    BY <1>1, MetasCount
  <1>6. index = count - 1
    OBVIOUS
  <1>7. Current # NoMeta => count # 0
    <2>1. SUFFICES ASSUME count = 0
                   PROVE  Current = NoMeta
      OBVIOUS
    <2>2. IsFiniteSet(Positions(Taken, "meta"))
      <3>1. Positions(Taken, "meta") \subseteq 1..L
        BY <1>1, PositionsBound
      <3> QED
        BY <3>1, <1>1, PositionsCount
    <2>3. Positions(Taken, "meta") = {}
      BY <2>1, <2>2, FS_EmptySet
    <2> QED
      BY <2>3 DEF Current, OwnColumns, Before
  <1> HIDE DEF u, L, count
  <1>8. CASE item.t = "meta"
    <2>1. Item(item).cols = item.m /\ Item(item).idx = NextIndex
      BY <1>8 DEF Item
    <2>2. NextIndex = ResultSet(u, L + 1)
      BY <1>5, <1>6, <1>8 DEF NextIndex, NoIndex
    <2>3. Tells(Item(item), u, L + 1)
      BY <1>2, <1>8, <2>1, <2>2 DEF Tells
    <2> QED
      BY <2>3 DEF u, L
  <1>9. CASE item.t = "row"
    <2>1. columns = Current /\ Current # NoMeta
      BY <1>4, <1>9 DEF Yields, CountsRows
    <2>2. index # NoIndex /\ index = ResultSet(u, L + 1)
      BY <1>5, <1>6, <1>7, <1>9, <2>1 DEF NoIndex
    <2>3. L + 1 \in 1..Len(read) /\ read[L + 1] = item
      BY <1>1, <1>2
    <2>4. item.n = L + 1
      BY <1>9, <2>3 DEF ReadInv, ItemInv
    <2>5. item.m = Current
      BY <1>1, <1>3, <1>9, <2>1, <2>3 DEF ReadInv, ContextInv, DecodedWithOwnMetadata
    <2>6. Item(item).cols = columns
      BY <1>9 DEF Item
    <2>7. Item(item).idx = index
      BY <1>9, <2>2 DEF Item
    <2>8. Item(item).data = <<item.m, item.n>>
      <3>1. ~CountsRows(item) /\ item.t \notin {"status", "value"}
        BY <1>9 DEF CountsRows
      <3> QED
        BY <1>9, <3>1 DEF Item
    <2>9. Tells(Item(item), u, L + 1)
      BY <1>2, <1>3, <1>9, <2>1, <2>2, <2>4, <2>5, <2>6, <2>7, <2>8 DEF Tells
    <2> QED
      BY <2>9 DEF u, L
  <1>10. CASE item.t \notin {"meta", "row"}
    <2>1. item.t \in {"status", "value"} \/ CountsRows(item)
      BY <1>10 DEF Yields
    <2>2. item.t \in {"status", "value"} => Item(item).data[2] = item.n
      <3>1. HAVE item.t \in {"status", "value"}
      <3>2. Item(item).data = <<NoMeta, item.n>>
        BY <3>1 DEF Item, CountsRows
      <3> QED
        BY <3>2
    <2>3. item.t \notin {"status", "value"} =>
             Item(item).data[2] = IF item.m = "count" THEN item.n ELSE 0
      <3>1. HAVE item.t \notin {"status", "value"}
      <3>2. Item(item).data = <<NoMeta, Rows(item)>>
        BY <3>1, <2>1, <1>10 DEF Item
      <3>3. Item(item).data[2] = Rows(item)
        BY <3>2
      <3> QED
        BY <3>3 DEF Rows
    <2>4. Tells(Item(item), u, L + 1)
      <3>1. Item(item).data[2] = IF item.t \in {"status", "value"} \/ item.m = "count"
                                 THEN item.n ELSE 0
        BY <2>2, <2>3
      <3> QED
        BY <1>2, <1>10, <3>1 DEF Tells
    <2> QED
      BY <2>4 DEF u, L
  <1> QED
    BY <1>8, <1>9, <1>10

\* A token taken and not handed out was not owed.
LEMMA SkippedWasNotOwed ==
    ASSUME TypeInv, ReadInv, ColumnsInv, ItemsInv, kind \in Streams, Consumes, IsToken(item),
           item' = Nothing, UNCHANGED <<got, index>>, ~Yields(item)
    PROVE  Delivered(Taken', got', index')
  <1>1. ItemInv /\ Delivered(Taken, got, index)
    BY DEF ReadInv, ItemsInv
  <1>2. Taken' = Append(Taken, item) /\ Taken \in Seq(Token) /\ item \in Token
    BY <1>1, TakenConsumes, TakenIs
  <1>3. ~Owed(Append(Taken, item), Len(Taken) + 1)
    BY <1>1, OwedIsYielded
  <1>4. item.t # "meta" /\ index \in Int /\ got \in Seq(Handed)
    BY DEF Yields, TypeInv
  <1>5. Item(item) \in Handed
    BY <1>1, ItemType
  <1>6. index = index + (IF item.t = "meta" THEN 1 ELSE 0)
    BY <1>4
  <1> DEFINE it == Item(item)
  <1> HIDE DEF it
  <1>7. it \in Handed
    BY <1>5 DEF it
  <1>8. Delivered(Append(Taken, item), got, index)
    BY <1>1, <1>2, <1>3, <1>4, <1>6, <1>7, DeliveredAppend
  <1> QED
    BY <1>2, <1>8

\* A consumer that keeps the item, or had none, takes nothing.
LEMMA NothingTaken ==
    ASSUME TypeInv, ReadInv, ItemsInv, kind \in Streams, Consumes,
           ~(IsToken(item) /\ item' = Nothing), UNCHANGED <<got, index>>
    PROVE  Delivered(Taken', got', index')
  <1>1. Taken' = Taken
    BY TakenConsumes DEF ReadInv
  <1> QED
    BY <1>1 DEF ItemsInv

\* Every consumer's step keeps what was handed out in line with what was taken.
LEMMA ItemsConsumes ==
    ASSUME TypeInv, ReadInv, ColumnsInv, ItemsInv, kind \in Streams, Consumes
    PROVE  Delivered(Taken', got', index')
  <1>1. item' = item \/ item' = Nothing
    BY ConsumesReads
  <1>2. kind \notin Folds
    BY DEF Streams, Folds
  <1>3. CASE ForwardToMetadata
    <2>1. /\ pc = "forward" /\ UNCHANGED <<got, index>>
          /\ item' = IF item.t = "meta" THEN item ELSE Nothing
      BY <1>3 DEF ForwardToMetadata, stream
    <2>2. kind = "query" /\ columns = NoMeta
      BY <2>1 DEF ColumnsInv
    <2>3. CASE IsToken(item) /\ item' = Nothing
      <3>1. item.t # "meta"
        <4>1. item # Nothing
          BY <2>3, NotTokens
        <4> QED
          BY <2>1, <2>3, <4>1
      <3>2. ~Yields(item)
        BY <3>1, <2>2 DEF Yields
      <3> QED
        BY <2>1, <2>3, <3>2, SkippedWasNotOwed
    <2>4. CASE ~(IsToken(item) /\ item' = Nothing)
      BY <2>1, <2>4, NothingTaken
    <2> QED
      BY <2>3, <2>4
  <1>4. CASE Columns
    <2>1. /\ pc = "columns" /\ UNCHANGED <<got, index>>
          /\ item' = IF KeptPeeked THEN item ELSE Nothing
      BY <1>4 DEF Columns
    <2>2. kind = "query"
      BY <2>1 DEF ColumnsInv
    <2>3. CASE IsToken(item) /\ item' = Nothing
      <3>1. item.t \notin {"meta", "row"}
        <4>1. item # Nothing
          BY <2>3, NotTokens
        <4> QED
          BY <2>1, <2>3, <4>1 DEF KeptPeeked
      <3>2. ~Yields(item)
        BY <3>1, <2>2 DEF Yields
      <3> QED
        BY <2>1, <2>3, <3>2, SkippedWasNotOwed
    <2>4. CASE ~(IsToken(item) /\ item' = Nothing)
      BY <2>1, <2>4, NothingTaken
    <2> QED
      BY <2>3, <2>4
  <1>5. CASE PollNext
    <2>1. item' = Nothing /\ PollCase
      BY <1>5, PollCases
    <2>2. CASE IsToken(item) /\ Yields(item)
      <3>1. ItemInv /\ Delivered(Taken, got, index)
        BY DEF ReadInv, ItemsInv
      <3>2. /\ got' = Append(got, Item(item))
            /\ index' = IF item.t = "meta" THEN NextIndex ELSE index
        <4>1. item.t # "err" /\ item.t # "end"
          BY <2>2, NotTokens
        <4>2. PollYields
          BY <2>1, <2>2, <4>1 DEF PollCase
        <4> QED
          BY <4>2 DEF PollYields
      <3>3. Taken' = Append(Taken, item) /\ Taken \in Seq(Token) /\ item \in Token
        BY <2>1, <2>2, <3>1, TakenConsumes, TakenIs
      <3>4. Owed(Append(Taken, item), Len(Taken) + 1)
        BY <2>2, <3>1, OwedIsYielded
      <3>5. index = Cardinality(Positions(Taken, "meta")) - 1
        BY <3>1 DEF Delivered
      <3>6. Tells(Item(item), Append(Taken, item), Len(Taken) + 1)
        BY <2>2, <3>5, ItemTells
      <3>7. Item(item) \in Handed /\ got \in Seq(Handed)
        BY <2>2, <3>1, ItemType DEF TypeInv
      <3>8. index' = index + (IF item.t = "meta" THEN 1 ELSE 0)
        BY <3>2 DEF NextIndex, NoIndex, TypeInv
      <3> DEFINE it == Item(item)
      <3>9. it \in Handed /\ got' = Append(got, it)
            /\ Tells(it, Append(Taken, item), Len(Taken) + 1)
        BY <3>2, <3>6, <3>7
      <3> HIDE DEF it
      <3>10. Delivered(Append(Taken, item), got', index')
        BY <3>1, <3>3, <3>4, <3>7, <3>8, <3>9, DeliveredAppend
      <3> QED
        BY <3>3, <3>10
    <2>3. CASE IsToken(item) /\ ~Yields(item)
      <3>1. UNCHANGED <<got, index>>
        <4>1. item.t # "err" /\ item.t # "end"
          BY <2>3, NotTokens
        <4> QED
          BY <2>1, <2>3, <4>1 DEF PollCase, PollFails, stream
      <3> QED
        BY <2>1, <2>3, <3>1, SkippedWasNotOwed
    <2>4. CASE ~IsToken(item)
      <3>1. item.t # "row"
        BY <2>4 DEF IsToken, Types
      <3>2. UNCHANGED <<got, index>>
        BY <2>1, <2>4, <3>1 DEF PollCase, PollFails, PollEnds, stream
      <3> QED
        BY <2>4, <3>2, NothingTaken
    <2> QED
      BY <2>2, <2>3, <2>4
  <1>6. CASE FoldStep
    <2>1. pc = "fold"
      BY <1>6 DEF FoldStep
    <2> QED
      BY <2>1, <1>2 DEF ColumnsInv
  <1>7. CASE (\E what \in {"columns", "next", "collect"} : Ask(what)) \/ GiveUp
    <2>1. UNCHANGED <<item, got, index>>
      BY <1>7 DEF Ask, GiveUp, stream, history
    <2>2. ~(IsToken(item) /\ item' = Nothing)
      BY <2>1, NotTokens
    <2> QED
      BY <2>1, <2>2, NothingTaken
  <1> QED
    BY <1>3, <1>4, <1>5, <1>6, <1>7 DEF Consumes

\* Nothing is owed of a fresh response.
LEMMA NothingOwed ==
    /\ Cardinality(Positions(<<>>, "meta")) = 0
    /\ Cardinality({}) = 0
    /\ Len(<<>>) = 0
  BY FS_EmptySet, NothingRead

\* The items handed out are right in every reachable state.
LEMMA ItemsAlways == Spec => []ItemsInv
  <1>1. ASSUME Init
        PROVE  ItemsInv
    <2>1. Taken = <<>> /\ got = <<>> /\ index = -1
      BY <1>1, NotTokens DEF Init, Taken, NoIndex
    <2>2. OwedPositions(<<>>) = {}
      BY NothingRead DEF OwedPositions
    <2>3. Delivered(<<>>, <<>>, -1)
      <3>1. -1 = 0 - 1
        OBVIOUS
      <3>2. \A i \in {} : Tells(<<>>[Cardinality(Before({}, i)) + 1], <<>>, i)
        OBVIOUS
      <3> QED
        BY <2>2, <3>1, <3>2, NothingOwed, Zenon DEF Delivered
    <2> QED
      BY <2>1, <2>3 DEF ItemsInv
  <1>2. ASSUME TypeInv /\ ReadInv, ColumnsInv, ItemsInv, [Next]_vars
        PROVE  ItemsInv'
    <2>1. CASE (\E k \in Streams \cup Folds : Call(k)) \/ DropStream
      <3>1. read' = <<>> /\ item' = Nothing /\ got' = <<>> /\ index' = -1
        BY <1>2, <2>1, FreshCases, FreshStep
      <3>2. Taken' = <<>>
        BY <3>1, NotTokens DEF Taken, IsToken
      <3>3. (OwedPositions(Taken))' = {}
        BY <3>2, NothingRead DEF OwedPositions
      <3>4. (Positions(Taken, "meta"))' = {}
        BY <3>2, NothingRead DEF Positions
      <3>5. -1 = 0 - 1
        OBVIOUS
      <3> QED
        BY <3>1, <3>2, <3>3, <3>4, <3>5, NothingOwed DEF ItemsInv, Delivered
    <2>2. ASSUME UNCHANGED kind, kind \in Streams => Delivered(Taken', got', index')
          PROVE  ItemsInv'
      BY <2>2 DEF ItemsInv, Delivered, OwedPositions, Owed
    <2>3. CASE Unfold
      <3>1. Taken' = Taken /\ UNCHANGED <<kind, got, index>>
        BY <1>2, <2>3, TakenUnfold, UnfoldCases DEF ReadInv, stream, history
      <3> QED
        BY <1>2, <2>2, <3>1 DEF ItemsInv
    <2>4. CASE Consumes
      BY <1>2, <2>2, <2>4, ItemsConsumes, ConsumesReads
    <2>5. CASE UNCHANGED vars
      <3>1. Taken' = Taken /\ UNCHANGED <<kind, got, index>>
        BY <2>5 DEF Taken, IsToken, vars, tokenStream, stream, history
      <3> QED
        BY <1>2, <2>2, <3>1 DEF ItemsInv
    <2> QED
      BY <1>2, <2>1, <2>3, <2>4, <2>5, NextCases
  <1> QED
    BY <1>1, <1>2, ReadAlways, ColumnsAlways, PTL DEF Spec

\* What a stream hands out is what its response says, in order, nothing lost or
\* repeated, each row with the columns and the number of its own result set, for
\* every response and every interleaving of next(), columns() and futures given
\* up (poll_next, columns, forward_to_metadata).
THEOREM StreamsAreFaithful == Spec => []ItemsFaithful
  <1>1. ASSUME TypeInv /\ ReadInv, ItemsInv
        PROVE  ItemsFaithful
    <2>1. SUFFICES ASSUME kind \in Streams
                   PROVE  /\ Len(got) = Cardinality(OwedPositions(Taken))
                          /\ \A k \in 1..Len(got) :
                                Tells(got[k], Taken, Nth(OwedPositions(Taken), k))
      BY DEF ItemsFaithful
    <2> DEFINE owed == OwedPositions(Taken)
    <2>2. /\ Len(got) = Cardinality(owed)
          /\ \A i \in owed : Tells(got[Cardinality(Before(owed, i)) + 1], Taken, i)
      BY <1>1, <2>1 DEF ItemsInv, Delivered
    <2>3. owed \subseteq 1..Len(Taken) /\ Len(Taken) \in Nat
      BY <1>1, TakenIs DEF ReadInv, OwedPositions
    <2> HIDE DEF owed
    <2>4. \A k \in 1..Len(got) : Tells(got[k], Taken, Nth(owed, k))
      <3>1. TAKE k \in 1..Len(got)
      <3>2. k \in 1..Cardinality(owed) /\ k \in Int
        BY <2>2
      <3>3. Nth(owed, k) \in owed /\ Cardinality(Before(owed, Nth(owed, k))) = k - 1
        BY <2>3, <3>2, NthIs
      <3>4. Cardinality(Before(owed, Nth(owed, k))) + 1 = k
        BY <3>2, <3>3
      <3> QED
        BY <2>2, <3>3, <3>4
    <2> QED
      BY <2>2, <2>4 DEF owed
  <1> QED
    BY <1>1, ReadAlways, ItemsAlways, PTL

-----------------------------------------------------------------------------
(* Parts of a sequence, by their positions *)

\* Two elements with as many below them are the same.
LEMMA NthUnique ==
    ASSUME NEW n \in Nat, NEW S, S \subseteq 1..n, NEW i \in S, NEW j \in S,
           Cardinality(Before(S, i)) = Cardinality(Before(S, j))
    PROVE  i = j
  <1>1. ASSUME NEW x \in S, NEW y \in S, x < y,
               Cardinality(Before(S, x)) = Cardinality(Before(S, y))
        PROVE  FALSE
    <2>1. Before(S, x) \subseteq Before(S, y) /\ x \in Before(S, y) /\ x \notin Before(S, x)
      <3>1. \A z \in S : z \in Nat
        OBVIOUS
      <3>2. \A z \in S : z < x => z < y
        BY <1>1, <3>1
      <3>3. ~(x < x)
        BY <3>1
      <3> QED
        BY <1>1, <3>2, <3>3 DEF Before
    <2>2. Before(S, y) \subseteq 1..n
      BY DEF Before
    <2>3. IsFiniteSet(Before(S, y))
      BY <2>2, PositionsCount
    <2>4. Before(S, x) \in SUBSET Before(S, y)
      BY <2>1
    <2>5. Before(S, x) = Before(S, y)
      BY <1>1, <2>3, <2>4, FS_Subset
    <2> QED
      BY <2>1, <2>5
  <1>2. i \in Nat /\ j \in Nat
    OBVIOUS
  <1>3. i < j \/ j < i \/ i = j
    BY <1>2
  <1> QED
    BY <1>1, <1>3

\* Nth of a set of positions with one more at the end.
LEMMA NthOneMore ==
    ASSUME NEW n \in Nat, NEW S, S \subseteq 1..n
    PROVE  /\ \A k \in 1..Cardinality(S) : Nth(S \cup {n + 1}, k) = Nth(S, k)
           /\ Nth(S \cup {n + 1}, Cardinality(S) + 1) = n + 1
  <1> DEFINE T == S \cup {n + 1}
  <1>1. T \subseteq 1..(n + 1) /\ n + 1 \in Nat /\ S \subseteq T /\ n + 1 \in T
    OBVIOUS
  <1>2. Cardinality(S) \in Nat
    BY PositionsCount
  <1>3. /\ Cardinality(T) = Cardinality(S) + 1
        /\ Before(T, n + 1) = S
        /\ \A i \in S : Before(T, i) = Before(S, i)
    BY CountOneMore
  <1> HIDE DEF T
  <1>4. ASSUME NEW i \in T, NEW k \in 1..Cardinality(T), Cardinality(Before(T, i)) = k - 1
        PROVE  Nth(T, k) = i
    <2>1. Nth(T, k) \in T /\ Cardinality(Before(T, Nth(T, k))) = k - 1
      BY <1>1, NthIs
    <2> QED
      BY <1>1, <1>4, <2>1, NthUnique
  <1>5. ASSUME NEW k \in 1..Cardinality(S)
        PROVE  Nth(T, k) = Nth(S, k)
    <2>1. Nth(S, k) \in S /\ Cardinality(Before(S, Nth(S, k))) = k - 1
      BY NthIs
    <2>2. k \in 1..Cardinality(T)
      BY <1>2, <1>3
    <2> QED
      BY <1>1, <1>3, <1>4, <2>1, <2>2
  <1>6. Nth(T, Cardinality(S) + 1) = n + 1
    <2>1. Cardinality(S) + 1 \in 1..Cardinality(T) /\ Cardinality(S) = (Cardinality(S) + 1) - 1
      BY <1>2, <1>3
    <2> QED
      BY <1>1, <1>3, <1>4, <2>1
  <1> QED
    BY <1>5, <1>6 DEF T

\* The elements at some positions, when the sequence grows by one.
Grows(R, s, x, S) ==
    /\ Where(s, S) \in Seq(R) /\ Len(Where(s, S)) = Cardinality(S)
    /\ Where(Append(s, x), S) = Where(s, S)
    /\ Where(Append(s, x), S \cup {Len(s) + 1}) = Append(Where(s, S), x)
LEMMA WhereAppend ==
    ASSUME NEW R, NEW s \in Seq(R), NEW x \in R, NEW S \in SUBSET (1..Len(s))
    PROVE  Grows(R, s, x, S)
  <1> DEFINE u == Append(s, x)
             L == Len(s)
             c == Cardinality(S)
             w == Where(s, S)
             T == S \cup {L + 1}
  <1>1. /\ u \in Seq(R) /\ Len(u) = L + 1 /\ u[L + 1] = x
        /\ \A i \in 1..L : u[i] = s[i]
    BY Appended
  <1>2. L \in Nat /\ c \in Nat /\ S \subseteq 1..L
    <2>1. L \in Nat /\ S \subseteq 1..L
      OBVIOUS
    <2> HIDE DEF L
    <2> QED
      BY <2>1, PositionsCount
  <1> HIDE DEF L, u, c, T
  <1>3. \A k \in 1..c : Nth(S, k) \in S /\ Nth(S, k) \in 1..L
    BY <1>2, NthIs DEF c
  <1>4. \A k \in 1..c : s[Nth(S, k)] \in R
    <2>1. \A i \in 1..L : s[i] \in R
      BY DEF L
    <2> QED
      BY <1>3, <2>1
  <1>5. w = [k \in 1..c |-> s[Nth(S, k)]]
    BY DEF Where, c
  <1>6. w \in Seq(R) /\ Len(w) = c
    BY <1>2, <1>4, <1>5
  <1>7. Where(u, S) = w
    <2>1. Where(u, S) = [k \in 1..c |-> u[Nth(S, k)]]
      BY DEF Where, c
    <2>2. \A k \in 1..c : u[Nth(S, k)] = s[Nth(S, k)]
      BY <1>1, <1>3
    <2> QED
      BY <1>5, <2>1, <2>2
  <1>8. Where(u, T) = Append(w, x)
    <2>1. Cardinality(T) = c + 1
      BY <1>2, CountOneMore DEF c, T
    <2>2. Where(u, T) = [k \in 1..(c + 1) |-> u[Nth(T, k)]]
      BY <2>1 DEF Where
    <2>3. (\A k \in 1..c : Nth(T, k) = Nth(S, k)) /\ Nth(T, c + 1) = L + 1
      BY <1>2, NthOneMore DEF c, T
    <2>4. \A k \in 1..c : u[Nth(T, k)] = w[k]
      BY <1>1, <1>3, <1>5, <2>3
    <2>5. u[Nth(T, c + 1)] = x
      BY <1>1, <2>3
    <2>6. Append(w, x) \in Seq(R) /\ Len(Append(w, x)) = c + 1
          /\ Append(w, x)[c + 1] = x /\ \A k \in 1..c : Append(w, x)[k] = w[k]
      BY <1>6, Appended
    <2>7. Where(u, T) \in Seq(R) /\ Len(Where(u, T)) = c + 1
      <3>1. \A k \in 1..(c + 1) : k \in 1..c \/ k = c + 1
        BY <1>2
      <3>2. \A k \in 1..c : w[k] \in R
        BY <1>4, <1>5
      <3>3. \A k \in 1..(c + 1) : u[Nth(T, k)] \in R
        BY <2>4, <2>5, <3>1, <3>2
      <3> QED
        BY <1>2, <2>2, <3>3
    <2>8. \A k \in 1..(c + 1) : Where(u, T)[k] = Append(w, x)[k]
      <3>1. \A k \in 1..(c + 1) : k \in 1..c \/ k = c + 1
        BY <1>2
      <3> QED
        BY <2>2, <2>4, <2>5, <2>6, <3>1
    <2> DEFINE p == Where(u, T)
               q == Append(w, x)
    <2> HIDE DEF p, q
    <2>9. p = q
      BY <2>6, <2>7, <2>8 DEF p, q
    <2> QED
      BY <2>9 DEF p, q
  <1> QED
    BY <1>6, <1>7, <1>8 DEF u, c, T, L, Grows

\* Of a type.
LEMMA OfTypeAppend ==
    ASSUME NEW R, NEW s \in Seq(R), NEW x \in R, NEW type
    PROVE  /\ OfType(s, type) \in Seq(R)
           /\ OfType(Append(s, x), type) = IF x.t = type THEN Append(OfType(s, type), x)
                                                         ELSE OfType(s, type)
  <1>1. Positions(s, type) \subseteq 1..Len(s)
    BY DEF Positions
  <1>2. Positions(Append(s, x), type) =
          Positions(s, type) \cup (IF x.t = type THEN {Len(s) + 1} ELSE {})
    BY PositionsAppend
  <1>3. Grows(R, s, x, Positions(s, type))
    BY <1>1, WhereAppend
  <1>4. CASE x.t = type
    BY <1>2, <1>3, <1>4 DEF OfType, Grows
  <1>5. CASE x.t # type
    <2>1. Positions(Append(s, x), type) = Positions(s, type)
      BY <1>2, <1>5
    <2> QED
      BY <1>3, <1>5, <2>1 DEF OfType, Grows
  <1> QED
    BY <1>4, <1>5

-----------------------------------------------------------------------------
(* The result sets of the items *)

\* Openings of a longer sequence.
LEMMA OpeningsAppend ==
    ASSUME NEW s \in Seq(Handed), NEW x \in Handed
    PROVE  /\ Openings(s) \subseteq 1..Len(s) /\ Len(s) \in Nat
           /\ Openings(s) = {} => \A j \in 1..Len(s) : s[j].t \notin {"meta", "row"}
           /\ Openings(Append(s, x)) =
                IF x.t = "meta" \/ (x.t = "row" /\ Openings(s) = {})
                THEN Openings(s) \cup {Len(s) + 1} ELSE Openings(s)
  <1> DEFINE u == Append(s, x)
             L == Len(s)
             first(t, i) == \A j \in 1..(i - 1) : t[j].t \notin {"meta", "row"}
  <1>1. /\ Len(u) = L + 1 /\ u[L + 1] = x /\ L \in Nat
        /\ \A i \in 1..L : u[i] = s[i]
    BY Appended
  <1>2. /\ Positions(s, "meta") \subseteq 1..L /\ Positions(s, "row") \subseteq 1..L
        /\ Openings(s) \subseteq 1..L
    BY DEF Positions, Openings
  <1>3. ASSUME NEW j0 \in 1..L, s[j0].t \in {"meta", "row"}
        PROVE  Openings(s) # {}
    <2> DEFINE S == {j \in 1..L : s[j].t \in {"meta", "row"}}
    <2>1. S \subseteq Nat /\ S # {}
      BY <1>1, <1>3
    <2>2. PICK i \in S : \A y \in S : i <= y
      <3> HIDE DEF S
      <3> QED
        BY <2>1, LeastNatural
    <2>3. \A j \in 1..(i - 1) : j \in 1..L /\ ~(i <= j)
      BY <1>1, <2>2
    <2>4. first(s, i)
      BY <2>2, <2>3
    <2>5. i \in Positions(s, s[i].t) /\ i \in 1..L /\ s[i].t \in {"meta", "row"}
      BY <2>2 DEF Positions
    <2>6. i \in Openings(s)
      BY <2>4, <2>5 DEF Openings, Positions
    <2> QED
      BY <2>6
  <1>4. Positions(u, "meta") = Positions(s, "meta") \cup (IF x.t = "meta" THEN {L + 1} ELSE {})
    BY PositionsAppend
  <1>5. Positions(u, "row") = Positions(s, "row") \cup (IF x.t = "row" THEN {L + 1} ELSE {})
    BY PositionsAppend
  <1>6. \A i \in 1..L : first(u, i) <=> first(s, i)
    <2>1. \A i \in 1..L : \A j \in 1..(i - 1) : j \in 1..L
      BY <1>1
    <2> QED
      BY <1>1, <2>1
  <1>7. first(u, L + 1) <=> Openings(s) = {}
    <2>1. (L + 1) - 1 = L
      BY <1>1
    <2>2. first(u, L + 1) <=> \A j \in 1..L : s[j].t \notin {"meta", "row"}
      BY <1>1, <2>1
    <2>3. ASSUME NEW i \in Openings(s) PROVE i \in 1..L /\ s[i].t \in {"meta", "row"}
      BY <2>3 DEF Openings, Positions
    <2> QED
      BY <1>3, <2>2, <2>3
  <1> HIDE DEF first, u, L
  <1>8. /\ Openings(s) = Positions(s, "meta") \cup {i \in Positions(s, "row") : first(s, i)}
        /\ Openings(u) = Positions(u, "meta") \cup {i \in Positions(u, "row") : first(u, i)}
    BY DEF Openings, first
  <1>9. L + 1 \notin 1..L
    BY <1>1 DEF L
  <1>10. Openings(u) = IF x.t = "meta" \/ (x.t = "row" /\ Openings(s) = {})
                       THEN Openings(s) \cup {L + 1} ELSE Openings(s)
    <2>1. CASE x.t = "meta"
      BY <1>2, <1>4, <1>5, <1>6, <1>8, <2>1
    <2>2. CASE x.t = "row"
      BY <1>2, <1>4, <1>5, <1>6, <1>7, <1>8, <2>2
    <2>3. CASE x.t \notin {"meta", "row"}
      BY <1>2, <1>4, <1>5, <1>6, <1>8, <2>3
    <2> QED
      BY <2>1, <2>2, <2>3
  <1> QED
    BY <1>1, <1>2, <1>3, <1>10 DEF u, L

\* Nothing lies at no positions.
LEMMA WhereNothing ==
    ASSUME NEW s
    PROVE  Where(s, {}) = <<>>
  <1>1. Cardinality({}) = 0
    BY FS_EmptySet
  <1> QED
    BY <1>1 DEF Where

\* The rows of the k-th result set, when an item is added.
LEMMA RowsOfAppend ==
    ASSUME NEW s \in Seq(Handed), NEW x \in Handed, NEW k \in Nat
    PROVE  /\ RowsOf(s, k) \in SUBSET (1..Len(s))
           /\ k > Cardinality(Openings(s)) => RowsOf(s, k) = {}
           /\ RowsOf(Append(s, x), k) =
                IF x.t = "row" /\ k = Cardinality(Openings(Append(s, x)))
                THEN RowsOf(s, k) \cup {Len(s) + 1} ELSE RowsOf(s, k)
  <1> DEFINE u == Append(s, x)
             L == Len(s)
             O == Openings(s)
             Q == Openings(u)
             rows == Positions(s, "row")
  <1>1. /\ O \subseteq 1..L /\ L \in Nat
        /\ O = {} => \A j \in 1..L : s[j].t \notin {"meta", "row"}
        /\ Q = IF x.t = "meta" \/ (x.t = "row" /\ O = {}) THEN O \cup {L + 1} ELSE O
    BY OpeningsAppend
  <1>2. rows \subseteq 1..L /\ O = {} => rows = {}
    BY <1>1 DEF Positions
  <1>3. Positions(u, "row") = rows \cup (IF x.t = "row" THEN {L + 1} ELSE {})
    BY PositionsAppend
  <1>4. RowsOf(s, k) = {i \in rows : Cardinality(Before(O, i + 1)) = k}
    BY DEF RowsOf
  <1>5. RowsOf(u, k) = {i \in Positions(u, "row") : Cardinality(Before(Q, i + 1)) = k}
    BY DEF RowsOf
  <1>6. rows \subseteq 1..L
    BY DEF Positions
  <1> HIDE DEF u, L, O, Q, rows
  <1>7. \A i \in rows : Before(Q, i + 1) = Before(O, i + 1)
    <2>1. TAKE i \in rows
    <2>2. i \in Nat /\ i <= L /\ ~(L + 1 < i + 1)
      BY <1>1, <1>6
    <2> QED
      BY <1>1, <2>2 DEF Before
  <1>8. Before(Q, (L + 1) + 1) = Q
    <2>1. \A j \in Q : j < (L + 1) + 1
      <3>1. \A j \in 1..L : j < (L + 1) + 1
        BY <1>1
      <3>2. L + 1 < (L + 1) + 1
        BY <1>1
      <3>3. \A j \in Q : j \in 1..L \/ j = L + 1
        BY <1>1
      <3> QED
        BY <3>1, <3>2, <3>3
    <2> QED
      BY <2>1 DEF Before
  <1>9. ASSUME NEW i \in rows
        PROVE  Cardinality(Before(O, i + 1)) \in Nat /\ Cardinality(Before(O, i + 1)) <= Cardinality(O)
    <2>1. IsFiniteSet(O) /\ Before(O, i + 1) \in SUBSET O /\ Before(O, i + 1) \subseteq 1..L
      BY <1>1, PositionsCount DEF Before
    <2> QED
      BY <1>1, <2>1, FS_Subset, PositionsCount
  <1>10. k > Cardinality(O) => RowsOf(s, k) = {}
    <2>1. Cardinality(O) \in Nat
      BY <1>1, PositionsCount
    <2> QED
      BY <1>4, <1>9, <2>1
  <1>11. RowsOf(u, k) = IF x.t = "row" /\ k = Cardinality(Q)
                        THEN RowsOf(s, k) \cup {L + 1} ELSE RowsOf(s, k)
    <2>1. CASE x.t # "row"
      <3>1. Positions(u, "row") = rows
        BY <1>3, <2>1
      <3> QED
        BY <1>4, <1>5, <1>7, <2>1, <3>1
    <2>2. CASE x.t = "row"
      <3>1. Positions(u, "row") = rows \cup {L + 1}
        BY <1>3, <2>2
      <3>2. RowsOf(u, k) = {i \in rows : Cardinality(Before(Q, i + 1)) = k} \cup
                           {i \in {L + 1} : Cardinality(Before(Q, i + 1)) = k}
        BY <1>5, <3>1
      <3>3. {i \in rows : Cardinality(Before(Q, i + 1)) = k} = RowsOf(s, k)
        BY <1>4, <1>7
      <3>4. {i \in {L + 1} : Cardinality(Before(Q, i + 1)) = k} =
              IF k = Cardinality(Q) THEN {L + 1} ELSE {}
        BY <1>8
      <3> QED
        BY <2>2, <3>2, <3>3, <3>4
    <2> QED
      BY <2>1, <2>2
  <1>12. RowsOf(s, k) \in SUBSET (1..L)
    BY <1>4, <1>6
  <1> QED
    BY <1>10, <1>11, <1>12 DEF u, L, O, Q

\* The k-th result set of the items s, and how many there are.
Set(s, k) == Where(s, RowsOf(s, k))
Count(s) == Cardinality(Openings(s))

\* Both, when an item is added: metadata opens an empty one, and so does a row
\* before all others; a row goes to the last one.
SetGrows(s, x, k) ==
    /\ Set(s, k) \in Seq(Handed)
    /\ k > Count(s) => Set(s, k) = <<>>
    /\ Set(Append(s, x), k) = IF x.t = "row" /\ k = Count(Append(s, x))
                              THEN Append(Set(s, k), x) ELSE Set(s, k)
LEMMA SetsAppend ==
    ASSUME NEW s \in Seq(Handed), NEW x \in Handed
    PROVE  /\ Count(s) \in Nat /\ Count(Append(s, x)) \in Nat
           /\ Count(Append(s, x)) = IF x.t = "meta" \/ (x.t = "row" /\ Count(s) = 0)
                                    THEN Count(s) + 1 ELSE Count(s)
           /\ \A k \in Nat : SetGrows(s, x, k)
  <1> DEFINE u == Append(s, x)
             L == Len(s)
             O == Openings(s)
             Q == Openings(u)
  <1>1. /\ O \subseteq 1..L /\ L \in Nat
        /\ Q = IF x.t = "meta" \/ (x.t = "row" /\ O = {}) THEN O \cup {L + 1} ELSE O
    BY OpeningsAppend
  <1>2. Count(s) = Cardinality(O) /\ Count(u) = Cardinality(Q)
    BY DEF Count
  <1>3. ASSUME NEW k \in Nat
        PROVE  SetGrows(s, x, k)
    <2> DEFINE S == RowsOf(s, k)
    <2>1. /\ S \in SUBSET (1..Len(s))
          /\ k > Cardinality(O) => S = {}
          /\ RowsOf(u, k) = IF x.t = "row" /\ k = Cardinality(Q) THEN S \cup {Len(s) + 1} ELSE S
      BY RowsOfAppend
    <2> HIDE DEF S, O, Q
    <2>2. Grows(Handed, s, x, S)
      BY <2>1, WhereAppend
    <2>3. Set(s, k) = Where(s, S) /\ Set(u, k) = Where(u, RowsOf(u, k))
      BY DEF Set, S
    <2>4. Where(s, {}) = <<>>
      BY WhereNothing
    <2>5. Set(s, k) \in Seq(Handed) /\ (k > Count(s) => Set(s, k) = <<>>)
      BY <1>2, <2>1, <2>2, <2>3, <2>4 DEF Grows
    <2>6. Set(u, k) = IF x.t = "row" /\ k = Count(u) THEN Append(Set(s, k), x) ELSE Set(s, k)
      <3>1. CASE x.t = "row" /\ k = Count(u)
        BY <1>2, <2>1, <2>2, <2>3, <3>1 DEF Grows
      <3>2. CASE ~(x.t = "row" /\ k = Count(u))
        BY <1>2, <2>1, <2>2, <2>3, <3>2 DEF Grows
      <3> QED
        BY <3>1, <3>2
    <2> QED
      BY <2>5, <2>6 DEF SetGrows
  <1> HIDE DEF O, Q, L
  <1>4. Cardinality(O) \in Nat /\ IsFiniteSet(O) /\ (Cardinality(O) = 0 <=> O = {})
    <2>1. Cardinality(O) \in Nat /\ IsFiniteSet(O)
      BY <1>1, PositionsCount
    <2> QED
      BY <2>1, FS_EmptySet
  <1>5. Cardinality(O \cup {L + 1}) = Cardinality(O) + 1
    BY <1>1, CountOneMore
  <1>6. Count(u) = IF x.t = "meta" \/ (x.t = "row" /\ Count(s) = 0) THEN Count(s) + 1 ELSE Count(s)
    BY <1>1, <1>2, <1>4, <1>5
  <1> QED
    BY <1>2, <1>3, <1>4, <1>6 DEF u

-----------------------------------------------------------------------------
(* What a collecting call has gathered *)

Accumulator == [results : Seq(Seq(Handed)), current : Seq(Seq(Handed)), status : Nat,
                values : Seq(Nat), counts : Seq(Nat), cols : Seq(Metas)]

LastNumber(s) == IF s = <<>> THEN 0 ELSE s[Len(s)].data[2]

\* All result sets of the items s but the last are closed, the last is the
\* current one.
GatheredSets(a, s) ==
    /\ Len(a.results) = IF Count(s) = 0 THEN 0 ELSE Count(s) - 1
    /\ \A k \in 1..Len(a.results) : a.results[k] = Set(s, k)
    /\ a.current = IF Count(s) = 0 THEN <<>> ELSE <<Set(s, Count(s))>>
GatheredNumbers(a, s) ==
    /\ a.status = LastNumber(OfType(s, "status"))
    /\ a.values = Numbers(OfType(s, "value"))
    /\ a.counts = Numbers(OfType(s, "affected"))

LEMMA NumbersAppend ==
    ASSUME NEW s \in Seq(Handed), NEW x \in Handed
    PROVE  /\ Numbers(s) \in Seq(Nat) /\ x.data[2] \in Nat
           /\ Numbers(Append(s, x)) = Append(Numbers(s), x.data[2])
           /\ LastNumber(Append(s, x)) = x.data[2]
  <1> DEFINE u == Append(s, x)
             w == Numbers(u)
             v == Append(Numbers(s), x.data[2])
  <1>1. /\ u \in Seq(Handed) /\ Len(u) = Len(s) + 1 /\ u[Len(s) + 1] = x
        /\ \A i \in 1..Len(s) : u[i] = s[i]
    BY Appended
  <1>2. \A h \in Handed : h.data[2] \in Nat
    BY DEF Handed
  <1>3. \A i \in 1..Len(s) : s[i] \in Handed
    BY ElementOf
  <1>4. Numbers(s) = [i \in 1..Len(s) |-> s[i].data[2]] /\ Len(s) \in Nat
    BY DEF Numbers
  <1>5. Numbers(s) \in Seq(Nat) /\ Len(Numbers(s)) = Len(s)
    <2>1. \A i \in 1..Len(s) : s[i].data[2] \in Nat
      BY <1>2, <1>3
    <2> QED
      BY <1>4, <2>1
  <1>6. w = [i \in 1..(Len(s) + 1) |-> u[i].data[2]]
    BY <1>1 DEF Numbers
  <1> HIDE DEF u
  <1>7. \A i \in 1..(Len(s) + 1) : u[i] \in Handed
    BY <1>1, ElementOf
  <1>8. w \in Seq(Nat) /\ Len(w) = Len(s) + 1
    <2>1. \A i \in 1..(Len(s) + 1) : u[i].data[2] \in Nat
      BY <1>2, <1>7
    <2> QED
      BY <1>4, <1>6, <2>1
  <1>9. /\ v \in Seq(Nat) /\ Len(v) = Len(s) + 1 /\ v[Len(s) + 1] = x.data[2]
        /\ \A i \in 1..Len(s) : v[i] = s[i].data[2]
    BY <1>2, <1>4, <1>5, Appended
  <1>10. \A i \in 1..(Len(s) + 1) : w[i] = v[i]
    <2>1. \A i \in 1..(Len(s) + 1) : i \in 1..Len(s) \/ i = Len(s) + 1
      BY <1>4
    <2> QED
      BY <1>1, <1>6, <1>9, <2>1
  <1> HIDE DEF w, v
  <1>11. w = v
    BY <1>8, <1>9, <1>10
  <1>12. LastNumber(u) = x.data[2]
    <2>1. u # <<>>
      BY <1>1, <1>4
    <2> QED
      BY <1>1, <2>1 DEF LastNumber
  <1> QED
    BY <1>2, <1>5, <1>11, <1>12 DEF u, w, v

\* One item, in the result sets.
LEMMA CollectSets ==
    ASSUME NEW s \in Seq(Handed), NEW x \in Handed, NEW a \in Accumulator, GatheredSets(a, s),
           NEW b \in Accumulator,
           x.t = "meta" => b.results = a.results \o a.current /\ b.current = << <<>> >>,
           x.t = "row" => /\ b.results = a.results
                          /\ b.current = IF a.current = <<>> THEN << <<x>> >>
                                         ELSE << Append(a.current[1], x) >>,
           x.t \notin {"meta", "row"} => b.results = a.results /\ b.current = a.current
    PROVE  GatheredSets(b, Append(s, x))
  <1> DEFINE u == Append(s, x)
             n == Count(s)
             m == Count(u)
  <1>1. /\ n \in Nat /\ m \in Nat
        /\ m = IF x.t = "meta" \/ (x.t = "row" /\ n = 0) THEN n + 1 ELSE n
        /\ \A k \in Nat : SetGrows(s, x, k)
    BY SetsAppend
  <1>2. \A k \in Nat : /\ Set(s, k) \in Seq(Handed)
                       /\ k > n => Set(s, k) = <<>>
                       /\ Set(u, k) = IF x.t = "row" /\ k = m THEN Append(Set(s, k), x)
                                                              ELSE Set(s, k)
    BY <1>1 DEF SetGrows
  <1>3. /\ Len(a.results) = IF n = 0 THEN 0 ELSE n - 1
        /\ \A k \in 1..Len(a.results) : a.results[k] = Set(s, k)
        /\ a.current = IF n = 0 THEN <<>> ELSE <<Set(s, n)>>
    BY DEF GatheredSets
  <1>4. a.results \in Seq(Seq(Handed)) /\ a.current \in Seq(Seq(Handed))
    BY DEF Accumulator
  <1> HIDE DEF u, n, m
  <1>5. ASSUME Len(b.results) = IF m = 0 THEN 0 ELSE m - 1,
               \A k \in 1..Len(b.results) : b.results[k] = Set(u, k),
               b.current = IF m = 0 THEN <<>> ELSE <<Set(u, m)>>
        PROVE  GatheredSets(b, Append(s, x))
    BY <1>5 DEF GatheredSets, u, m
  <1>6. CASE x.t = "meta"
    <2>1. m = n + 1 /\ Set(u, m) = <<>> /\ b.current = <<Set(u, m)>> /\ m # 0
      BY <1>1, <1>2, <1>6
    <2>2. \A k \in Nat : Set(u, k) = Set(s, k)
      BY <1>2, <1>6
    <2>3. CASE n = 0
      <3>1. b.results = a.results
        BY <1>3, <1>4, <1>6, <2>3
      <3> QED
        BY <1>3, <1>5, <2>1, <2>3, <3>1
    <2>4. CASE n # 0
      <3> DEFINE c == Set(s, n)
      <3>1. a.current = <<c>> /\ c \in Seq(Handed) /\ Len(a.results) = n - 1
        BY <1>1, <1>2, <1>3, <2>4
      <3> HIDE DEF c
      <3>2. b.results = a.results \o <<c>>
        BY <1>6, <3>1
      <3>3. /\ Len(b.results) = n /\ b.results[n] = c
            /\ \A k \in 1..(n - 1) : b.results[k] = a.results[k]
        BY <1>1, <1>4, <2>4, <3>1, <3>2
      <3>4. \A k \in 1..n : b.results[k] = Set(u, k)
        <4>1. \A k \in 1..n : (k \in 1..(n - 1) \/ k = n) /\ k \in Nat
          BY <1>1, <2>4
        <4> QED
          BY <1>3, <2>2, <3>1, <3>3, <4>1 DEF c
      <3>5. m - 1 = n
        BY <1>1, <2>1
      <3> QED
        BY <1>5, <2>1, <3>3, <3>4, <3>5
    <2> QED
      BY <2>3, <2>4
  <1>7. CASE x.t = "row"
    <2>1. m \in Nat /\ m # 0 /\ Set(u, m) = Append(Set(s, m), x)
      <3>1. m \in Nat /\ m # 0
        BY <1>1, <1>7
      <3>2. Set(u, m) = IF x.t = "row" /\ m = m THEN Append(Set(s, m), x) ELSE Set(s, m)
        BY <1>2, <3>1
      <3> QED
        BY <1>7, <3>1, <3>2
    <2>2. \A k \in Nat : k # m => Set(u, k) = Set(s, k)
      BY <1>2
    <2>3. Len(b.results) = m - 1 /\ \A k \in 1..Len(b.results) : b.results[k] = Set(u, k)
      <3>1. Len(b.results) = m - 1 /\ \A k \in 1..Len(b.results) : b.results[k] = Set(s, k)
        BY <1>1, <1>3, <1>7
      <3>2. \A k \in 1..(m - 1) : k \in Nat /\ k # m
        BY <2>1
      <3> QED
        BY <2>2, <3>1, <3>2
    <2>4. b.current = <<Set(u, m)>>
      <3>1. CASE n = 0
        <4>1. m = 1 /\ Set(s, m) = <<>> /\ b.current = << <<x>> >>
          BY <1>1, <1>2, <1>3, <1>7, <3>1
        <4> QED
          BY <2>1, <4>1
      <3>2. CASE n # 0
        <4>1. m = n /\ a.current = <<Set(s, n)>> /\ a.current # <<>>
          BY <1>1, <1>3, <1>7, <3>2
        <4> QED
          BY <1>7, <2>1, <4>1
      <3> QED
        BY <3>1, <3>2
    <2> QED
      BY <1>5, <2>1, <2>3, <2>4
  <1>8. CASE x.t \notin {"meta", "row"}
    <2>1. m = n /\ \A k \in Nat : Set(u, k) = Set(s, k)
      BY <1>1, <1>2, <1>8
    <2>2. \A k \in 1..Len(a.results) : k \in Nat
      OBVIOUS
    <2> QED
      BY <1>1, <1>3, <1>5, <1>8, <2>1, <2>2
  <1> QED
    BY <1>6, <1>7, <1>8

\* One item, in the numbers.
LEMMA CollectNumbers ==
    ASSUME NEW s \in Seq(Handed), NEW x \in Handed, NEW a, GatheredNumbers(a, s), NEW b,
           b.status = IF x.t = "status" THEN x.data[2] ELSE a.status,
           b.values = IF x.t = "value" THEN Append(a.values, x.data[2]) ELSE a.values,
           b.counts = IF x.t = "affected" THEN Append(a.counts, x.data[2]) ELSE a.counts
    PROVE  GatheredNumbers(b, Append(s, x))
  <1>1. \A type : /\ OfType(s, type) \in Seq(Handed)
                  /\ OfType(Append(s, x), type) = IF x.t = type THEN Append(OfType(s, type), x)
                                                                ELSE OfType(s, type)
    BY OfTypeAppend
  <1>2. ASSUME NEW type
        PROVE  /\ Numbers(OfType(Append(s, x), type)) =
                    IF x.t = type THEN Append(Numbers(OfType(s, type)), x.data[2])
                                  ELSE Numbers(OfType(s, type))
               /\ LastNumber(OfType(Append(s, x), type)) =
                    IF x.t = type THEN x.data[2] ELSE LastNumber(OfType(s, type))
    <2> DEFINE t == OfType(s, type)
    <2>1. /\ t \in Seq(Handed)
          /\ OfType(Append(s, x), type) = IF x.t = type THEN Append(t, x) ELSE t
      BY <1>1
    <2> HIDE DEF t
    <2>2. /\ Numbers(Append(t, x)) = Append(Numbers(t), x.data[2])
          /\ LastNumber(Append(t, x)) = x.data[2]
      BY <2>1, NumbersAppend
    <2> QED
      BY <2>1, <2>2 DEF t
  <1>3. b.status = LastNumber(OfType(Append(s, x), "status"))
    BY <1>2 DEF GatheredNumbers
  <1>4. b.values = Numbers(OfType(Append(s, x), "value"))
    BY <1>2 DEF GatheredNumbers
  <1>5. b.counts = Numbers(OfType(Append(s, x), "affected"))
    BY <1>2 DEF GatheredNumbers
  <1> QED
    BY <1>3, <1>4, <1>5 DEF GatheredNumbers

Gathered(a, s) == GatheredSets(a, s) /\ GatheredNumbers(a, s)

\* What Collect changes.
LEMMA CollectFields ==
    ASSUME NEW a \in Accumulator, NEW x \in Handed,
           x.t \in {"meta", "row", "status", "value", "affected"}
    PROVE  LET b == Collect(a, x)
           IN /\ b \in Accumulator
              /\ b.results = IF x.t = "meta" THEN a.results \o a.current ELSE a.results
              /\ b.current = CASE x.t = "meta" -> << <<>> >>
                               [] x.t = "row" -> IF a.current = <<>> THEN << <<x>> >>
                                                 ELSE << Append(a.current[1], x) >>
                               [] OTHER -> a.current
              /\ b.status = IF x.t = "status" THEN x.data[2] ELSE a.status
              /\ b.values = IF x.t = "value" THEN Append(a.values, x.data[2]) ELSE a.values
              /\ b.counts = IF x.t = "affected" THEN Append(a.counts, x.data[2]) ELSE a.counts
  <1> DEFINE b == Collect(a, x)
             n == x.data[2]
             joined == a.results \o a.current
             grown == IF a.current = <<>> THEN << <<x>> >> ELSE << Append(a.current[1], x) >>
             vs == Append(a.values, n)
             cs == Append(a.counts, n)
  <1>1. /\ a.results \in Seq(Seq(Handed)) /\ a.current \in Seq(Seq(Handed)) /\ a.status \in Nat
        /\ a.values \in Seq(Nat) /\ a.counts \in Seq(Nat) /\ a.cols \in Seq(Metas)
    BY DEF Accumulator
  <1>2. n \in Nat
    BY DEF Handed
  <1>3. joined \in Seq(Seq(Handed))
    BY <1>1
  <1>4. grown \in Seq(Seq(Handed))
    <2>1. CASE a.current = <<>>
      BY <2>1
    <2>2. CASE a.current # <<>>
      <3>1. a.current[1] \in Seq(Handed)
        BY <1>1, <2>2
      <3>2. Append(a.current[1], x) \in Seq(Handed)
        BY <3>1
      <3> QED
        BY <2>2, <3>2
    <2> QED
      BY <2>1, <2>2
  <1>5. vs \in Seq(Nat) /\ cs \in Seq(Nat)
    BY <1>1, <1>2
  <1>6. << <<>> >> \in Seq(Seq(Handed))
    OBVIOUS
  <1>7. /\ x.t = "meta" => b = [a EXCEPT !.results = joined, !.current = << <<>> >>]
        /\ x.t = "row" => b = [a EXCEPT !.current = grown]
        /\ x.t = "status" => b = [a EXCEPT !.status = n]
        /\ x.t = "value" => b = [a EXCEPT !.values = vs]
        /\ x.t = "affected" => b = [a EXCEPT !.counts = cs]
    BY DEF Collect
  <1> HIDE DEF b, n, joined, grown, vs, cs
  <1>8. CASE x.t = "meta"
    <2> DEFINE none == << <<>> >>
    <2>1. none \in Seq(Seq(Handed)) /\ b = [a EXCEPT !.results = joined, !.current = none]
      BY <1>6, <1>7, <1>8
    <2> HIDE DEF none
    <2>2. /\ b \in Accumulator /\ b.results = joined /\ b.current = none /\ b.status = a.status
          /\ b.values = a.values /\ b.counts = a.counts
      BY <1>3, <2>1 DEF Accumulator
    <2> QED
      BY <1>8, <2>2 DEF joined, b, none
  <1>9. CASE x.t = "row"
    <2>1. b \in Accumulator
      BY <1>4, <1>7, <1>9 DEF Accumulator
    <2>2. b.current = grown
      BY <1>7, <1>9 DEF Accumulator
    <2>3. b.results = a.results /\ b.status = a.status /\ b.values = a.values
          /\ b.counts = a.counts
      BY <1>7, <1>9 DEF Accumulator
    <2> QED
      BY <1>9, <2>1, <2>2, <2>3 DEF grown, b
  <1>10. CASE x.t = "status"
    BY <1>2, <1>7, <1>10 DEF Accumulator, n, b
  <1>11. CASE x.t = "value"
    BY <1>5, <1>7, <1>11 DEF Accumulator, n, b, vs
  <1>12. CASE x.t = "affected"
    BY <1>5, <1>7, <1>12 DEF Accumulator, n, b, cs
  <1> QED
    BY <1>8, <1>9, <1>10, <1>11, <1>12 DEF b, n

LEMMA CollectStep ==
    ASSUME NEW a \in Accumulator, NEW s \in Seq(Handed), Gathered(a, s), NEW x \in Handed,
           x.t \in {"meta", "row", "status", "value", "affected"}
    PROVE  Collect(a, x) \in Accumulator /\ Gathered(Collect(a, x), Append(s, x))
  <1> DEFINE b == Collect(a, x)
  <1>1. /\ b \in Accumulator
        /\ b.results = IF x.t = "meta" THEN a.results \o a.current ELSE a.results
        /\ b.current = CASE x.t = "meta" -> << <<>> >>
                         [] x.t = "row" -> IF a.current = <<>> THEN << <<x>> >>
                                           ELSE << Append(a.current[1], x) >>
                         [] OTHER -> a.current
        /\ b.status = IF x.t = "status" THEN x.data[2] ELSE a.status
        /\ b.values = IF x.t = "value" THEN Append(a.values, x.data[2]) ELSE a.values
        /\ b.counts = IF x.t = "affected" THEN Append(a.counts, x.data[2]) ELSE a.counts
    BY CollectFields
  <1> HIDE DEF b
  <1>2. GatheredNumbers(b, Append(s, x))
    BY <1>1, CollectNumbers DEF Gathered
  <1>3. /\ x.t = "meta" => b.results = a.results \o a.current /\ b.current = << <<>> >>
        /\ x.t = "row" => /\ b.results = a.results
                          /\ b.current = IF a.current = <<>> THEN << <<x>> >>
                                         ELSE << Append(a.current[1], x) >>
        /\ x.t \notin {"meta", "row"} => b.results = a.results /\ b.current = a.current
    BY <1>1
  <1>4. GatheredSets(a, s)
    BY DEF Gathered
  <1>5. GatheredSets(b, Append(s, x))
    BY <1>1, <1>3, <1>4, CollectSets
  <1> QED
    BY <1>1, <1>2, <1>5 DEF Gathered, b

\* The end of the stream closes the last result set.
LEMMA CollectedIs ==
    ASSUME NEW a \in Accumulator, NEW s \in Seq(Handed), Gathered(a, s)
    PROVE  LET b == Collected(a)
           IN /\ b \in Accumulator /\ b.results = ResultSets(s)
              /\ GatheredNumbers(b, s)
  <1> DEFINE b == Collected(a)
             n == Count(s)
             joined == a.results \o a.current
  <1>1. a.results \in Seq(Seq(Handed)) /\ a.current \in Seq(Seq(Handed)) /\ joined \in Seq(Seq(Handed))
    BY DEF Accumulator
  <1>2. b = [a EXCEPT !.results = joined, !.current = <<>>]
    BY DEF Collected
  <1> HIDE DEF joined, b
  <1>3. /\ b \in Accumulator /\ b.results = joined /\ b.status = a.status
        /\ b.values = a.values /\ b.counts = a.counts
    <2> DEFINE none == <<>>
    <2>1. none \in Seq(Seq(Handed)) /\ b = [a EXCEPT !.results = joined, !.current = none]
      BY <1>2
    <2> HIDE DEF none
    <2> QED
      BY <1>1, <2>1 DEF Accumulator
  <1>4. GatheredNumbers(b, s)
    BY <1>3 DEF Gathered, GatheredNumbers
  <1>5. /\ Len(a.results) = IF n = 0 THEN 0 ELSE n - 1
        /\ \A k \in 1..Len(a.results) : a.results[k] = Set(s, k)
        /\ a.current = IF n = 0 THEN <<>> ELSE <<Set(s, n)>>
    BY DEF Gathered, GatheredSets
  <1>6. n \in Nat
    <2>1. Openings(s) \subseteq 1..Len(s) /\ Len(s) \in Nat
      BY DEF Openings, Positions
    <2> QED
      BY <2>1, PositionsCount DEF Count
  <1>7. ResultSets(s) = [k \in 1..n |-> Set(s, k)]
    BY DEF ResultSets, Count, Set
  <1> HIDE DEF n
  <1>8. Len(joined) = n /\ \A k \in 1..n : joined[k] = Set(s, k)
    <2>1. CASE n = 0
      BY <1>1, <1>5, <1>6, <2>1 DEF joined
    <2>2. CASE n # 0
      <3> DEFINE c == Set(s, n)
      <3>1. a.current = <<c>> /\ Len(a.results) = n - 1
        BY <1>5, <2>2
      <3> HIDE DEF c
      <3>2. joined = a.results \o <<c>> /\ c \in Seq(Handed)
        BY <1>1, <3>1 DEF joined
      <3>3. Len(joined) = n /\ joined[n] = c /\ \A k \in 1..(n - 1) : joined[k] = a.results[k]
        BY <1>1, <1>6, <2>2, <3>1, <3>2
      <3>4. \A k \in 1..n : k \in 1..(n - 1) \/ k = n
        BY <1>6, <2>2
      <3> QED
        BY <1>5, <3>1, <3>3, <3>4 DEF c
    <2> QED
      BY <2>1, <2>2
  <1>9. joined = ResultSets(s)
    <2>1. joined = [k \in 1..Len(joined) |-> joined[k]]
      BY <1>1
    <2> QED
      BY <1>7, <1>8, <2>1
  <1> QED
    BY <1>3, <1>4, <1>9 DEF b

-----------------------------------------------------------------------------
(* What a fold has gathered *)

\* The row counts of the tokens w.
Sizes(w) == [i \in 1..Len(w) |-> Rows(w[i])]

\* What each fold makes of the tokens s.
FoldedExecute(a, s) == a.counts = Sizes(Counted(s))
FoldedTvp(a, s) ==
    LET metas == OfType(s, "meta")
    IN a.cols = IF metas = <<>> THEN <<>> ELSE << metas[Len(metas)].m >>
FoldedTable(a, s) ==
    LET metas == OfType(s, "meta")
    IN /\ a.cols = IF metas = <<>> THEN <<>> ELSE << metas[1].m >>
       /\ Len(a.values) = Len(OfType(s, "row"))
Folded(k, a, s) ==
    /\ k = "execute" => FoldedExecute(a, s)
    /\ k = "tvp" => FoldedTvp(a, s)
    /\ k = "table" => FoldedTable(a, s)

\* The tokens that count rows, when one is read.
LEMMA CountedAppend ==
    ASSUME NEW s \in Seq(Token), NEW x \in Token
    PROVE  /\ Counted(s) \in Seq(Token)
           /\ Counted(Append(s, x)) = IF CountsRows(x) THEN Append(Counted(s), x)
                                                       ELSE Counted(s)
  <1> DEFINE C(v) == {i \in 1..Len(v) : CountsRows(v[i])}
             u == Append(s, x)
             L == Len(s)
  <1>1. /\ Len(u) = L + 1 /\ u[L + 1] = x /\ L \in Nat
        /\ \A i \in 1..L : u[i] = s[i]
    BY Appended
  <1>2. Counted(s) = Where(s, C(s)) /\ Counted(u) = Where(u, C(u))
    BY DEF Counted
  <1>3. C(s) \in SUBSET (1..Len(s))
    OBVIOUS
  <1>4. C(u) = C(s) \cup (IF CountsRows(x) THEN {L + 1} ELSE {})
    <2>1. \A i : i \in 1..(L + 1) <=> i \in 1..L \/ i = L + 1
      BY <1>1
    <2>2. L + 1 \notin 1..L
      BY <1>1
    <2> HIDE DEF u, L
    <2>3. \A i : i \in C(u) <=> i \in 1..(L + 1) /\ CountsRows(u[i])
      BY <1>1
    <2>4. \A i : i \in C(s) <=> i \in 1..L /\ CountsRows(s[i])
      BY DEF L
    <2>5. \A i : i \in C(u) <=> i \in C(s) \/ (CountsRows(x) /\ i = L + 1)
      BY <1>1, <2>1, <2>3, <2>4
    <2> HIDE DEF C
    <2> QED
      BY <2>5
  <1> HIDE DEF C
  <1>5. Grows(Token, s, x, C(s))
    BY <1>3, WhereAppend
  <1>6. CASE CountsRows(x)
    BY <1>2, <1>4, <1>5, <1>6 DEF Grows
  <1>7. CASE ~CountsRows(x)
    <2>1. C(u) = C(s)
      BY <1>4, <1>7
    <2> HIDE DEF u
    <2>2. Where(u, C(s)) = Where(s, C(s)) /\ Where(s, C(s)) \in Seq(Token)
      BY <1>5 DEF Grows, u
    <2> QED
      BY <1>2, <1>7, <2>1, <2>2 DEF u
  <1> QED
    BY <1>6, <1>7

\* Their counts.
LEMMA SizesAppend ==
    ASSUME NEW w \in Seq(Token), NEW x \in Token
    PROVE  /\ Sizes(w) \in Seq(Nat) /\ Rows(x) \in Nat
           /\ Sizes(Append(w, x)) = Append(Sizes(w), Rows(x))
  <1> DEFINE u == Append(w, x)
             p == Sizes(u)
             q == Append(Sizes(w), Rows(x))
  <1>1. /\ u \in Seq(Token) /\ Len(u) = Len(w) + 1 /\ u[Len(w) + 1] = x
        /\ \A i \in 1..Len(w) : u[i] = w[i]
    BY Appended
  <1>2. \A y \in Token : Rows(y) \in Nat
    BY TokenTypes DEF Rows
  <1>3. \A i \in 1..Len(w) : w[i] \in Token
    BY ElementOf
  <1>4. Sizes(w) = [i \in 1..Len(w) |-> Rows(w[i])] /\ Len(w) \in Nat
    BY DEF Sizes
  <1>5. Sizes(w) \in Seq(Nat) /\ Len(Sizes(w)) = Len(w)
    <2>1. \A i \in 1..Len(w) : Rows(w[i]) \in Nat
      BY <1>2, <1>3
    <2> QED
      BY <1>4, <2>1
  <1>6. p = [i \in 1..(Len(w) + 1) |-> Rows(u[i])]
    BY <1>1 DEF Sizes
  <1> HIDE DEF u
  <1>7. \A i \in 1..(Len(w) + 1) : u[i] \in Token
    BY <1>1, ElementOf
  <1>8. p \in Seq(Nat) /\ Len(p) = Len(w) + 1
    <2>1. \A i \in 1..(Len(w) + 1) : Rows(u[i]) \in Nat
      BY <1>2, <1>7
    <2> QED
      BY <1>4, <1>6, <2>1
  <1>9. /\ q \in Seq(Nat) /\ Len(q) = Len(w) + 1 /\ q[Len(w) + 1] = Rows(x)
        /\ \A i \in 1..Len(w) : q[i] = Rows(w[i])
    BY <1>2, <1>4, <1>5, Appended
  <1>10. \A i \in 1..(Len(w) + 1) : p[i] = q[i]
    <2>1. \A i \in 1..(Len(w) + 1) : i \in 1..Len(w) \/ i = Len(w) + 1
      BY <1>4
    <2> QED
      BY <1>1, <1>6, <1>9, <2>1
  <1> HIDE DEF p, q
  <1>11. p = q
    BY <1>8, <1>9, <1>10
  <1> QED
    BY <1>2, <1>5, <1>11 DEF u, p, q

\* One token, in each fold.
LEMMA FoldExecuteStep ==
    ASSUME NEW a \in Accumulator, NEW s \in Seq(Token), NEW x \in Token, FoldedExecute(a, s)
    PROVE  FoldExecute(a, x) \in Accumulator /\ FoldedExecute(FoldExecute(a, x), Append(s, x))
  <1> DEFINE c == Counted(s)
             b == FoldExecute(a, x)
  <1>1. c \in Seq(Token) /\ Counted(Append(s, x)) = IF CountsRows(x) THEN Append(c, x) ELSE c
    BY CountedAppend
  <1>2. a.counts = Sizes(c)
    BY DEF FoldedExecute
  <1> HIDE DEF c
  <1>3. Rows(x) \in Nat /\ Sizes(Append(c, x)) = Append(Sizes(c), Rows(x))
    BY <1>1, SizesAppend
  <1>4. CASE CountsRows(x)
    <2> DEFINE cs == Append(a.counts, Rows(x))
    <2>1. b = [a EXCEPT !.counts = cs]
      BY <1>4 DEF FoldExecute
    <2>2. cs \in Seq(Nat)
      BY <1>3 DEF Accumulator
    <2> HIDE DEF cs, b
    <2>3. b \in Accumulator /\ b.counts = cs
      BY <2>1, <2>2 DEF Accumulator
    <2>4. cs = Sizes(Counted(Append(s, x)))
      BY <1>1, <1>2, <1>3, <1>4 DEF cs
    <2> QED
      BY <2>3, <2>4 DEF FoldedExecute, b
  <1>5. CASE ~CountsRows(x)
    BY <1>1, <1>2, <1>5 DEF FoldExecute, FoldedExecute
  <1> QED
    BY <1>4, <1>5

LEMMA FoldTvpStep ==
    ASSUME NEW a \in Accumulator, NEW s \in Seq(Token), NEW x \in Token, FoldedTvp(a, s),
           x.t = "meta" => x.m \in Metas
    PROVE  FoldTvp(a, x) \in Accumulator /\ FoldedTvp(FoldTvp(a, x), Append(s, x))
  <1> DEFINE ms == OfType(s, "meta")
             us == OfType(Append(s, x), "meta")
             b == FoldTvp(a, x)
  <1>1. ms \in Seq(Token) /\ us = IF x.t = "meta" THEN Append(ms, x) ELSE ms
    BY OfTypeAppend
  <1>2. a.cols = IF ms = <<>> THEN <<>> ELSE << ms[Len(ms)].m >>
    BY DEF FoldedTvp
  <1>3. ASSUME b.cols = IF us = <<>> THEN <<>> ELSE << us[Len(us)].m >>
        PROVE  FoldedTvp(b, Append(s, x))
    BY <1>3 DEF FoldedTvp
  <1> HIDE DEF ms, us
  <1>4. CASE x.t = "meta"
    <2> DEFINE cs == <<x.m>>
    <2>1. b = [a EXCEPT !.cols = cs]
      BY <1>4 DEF FoldTvp
    <2>2. cs \in Seq(Metas)
      BY <1>4
    <2> HIDE DEF cs, b
    <2>3. b \in Accumulator /\ b.cols = cs
      BY <2>1, <2>2 DEF Accumulator
    <2>4. us # <<>> /\ us[Len(us)] = x
      BY <1>1, <1>4
    <2> QED
      BY <1>3, <2>3, <2>4 DEF b, cs
  <1>5. CASE x.t # "meta"
    BY <1>1, <1>2, <1>3, <1>5 DEF FoldTvp
  <1> QED
    BY <1>4, <1>5

LEMMA FoldTableStep ==
    ASSUME NEW a \in Accumulator, NEW s \in Seq(Token), NEW x \in Token, FoldedTable(a, s),
           x.t = "meta" => x.m \in Metas
    PROVE  FoldTable(a, x) \in Accumulator /\ FoldedTable(FoldTable(a, x), Append(s, x))
  <1> DEFINE ms == OfType(s, "meta")
             us == OfType(Append(s, x), "meta")
             rs == OfType(s, "row")
             ns == OfType(Append(s, x), "row")
             b == FoldTable(a, x)
  <1>1. /\ ms \in Seq(Token) /\ us = IF x.t = "meta" THEN Append(ms, x) ELSE ms
        /\ rs \in Seq(Token) /\ ns = IF x.t = "row" THEN Append(rs, x) ELSE rs
    BY OfTypeAppend
  <1>2. /\ a.cols = IF ms = <<>> THEN <<>> ELSE << ms[1].m >>
        /\ Len(a.values) = Len(rs)
    BY DEF FoldedTable
  <1>3. ASSUME b.cols = IF us = <<>> THEN <<>> ELSE << us[1].m >>, Len(b.values) = Len(ns)
        PROVE  FoldedTable(b, Append(s, x))
    BY <1>3 DEF FoldedTable
  <1> HIDE DEF ms, us, rs, ns
  <1>4. CASE x.t = "meta" /\ a.cols = <<>>
    <2> DEFINE cs == <<x.m>>
    <2>1. b = [a EXCEPT !.cols = cs]
      BY <1>4 DEF FoldTable
    <2>2. cs \in Seq(Metas)
      BY <1>4
    <2> HIDE DEF cs, b
    <2>3. b \in Accumulator /\ b.cols = cs /\ b.values = a.values
      BY <2>1, <2>2 DEF Accumulator
    <2>4. ms = <<>>
      <3>1. ASSUME ms # <<>>
            PROVE  FALSE
        <4> DEFINE m == ms[1].m
        <4>1. <<>> = <<m>>
          BY <1>2, <1>4, <3>1
        <4> HIDE DEF m
        <4> QED
          BY <4>1
      <3> QED
        BY <3>1
    <2>5. us # <<>> /\ us[1] = x /\ ns = rs
      BY <1>1, <1>4, <2>4
    <2> QED
      BY <1>2, <1>3, <2>3, <2>5 DEF b, cs
  <1>5. CASE x.t = "meta" /\ a.cols # <<>>
    <2>1. b = a
      BY <1>5 DEF FoldTable
    <2>2. ms # <<>>
      BY <1>2, <1>5
    <2>3. us # <<>> /\ us[1] = ms[1] /\ ns = rs
      BY <1>1, <1>5, <2>2
    <2> QED
      BY <1>2, <1>3, <2>1, <2>2, <2>3
  <1>6. CASE x.t = "row"
    <2> DEFINE vs == Append(a.values, x.n)
    <2>1. b = [a EXCEPT !.values = vs]
      BY <1>6 DEF FoldTable
    <2>2. a.values \in Seq(Nat) /\ x.n \in Nat
      BY TokenTypes DEF Accumulator
    <2>3. vs \in Seq(Nat) /\ Len(vs) = Len(a.values) + 1
      BY <2>2
    <2> HIDE DEF vs, b
    <2>4. b \in Accumulator /\ b.values = vs /\ b.cols = a.cols
      BY <2>1, <2>3 DEF Accumulator
    <2>5. us = ms /\ Len(ns) = Len(rs) + 1
      BY <1>1, <1>6
    <2> QED
      BY <1>2, <1>3, <2>3, <2>4, <2>5 DEF b
  <1>7. CASE x.t \notin {"meta", "row"}
    <2>1. b = a
      BY <1>7 DEF FoldTable
    <2> QED
      BY <1>1, <1>2, <1>3, <1>7, <2>1
  <1> QED
    BY <1>4, <1>5, <1>6, <1>7

\* One token, whichever fold it is.
LEMMA FoldKeeps ==
    ASSUME NEW a \in Accumulator, NEW s \in Seq(Token), NEW x \in Token, Folded(kind, a, s),
           x.t = "meta" => x.m \in Metas, kind \in Folds
    PROVE  Fold(a, x) \in Accumulator /\ Folded(kind, Fold(a, x), Append(s, x))
  <1>1. CASE kind = "execute"
    <2>1. Fold(a, x) = FoldExecute(a, x)
      BY <1>1 DEF Fold
    <2> QED
      BY <1>1, <2>1, FoldExecuteStep DEF Folded
  <1>2. CASE kind = "tvp"
    <2>1. Fold(a, x) = FoldTvp(a, x)
      BY <1>2 DEF Fold
    <2> QED
      BY <1>2, <2>1, FoldTvpStep DEF Folded
  <1>3. CASE kind = "table"
    <2>1. Fold(a, x) = FoldTable(a, x)
      BY <1>3 DEF Fold
    <2> QED
      BY <1>3, <2>1, FoldTableStep DEF Folded
  <1> QED
    BY <1>1, <1>2, <1>3 DEF Folds

-----------------------------------------------------------------------------
(* What a collecting call returns *)

\* The items handed out since the call that collects them.
Rest == SubSeq(got, start + 1, Len(got))

\* What a call that has ended well leaves in acc.
Returned ==
    /\ kind \in Streams => acc.results = ResultSets(Rest) /\ GatheredNumbers(acc, Rest)
    /\ kind \in Folds => Folded(kind, acc, Taken)
    /\ kind = "table" => acc.cols # <<>>

\* acc is empty until a call collects; then it holds what the items since, or the
\* tokens taken, amount to; and that is what is left when the call has returned.
ResultInv ==
    /\ acc \in Accumulator
    /\ start \in 0..Len(got)
    /\ pc \in {"forward", "open", "columns", "next"} => acc = Empty
    /\ pc = "collect" => Gathered(acc, Rest)
    /\ pc = "fold" => Folded(kind, acc, Taken)
    /\ outcome = "ok" => pc = "idle" /\ ~IsToken(item) /\ Returned

\* Nothing gathered of nothing.
LEMMA NothingGathered ==
    /\ Empty \in Accumulator
    /\ Gathered(Empty, <<>>)
    /\ \A k : Folded(k, Empty, <<>>)
  <1>1. \A type : OfType(<<>>, type) = <<>>
    BY NothingRead, WhereNothing DEF OfType
  <1>2. Counted(<<>>) = <<>>
    <2>1. {i \in 1..Len(<<>>) : CountsRows(<<>>[i])} = {}
      BY NothingRead
    <2> QED
      BY <2>1, WhereNothing DEF Counted
  <1>3. Count(<<>>) = 0
    <2>1. Openings(<<>>) = {}
      BY NothingRead DEF Openings
    <2> QED
      BY <2>1, FS_EmptySet DEF Count
  <1>4. /\ Empty.results = <<>> /\ Empty.current = <<>> /\ Empty.status = 0
        /\ Empty.values = <<>> /\ Empty.counts = <<>> /\ Empty.cols = <<>>
    BY DEF Empty
  <1>5. <<>> \in Seq(Seq(Handed)) /\ <<>> \in Seq(Nat) /\ <<>> \in Seq(Metas) /\ 0 \in Nat
    OBVIOUS
  <1>6. Empty \in Accumulator
    BY <1>5, Zenon DEF Empty, Accumulator
  <1>7. 1..Len(<<>>) = {} /\ Len(<<>>) = 0
    OBVIOUS
  <1>8. Numbers(<<>>) = <<>> /\ Sizes(<<>>) = <<>> /\ LastNumber(<<>>) = 0
    BY <1>7 DEF Numbers, Sizes, LastNumber
  <1>9. GatheredSets(Empty, <<>>)
    BY <1>3, <1>4, <1>7 DEF GatheredSets
  <1>10. GatheredNumbers(Empty, <<>>)
    BY <1>1, <1>4, <1>8 DEF GatheredNumbers
  <1>11. FoldedExecute(Empty, <<>>)
    BY <1>2, <1>4, <1>8 DEF FoldedExecute
  <1>12. FoldedTvp(Empty, <<>>)
    BY <1>1, <1>4 DEF FoldedTvp
  <1>13. FoldedTable(Empty, <<>>)
    BY <1>1, <1>4 DEF FoldedTable
  <1> QED
    BY <1>6, <1>9, <1>10, <1>11, <1>12, <1>13 DEF Gathered, Folded

\* The items from some place on, when there are none yet and when one is added.
LEMMA RestAppend ==
    ASSUME NEW R, NEW s \in Seq(R), NEW x \in R, NEW n \in 0..Len(s)
    PROVE  /\ SubSeq(s, n + 1, Len(s)) \in Seq(R)
           /\ SubSeq(s, Len(s) + 1, Len(s)) = <<>>
           /\ SubSeq(Append(s, x), n + 1, Len(Append(s, x))) =
                Append(SubSeq(s, n + 1, Len(s)), x)
  <1> DEFINE L == Len(s)
             u == Append(s, x)
             r == SubSeq(s, n + 1, L)
             p == SubSeq(u, n + 1, L + 1)
             q == Append(r, x)
  <1>1. L \in Nat /\ n \in Nat /\ n <= L
    OBVIOUS
  <1>2. /\ u \in Seq(R) /\ Len(u) = L + 1 /\ u[L + 1] = x
        /\ \A i \in 1..L : u[i] = s[i]
    BY Appended
  <1>3. r \in Seq(R) /\ Len(r) = L - n /\ \A i \in 1..(L - n) : r[i] = s[n + i]
    <2>1. r \in Seq(R)
      BY <1>1
    <2>2. Len(r) = L - n
      BY <1>1
    <2>3. \A i \in 1..(L - n) : r[i] = s[n + i]
      BY <1>1
    <2> QED
      BY <2>1, <2>2, <2>3
  <1> HIDE DEF u
  <1>4. p \in Seq(R) /\ Len(p) = (L - n) + 1 /\ \A i \in 1..((L - n) + 1) : p[i] = u[n + i]
    <2>1. p \in Seq(R)
      BY <1>1, <1>2
    <2>2. Len(p) = (L - n) + 1
      BY <1>1, <1>2
    <2>3. \A i \in 1..((L - n) + 1) : p[i] = u[n + i]
      BY <1>1, <1>2
    <2> QED
      BY <2>1, <2>2, <2>3
  <1> HIDE DEF r, L
  <1>5. /\ q \in Seq(R) /\ Len(q) = (L - n) + 1 /\ q[(L - n) + 1] = x
        /\ \A i \in 1..(L - n) : q[i] = r[i]
    BY <1>3, Appended
  <1> HIDE DEF p, q
  <1>6. \A i \in 1..((L - n) + 1) : p[i] = q[i]
    <2>1. TAKE i \in 1..((L - n) + 1)
    <2>2. CASE i \in 1..(L - n)
      <3>1. n + i \in 1..L
        BY <1>1, <2>2
      <3> QED
        BY <1>2, <1>3, <1>4, <1>5, <2>2, <3>1
    <2>3. CASE i = (L - n) + 1
      <3>1. n + i = L + 1
        BY <1>1, <2>3
      <3> QED
        BY <1>2, <1>4, <1>5, <2>3, <3>1
    <2> QED
      BY <1>1, <2>2, <2>3
  <1>7. p = q
    BY <1>4, <1>5, <1>6
  <1>8. SubSeq(s, L + 1, L) = <<>>
    BY <1>1 DEF L
  <1> QED
    BY <1>2, <1>3, <1>7, <1>8 DEF p, q, r, u, L

\* Beginning or dropping a stream: nothing is gathered.
LEMMA ResultFresh ==
    ASSUME got' = <<>>, start' = 0, acc' = Empty, outcome' = "none", Taken' = <<>>
    PROVE  ResultInv'
  <1>1. Len(<<>>) = 0 /\ 0 \in 0..0 /\ SubSeq(<<>>, 0 + 1, 0) = <<>>
    OBVIOUS
  <1>2. Rest' = <<>> /\ start' \in 0..Len(got')
    BY <1>1 DEF Rest
  <1>3. Gathered(acc', Rest') /\ Folded(kind', acc', Taken') /\ acc' \in Accumulator
    BY <1>2, NothingGathered
  <1> QED
    BY <1>2, <1>3 DEF ResultInv

\* A step that gathers nothing.
LEMMA ResultSame ==
    ASSUME ResultInv, UNCHANGED <<acc, got, start, kind, pc, outcome>>, Taken' = Taken,
           outcome = "ok" => ~IsToken(item')
    PROVE  ResultInv'
  <1>1. Rest' = Rest
    BY DEF Rest
  <1>2. Returned' <=> Returned
    BY <1>1 DEF Returned
  <1>3. outcome' = "ok" => pc' = "idle" /\ ~IsToken(item') /\ Returned'
    BY <1>2 DEF ResultInv
  <1> QED
    BY <1>1, <1>3 DEF ResultInv, IsToken

\* A step of the application, of query() or of columns(): nothing is gathered yet.
LEMMA ResultAsked ==
    ASSUME TypeInv, ResultInv, pc \in {"forward", "open", "columns", "next"},
           UNCHANGED <<acc, got, outcome>>,
           \/ pc' \in {"idle", "forward", "open", "columns", "next"} /\ UNCHANGED start
           \/ pc' = "collect" /\ start' = Len(got)
    PROVE  ResultInv'
  <1>1. acc' = Empty /\ outcome' # "ok" /\ acc' \in Accumulator
    BY DEF ResultInv
  <1>2. got \in Seq(Handed) /\ Len(got) \in Nat
    BY DEF TypeInv
  <1>3. start' \in 0..Len(got')
    BY <1>2 DEF ResultInv
  <1>4. pc' = "collect" => Gathered(acc', Rest')
    <2>1. SUFFICES ASSUME pc' = "collect"
                   PROVE  Gathered(acc', Rest')
      OBVIOUS
    <2>2. Rest' = SubSeq(got, Len(got) + 1, Len(got))
      BY <2>1 DEF Rest
    <2>3. SubSeq(got, Len(got) + 1, Len(got)) = <<>>
      BY <1>2
    <2> QED
      BY <1>1, <2>2, <2>3, NothingGathered
  <1> QED
    BY <1>1, <1>3, <1>4 DEF ResultInv

\* An item has one of the types that Collect tells apart.
LEMMA YieldedType ==
    ASSUME NEW tk, Yields(tk)
    PROVE  Item(tk).t \in {"meta", "row", "status", "value", "affected"}
  BY DEF Yields, Item, CountsRows

\* poll_next under a collecting call, or under next().
LEMMA ResultPoll ==
    ASSUME TypeInv, ItemInv, ColumnsInv, ResultInv, PollNext
    PROVE  ResultInv'
  <1>1. /\ pc \in {"next", "collect"} /\ item' = Nothing /\ PollCase
        /\ UNCHANGED <<kind, start>>
    BY PollCases
  <1>2. kind \in Streams /\ kind \notin Folds /\ kind # "table" /\ ~IsToken(item')
    BY <1>1, NotTokens DEF ColumnsInv, Streams, Folds
  <1>3. outcome # "ok" /\ acc \in Accumulator /\ start \in 0..Len(got) /\ got \in Seq(Handed)
    BY <1>1 DEF ResultInv, TypeInv
  <1>4. Rest \in Seq(Handed)
    BY <1>3 DEF Rest
  <1>5. pc = "collect" => Gathered(acc, Rest)
    BY DEF ResultInv
  <1>6. ASSUME NEW e, PollFails(e)
        PROVE  ResultInv'
    <2>1. UNCHANGED <<got, acc>> /\ pc' \in {"open", "idle"} /\ outcome' # "ok"
          /\ (pc' = "open" => pc = "next")
      BY <1>3, <1>6 DEF PollFails
    <2> QED
      BY <1>1, <1>3, <2>1 DEF ResultInv
  <1>7. CASE PollEnds
    <2>1. CASE pc = "next"
      <3>1. UNCHANGED <<got, acc, outcome>> /\ pc' = "open"
        BY <1>7, <2>1 DEF PollEnds
      <3> QED
        BY <1>1, <2>1, <3>1, ResultAsked
    <2>2. CASE pc = "collect"
      <3>1. UNCHANGED <<got>> /\ pc' = "idle" /\ acc' = Collected(acc)
        BY <1>7, <2>2 DEF PollEnds
      <3>2. Rest' = Rest
        BY <1>1, <3>1 DEF Rest
      <3>3. acc' \in Accumulator /\ acc'.results = ResultSets(Rest) /\ GatheredNumbers(acc', Rest)
        BY <1>3, <1>4, <1>5, <2>2, <3>1, CollectedIs
      <3>4. Returned'
        BY <1>1, <1>2, <3>2, <3>3 DEF Returned
      <3>5. start' \in 0..Len(got')
        BY <1>1, <1>3, <3>1
      <3> QED
        BY <1>2, <3>1, <3>3, <3>4, <3>5 DEF ResultInv, IsToken
    <2> QED
      BY <1>1, <2>1, <2>2
  <1>8. CASE IsToken(item) /\ Yields(item) /\ PollYields
    <2> DEFINE it == Item(item)
    <2>1. it \in Handed /\ it.t \in {"meta", "row", "status", "value", "affected"}
      BY <1>8, ItemType, YieldedType
    <2>2. got' = Append(got, it) /\ UNCHANGED outcome
      BY <1>8 DEF PollYields
    <2>3. /\ pc = "next" => pc' = "open" /\ UNCHANGED acc
          /\ pc = "collect" => acc' = Collect(acc, it) /\ UNCHANGED pc
      BY <1>8 DEF PollYields
    <2> HIDE DEF it
    <2>4. Len(got') = Len(got) + 1 /\ Len(got) \in Nat
      BY <1>3, <2>1, <2>2
    <2>5. start' \in 0..Len(got')
      BY <1>1, <1>3, <2>4
    <2>6. Rest' = Append(Rest, it)
      <3>1. Rest' = SubSeq(Append(got, it), start + 1, Len(Append(got, it)))
        BY <1>1, <2>2 DEF Rest
      <3> QED
        BY <1>3, <2>1, <3>1, RestAppend DEF Rest
    <2>7. CASE pc = "next"
      <3>1. acc' = Empty /\ pc' = "open"
        BY <2>3, <2>7 DEF ResultInv
      <3> QED
        BY <1>3, <2>2, <2>5, <3>1, NothingGathered DEF ResultInv
    <2>8. CASE pc = "collect"
      <3>1. acc' \in Accumulator /\ Gathered(acc', Append(Rest, it))
        BY <1>3, <1>4, <1>5, <2>1, <2>3, <2>8, CollectStep
      <3> QED
        BY <1>3, <2>2, <2>3, <2>5, <2>6, <2>8, <3>1 DEF ResultInv
    <2> QED
      BY <1>1, <2>7, <2>8
  <1>9. CASE UNCHANGED <<pc, stream, got, told, ended, acc, outcome>>
    <2>1. Rest' = Rest
      BY <1>1, <1>9 DEF Rest
    <2> QED
      BY <1>1, <1>3, <1>9, <2>1 DEF ResultInv
  <1> QED
    BY <1>1, <1>6, <1>7, <1>8, <1>9 DEF PollCase

\* A fold takes one token, or ends.
LEMMA ResultFold ==
    ASSUME TypeInv, ItemInv, ColumnsInv, ResultInv, FoldStep
    PROVE  ResultInv'
  <1>1. /\ pc = "fold" /\ item' = Nothing /\ item # Nothing
        /\ UNCHANGED <<kind, got, start>>
    BY DEF FoldStep
  <1>2. kind \in Folds /\ kind \notin Streams /\ ~IsToken(item')
    BY <1>1, NotTokens DEF ColumnsInv, Streams, Folds
  <1>3. outcome # "ok" /\ acc \in Accumulator /\ start' \in 0..Len(got')
        /\ Folded(kind, acc, Taken)
    BY <1>1 DEF ResultInv
  <1>4. Taken' = IF IsToken(item) THEN Append(Taken, item) ELSE Taken
    BY <1>1, TakenConsumes DEF Consumes
  <1>5. item.t \in Types \cup {"end", "err"}
    BY <1>1 DEF TypeInv, PollItem
  <1>6. CASE item.t = "err"
    <2>1. pc' = "idle" /\ outcome' = "err" /\ UNCHANGED acc
      BY <1>6 DEF FoldStep
    <2> QED
      BY <1>3, <2>1 DEF ResultInv
  <1>7. CASE item.t = "end"
    <2>1. /\ pc' = "idle" /\ UNCHANGED acc
          /\ outcome' = "ok" => ~(kind = "table" /\ acc.cols = <<>>)
      BY <1>7 DEF FoldStep, FoldEnds
    <2>2. Taken' = Taken
      BY <1>4, <1>7, NotTokens
    <2>3. outcome' = "ok" => Returned'
      BY <1>1, <1>2, <1>3, <2>1, <2>2 DEF Returned
    <2> QED
      BY <1>2, <1>3, <2>1, <2>3 DEF ResultInv, IsToken
  <1>8. CASE IsToken(item)
    <2>1. item.t # "err" /\ item.t # "end"
      BY <1>8, NotTokens
    <2>2. acc' = Fold(acc, item) /\ UNCHANGED <<pc, outcome>>
      BY <2>1 DEF FoldStep
    <2>3. Taken \in Seq(Token) /\ item \in Token /\ read = Append(Taken, item)
      BY <1>8, TakenIs
    <2>4. item.t = "meta" => item.m \in Metas
      <3>1. Len(read) > 0 /\ item = read[Len(read)] /\ Len(read) \in Nat
        BY <1>8 DEF ItemInv, TypeInv
      <3>2. Len(read) \in 1..Len(read)
        BY <3>1
      <3> QED
        BY <3>1, <3>2 DEF ItemInv
    <2>5. acc' \in Accumulator /\ Folded(kind, acc', Append(Taken, item))
      BY <1>2, <1>3, <2>2, <2>3, <2>4, FoldKeeps
    <2> QED
      BY <1>1, <1>3, <1>4, <1>8, <2>2, <2>5 DEF ResultInv
  <1> QED
    BY <1>5, <1>6, <1>7, <1>8 DEF IsToken

\* What a call has gathered is right in every reachable state.
LEMMA ResultAlways == Spec => []ResultInv
  <1>1. ASSUME Init
        PROVE  ResultInv
    <2>1. /\ got = <<>> /\ start = 0 /\ acc = Empty /\ outcome = "none" /\ pc = "idle"
      BY <1>1 DEF Init
    <2>2. start \in 0..Len(got)
      BY <2>1
    <2> QED
      BY <2>1, <2>2, NothingGathered DEF ResultInv
  <1>2. ASSUME TypeInv /\ ReadInv, ColumnsInv, ResultInv, [Next]_vars
        PROVE  ResultInv'
    <2>1. TypeInv /\ ItemInv
      BY <1>2 DEF ReadInv
    <2>2. CASE (\E k \in Streams \cup Folds : Call(k)) \/ DropStream
      <3>1. Fresh
        BY <2>1, <2>2, FreshCases
      <3>2. /\ read' = <<>> /\ item' = Nothing /\ got' = <<>> /\ start' = 0 /\ acc' = Empty
            /\ outcome' = "none"
        BY <3>1 DEF Fresh
      <3>3. Taken' = <<>>
        BY <3>2, NotTokens DEF Taken, IsToken
      <3> QED
        BY <3>2, <3>3, ResultFresh
    <2>3. CASE Unfold
      <3>1. pc \in Reading /\ UNCHANGED <<acc, got, start, kind, pc, outcome>>
        BY <2>3, UnfoldCases DEF history
      <3>2. outcome # "ok"
        BY <1>2, <3>1 DEF ResultInv, Reading
      <3> QED
        BY <1>2, <2>1, <2>3, <3>1, <3>2, TakenUnfold, ResultSame
    <2>4. CASE Consumes
      <3>1. CASE ForwardToMetadata
        <4>1. /\ pc = "forward" /\ UNCHANGED <<acc, got, start, outcome>>
              /\ pc' \in {"idle", "open", "forward"}
          BY <3>1 DEF ForwardToMetadata
        <4> QED
          BY <1>2, <2>1, <4>1, ResultAsked
      <3>2. CASE Columns
        <4>1. /\ pc = "columns" /\ UNCHANGED <<acc, got, start, outcome>>
              /\ pc' \in {"open", "columns"}
          BY <3>2 DEF Columns
        <4> QED
          BY <1>2, <2>1, <4>1, ResultAsked
      <3>3. CASE PollNext
        BY <1>2, <2>1, <3>3, ResultPoll
      <3>4. CASE FoldStep
        BY <1>2, <2>1, <3>4, ResultFold
      <3>5. ASSUME NEW what \in {"columns", "next", "collect"}, Ask(what)
            PROVE  ResultInv'
        <4>1. /\ pc = "open" /\ UNCHANGED <<acc, got, outcome>> /\ pc' = what
              /\ start' = IF what = "collect" THEN Len(got) ELSE start
          BY <3>5 DEF Ask
        <4> QED
          BY <1>2, <2>1, <4>1, ResultAsked
      <3>6. CASE GiveUp
        <4>1. pc \in {"columns", "next"} /\ UNCHANGED <<acc, got, start, outcome>> /\ pc' = "open"
          BY <3>6 DEF GiveUp, history
        <4> QED
          BY <1>2, <2>1, <4>1, ResultAsked
      <3> QED
        BY <2>4, <3>1, <3>2, <3>3, <3>4, <3>5, <3>6 DEF Consumes
    <2>5. CASE UNCHANGED vars
      <3>1. /\ UNCHANGED <<acc, got, start, kind, pc, outcome>> /\ UNCHANGED item
            /\ Taken' = Taken
        BY <2>5 DEF Taken, IsToken, vars, tokenStream, history
      <3>2. outcome = "ok" => ~IsToken(item')
        BY <1>2, <3>1 DEF ResultInv
      <3> QED
        BY <1>2, <3>1, <3>2, ResultSame
    <2> QED
      BY <1>2, <2>2, <2>3, <2>4, <2>5, NextCases
  <1> QED
    BY <1>1, <1>2, ReadAlways, ColumnsAlways, PTL DEF Spec

\* What a collecting call returns is what the response holds from where it was
\* called, for every response and whatever the application did with the stream
\* before: each result set in its place, empty ones included, the last return
\* status, all values and counts in order, and the columns a look-up asks for
\* (collect_results, into_command_result, ExecuteResult::new,
\* fetch_column_metadata, query_run_for_metadata).
THEOREM CallsReturnTheirResponse == Spec => []ResultFaithful
  <1>1. ASSUME TypeInv /\ ReadInv, ResultInv
        PROVE  ResultFaithful
    <2>1. SUFFICES ASSUME outcome = "ok"
                   PROVE  ResultFaithful
      BY DEF ResultFaithful
    <2> DEFINE metas == OfType(read, "meta")
               counted == Counted(read)
    <2>2. Returned /\ Taken = read
      BY <1>1, <2>1, TakenIs DEF ResultInv, ReadInv
    <2>3. kind \in Streams \cup Folds
      BY <1>1 DEF TypeInv
    <2>4. CASE kind \in Streams
      <3>1. /\ acc.results = ResultSets(Rest)
            /\ acc.status = LastNumber(OfType(Rest, "status"))
            /\ acc.values = Numbers(OfType(Rest, "value"))
            /\ acc.counts = Numbers(OfType(Rest, "affected"))
        BY <2>2, <2>4 DEF Returned, GatheredNumbers
      <3>2. kind \notin {"execute", "tvp", "table"}
        BY <2>4 DEF Streams
      <3> QED
        BY <2>4, <3>1, <3>2 DEF ResultFaithful, LastNumber, Rest
    <2>5. CASE kind = "execute"
      <3>1. acc.counts = Sizes(counted)
        BY <2>2, <2>5 DEF Returned, Folds, Folded, FoldedExecute
      <3>2. Sizes(counted) = [i \in 1..Len(counted) |-> IF counted[i].m = "count"
                                                        THEN counted[i].n ELSE 0]
        BY DEF Sizes, Rows
      <3>3. kind \notin Streams
        BY <2>5 DEF Streams
      <3> HIDE DEF counted
      <3>4. acc.counts = [i \in 1..Len(counted) |-> IF counted[i].m = "count"
                                                    THEN counted[i].n ELSE 0]
        BY <3>1, <3>2
      <3> QED
        BY <2>5, <3>3, <3>4 DEF ResultFaithful, counted
    <2>6. CASE kind = "tvp"
      <3>1. acc.cols = IF metas = <<>> THEN <<>> ELSE << metas[Len(metas)].m >>
        BY <2>2, <2>6 DEF Returned, Folds, Folded, FoldedTvp
      <3>2. kind \notin Streams
        BY <2>6 DEF Streams
      <3> QED
        BY <2>6, <3>1, <3>2 DEF ResultFaithful
    <2>7. CASE kind = "table"
      <3>1. /\ acc.cols = IF metas = <<>> THEN <<>> ELSE << metas[1].m >>
            /\ Len(acc.values) = Len(OfType(read, "row")) /\ acc.cols # <<>>
        BY <2>2, <2>7 DEF Returned, Folds, Folded, FoldedTable
      <3>2. acc.cols = << metas[1].m >>
        BY <3>1
      <3>3. kind \notin Streams
        BY <2>7 DEF Streams
      <3> QED
        BY <2>7, <3>1, <3>2, <3>3 DEF ResultFaithful
    <2> QED
      BY <2>3, <2>4, <2>5, <2>6, <2>7 DEF Folds
  <1> QED
    BY <1>1, ReadAlways, ResultAlways, PTL

==============================================================================
