------------------------- MODULE PacketFramingProofs -------------------------
(***************************************************************************)
(* The packet layer is a channel of whole messages, for every packet size,  *)
(* every length of the messages and every way in which the socket cuts      *)
(* them: the proof of IsMessageChannel, and of the invariants on the way.   *)
(*                                                                         *)
(* The bytes under way are the read buffer and what is still to be          *)
(* flushed.  A packet says where the next one begins; so it is enough to    *)
(* say of each first byte of a header what follows it (Shaped), what the    *)
(* reader expects at the front, and what the writer adds at the end.        *)
(***************************************************************************)
EXTENDS PacketFraming, TLAPS

Types == {"none", "send", "login", "bulk", "attn"}

Byte == [kind : {"hdr", "data", "bad"}, m : Nat, i : Nat, type : Types, len : Nat,
         eom : BOOLEAN, size : Nat]

Steps == {"idle", "loop", "flush", "last", "frames", "login", "bulk"}

FramingTypes ==
    /\ pc \in Steps /\ kind \in {"send", "login", "bulk", "attn"}
    /\ todo \in Seq(Byte) /\ wbuf \in Seq(Byte) /\ frames \in Seq(Byte)
    /\ src \in Seq(Byte) /\ acc \in Seq(Byte) /\ msg \in Seq(Byte)
    /\ done \in Seq(Seq(Byte)) /\ received \in Seq(Seq(Byte))
    /\ ending \in BOOLEAN /\ poisoned \in BOOLEAN /\ open \in BOOLEAN
    /\ rows \in Nat /\ size \in MinSize..MaxSize
    /\ reader \in {"reading", "eof", "error"}

\* The first n bytes of message m.
Prefix(m, n) == [i \in 1..n |-> Data(m, i)]

\* What the steps of a call know of the fields of the connection.
Phases ==
    /\ pc \in {"loop", "flush", "last", "frames", "login"} => poisoned
    /\ pc \in {"loop", "flush"} => kind \in {"send", "bulk"}
    /\ pc \in {"frames", "login"} => kind = "login"
    /\ pc = "bulk" => kind = "bulk" /\ ~ending
    /\ pc \in {"loop", "frames", "login"} \/ ~poisoned => wbuf = <<>>
    /\ pc \notin {"frames", "login"} => frames = <<>>
    /\ pc \in {"flush", "last"} => wbuf # <<>>
    /\ pc = "login" => frames # <<>>

\* The message being written, and what is left of it to be put into packets.
BeingWritten ==
    pc # "idle" =>
        /\ Len(done) < MaxMsgs
        /\ msg = Prefix(Len(done) + 1, Len(msg))
        /\ Len(msg) <= MaxPayload
        /\ kind = "bulk" /\ ~ending => Len(msg) < MaxPayload
        /\ Len(todo) <= Len(msg)
        /\ \A j \in 1..Len(todo) : todo[j] = Data(Len(done) + 1, Len(msg) - Len(todo) + j)
        /\ (Len(todo) = 0) <=> (pc \in {"last", "login"})
        /\ pc = "last" /\ kind = "bulk" => ending

WriterInv == FramingTypes /\ Phases /\ BeingWritten

-----------------------------------------------------------------------------
\* A byte with which a packet begins.
Start(b) == b.kind # "data" /\ b.i = 1

\* The message and the offset of the payload in it after the packet at k of S.
NextMsg(S, k) == IF S[k].eom THEN S[k].m + 1 ELSE S[k].m
NextOff(S, k) == IF S[k].eom THEN 0 ELSE S[k + HeaderBytes].i - 1 + S[k].len - HeaderBytes

\* If S goes on at p, then with a packet whose payload is what follows the first
\* o bytes of message m.
Follows(S, p, m, o) ==
    p <= Len(S) =>
        /\ Start(S[p])
        /\ S[p].m # 0 =>
            /\ S[p].m = m
            /\ S[p].len = HeaderBytes => o = 0
            /\ S[p].len > HeaderBytes /\ p + HeaderBytes <= Len(S) => S[p + HeaderBytes].i = o + 1

\* What begins at k is a packet, as far as it is there, or malformed.
PacketAt(S, k) ==
    IF S[k].m = 0 THEN S[k].kind # "hdr" \/ S[k].len < HeaderBytes
    ELSE /\ S[k].len >= HeaderBytes
         /\ S[k].len = HeaderBytes => S[k].eom
         /\ \A j \in k + HeaderBytes..k + S[k].len - 1 :
                j <= Len(S) => S[j] = Data(S[k].m, S[k + HeaderBytes].i + (j - k - HeaderBytes))
         /\ Follows(S, k + S[k].len, NextMsg(S, k), NextOff(S, k))

Shaped(S) == \A k \in 1..Len(S) : Start(S[k]) => PacketAt(S, k)

\* S ends with a whole packet, and the next one goes on with message m at o.
Whole(S, m, o) ==
    \A k \in 1..Len(S) : Start(S[k]) =>
        /\ S[k].m # 0
        /\ k + S[k].len - 1 <= Len(S)
        /\ k + S[k].len - 1 = Len(S) => NextMsg(S, k) = m /\ NextOff(S, k) = o

\* A packet that ends a message ends with the last byte of it.
Ends(S, ms) ==
    \A k \in 1..Len(S) : Start(S[k]) /\ S[k].m # 0 /\ S[k].eom =>
        /\ S[k].len = HeaderBytes => Len(ms[S[k].m]) = 0
        /\ S[k].len > HeaderBytes /\ k + HeaderBytes <= Len(S) =>
               S[k + HeaderBytes].i - 1 + S[k].len - HeaderBytes = Len(ms[S[k].m])

\* A packet in S that ends a message after the first n is not wholly in the
\* first l bytes, and there is one only if there may be.
Unfinished(S, n, l, may) ==
    \A k \in 1..Len(S) : Start(S[k]) =>
        /\ S[k].m <= n + 1
        /\ S[k].eom /\ S[k].m > n => may /\ k + S[k].len - 1 > l

-----------------------------------------------------------------------------
\* The writer goes on where it is; otherwise its call has been dropped.
Alive == pc \notin {"idle", "bulk"} \/ ~poisoned

Rest == IF pc \in {"frames", "login"} THEN frames ELSE wbuf

\* One after the other; a name of its own keeps the provers from looking inside.
Join(s, t) == s \o t

\* The bytes that will come to the reader.
Pipe == IF open /\ Alive THEN Join(src, Rest) ELSE src

\* What the writer will put into its next packet.
WriterMsg == IF pc \in {"last", "login"} THEN Len(done) + 2 ELSE Len(done) + 1
WriterOff == IF pc \in {"idle", "last", "login"} THEN 0 ELSE Len(msg) - Len(todo)

\* The messages, with the one being written.
AllMsgs == Append(done, msg)

\* A message may have its end in a packet and not be written yet.
MayEnd == poisoned /\ pc \notin {"loop", "flush", "frames"}

\* What the bytes under way say to a reader that has r messages and a bytes of
\* the next one; ms are the messages, n of them are written, and the first l
\* bytes of S have arrived.
Stream(S, ms, n, l, may, r, a) ==
    /\ Shaped(S) /\ Ends(S, ms) /\ Unfinished(S, n, l, may)
    /\ Follows(S, 1, r + 1, a)

\* The writer may go on with message m at o.
Ready(S, m, o, r, a) ==
    /\ Whole(S, m, o)
    /\ S = <<>> => r + 1 = m /\ a = o

ReaderInv ==
    reader = "reading" =>
        /\ Stream(Pipe, AllMsgs, Len(done), Len(src), MayEnd, Len(received), Len(acc))
        /\ acc = Prefix(Len(received) + 1, Len(acc))
        /\ open /\ Alive => Ready(Pipe, WriterMsg, WriterOff, Len(received), Len(acc))

WrittenMsgs == \A m \in 1..Len(done) : done[m] = Prefix(m, Len(done[m]))

ChannelInv == WriterInv /\ ReaderInv /\ WrittenMsgs

-----------------------------------------------------------------------------
(* Sequences of bytes                                                       *)

\* What is needed of the constants.
LEMMA Sizes_ ==
    /\ HeaderBytes \in Nat /\ HeaderBytes > 0
    /\ MinSize \in Nat /\ MaxSize \in Nat /\ LengthMod \in Nat
    /\ HeaderBytes < MinSize /\ MinSize <= MaxSize /\ MaxSize < LengthMod
    /\ FirstSize \in MinSize..MaxSize
BY FramingAssumption

LEMMA ByteFields ==
    ASSUME NEW b \in Byte
    PROVE  b.len \in Nat /\ b.m \in Nat /\ b.i \in Nat /\ b.eom \in BOOLEAN
BY DEF Byte

LEMMA ByteAt ==
    ASSUME NEW S \in Seq(Byte), NEW k \in 1..Len(S)
    PROVE  S[k] \in Byte /\ S[k].len \in Nat /\ S[k].m \in Nat /\ S[k].i \in Nat
<1>1. S[k] \in Byte
  OBVIOUS
<1> QED  BY <1>1, ByteFields

\* The beginning of a stream is made of packets if the stream is.
LEMMA PrefixShaped ==
    ASSUME NEW S \in Seq(Byte), NEW T \in Seq(Byte), Len(T) <= Len(S),
           \A i \in 1..Len(T) : T[i] = S[i], Shaped(S)
    PROVE  Shaped(T)
<1>1. SUFFICES ASSUME NEW k \in 1..Len(T), Start(T[k])  PROVE PacketAt(T, k)
  BY DEF Shaped
<1>2. k \in 1..Len(S) /\ T[k] = S[k] /\ S[k] \in Byte
  OBVIOUS
<1>3. PacketAt(S, k)
  BY <1>1, <1>2 DEF Shaped
<1>4. CASE S[k].m = 0
  BY <1>2, <1>3, <1>4 DEF PacketAt
<1>5. CASE S[k].m # 0
  <2> DEFINE len == S[k].len
  <2>1. len \in Nat /\ len >= HeaderBytes /\ (len = HeaderBytes => S[k].eom)
    BY <1>2, <1>3, <1>5 DEF PacketAt, Byte
  <2>2. ASSUME NEW j \in k + HeaderBytes..k + len - 1, j <= Len(T)
        PROVE  T[j] = Data(T[k].m, T[k + HeaderBytes].i + (j - k - HeaderBytes))
    <3>0. j \in 1..Len(T) /\ k + HeaderBytes \in 1..Len(T)
      BY <2>1, <2>2, Sizes_
    <3>1. j <= Len(S) /\ T[j] = S[j] /\ T[k + HeaderBytes] = S[k + HeaderBytes]
      BY <3>0
    <3> QED  BY <1>2, <1>3, <1>5, <2>2, <3>1 DEF PacketAt
  <2>3. Follows(T, k + len, NextMsg(T, k), NextOff(T, k))
    <3>1. SUFFICES ASSUME k + len <= Len(T)
                   PROVE  Follows(T, k + len, NextMsg(T, k), NextOff(T, k))
      BY DEF Follows
    <3>2. T[k + len] = S[k + len] /\ T[k + HeaderBytes] = S[k + HeaderBytes]
      BY <2>1, <3>1, Sizes_
    <3>3. NextMsg(T, k) = NextMsg(S, k) /\ NextOff(T, k) = NextOff(S, k)
      BY <1>2, <3>2 DEF NextMsg, NextOff
    <3>4. Follows(S, k + len, NextMsg(S, k), NextOff(S, k))
      BY <1>3, <1>5 DEF PacketAt
    <3>5. k + len + HeaderBytes <= Len(T) => T[k + len + HeaderBytes] = S[k + len + HeaderBytes]
      BY <2>1, Sizes_
    <3> HIDE DEF len
    <3> QED  BY <3>1, <3>2, <3>3, <3>4, <3>5, <2>1, Sizes_ DEF Follows
  <2> QED  BY <1>2, <1>5, <2>1, <2>2, <2>3 DEF PacketAt
<1> QED  BY <1>4, <1>5

\* So is what is left when d bytes have been taken off.
LEMMA SuffixShaped ==
    ASSUME NEW S \in Seq(Byte), NEW T \in Seq(Byte), NEW d \in Nat,
           Len(T) = Len(S) - d, \A i \in 1..Len(T) : T[i] = S[i + d], Shaped(S)
    PROVE  Shaped(T)
<1>1. SUFFICES ASSUME NEW k \in 1..Len(T), Start(T[k])  PROVE PacketAt(T, k)
  BY DEF Shaped
<1> DEFINE p == k + d
<1>2. p \in 1..Len(S) /\ T[k] = S[p] /\ S[p] \in Byte
  OBVIOUS
<1>3. PacketAt(S, p)
  BY <1>1, <1>2 DEF Shaped
<1>4. CASE S[p].m = 0
  BY <1>2, <1>3, <1>4 DEF PacketAt
<1>5. CASE S[p].m # 0
  <2> DEFINE len == S[p].len
  <2>1. len \in Nat /\ len >= HeaderBytes /\ (len = HeaderBytes => S[p].eom)
    BY <1>2, <1>3, <1>5 DEF PacketAt, Byte
  <2>2. ASSUME NEW j \in k + HeaderBytes..k + len - 1, j <= Len(T)
        PROVE  T[j] = Data(T[k].m, T[k + HeaderBytes].i + (j - k - HeaderBytes))
    <3>0. j \in 1..Len(T) /\ k + HeaderBytes \in 1..Len(T) /\ p + HeaderBytes = (k + HeaderBytes) + d
      <4>1. HeaderBytes \in Nat /\ len \in Nat /\ k \in Nat /\ k >= 1 /\ Len(T) \in Nat
        BY <2>1, Sizes_
      <4>2. j \in Int /\ k + HeaderBytes <= j /\ j <= Len(T)
        BY <2>2, <4>1
      <4>3. p + HeaderBytes = (k + HeaderBytes) + d
        BY <4>1
      <4> HIDE DEF len, p
      <4> QED  BY <4>1, <4>2, <4>3
    <3>1. j + d <= Len(S) /\ T[j] = S[j + d] /\ T[k + HeaderBytes] = S[p + HeaderBytes]
      <4> HIDE DEF p
      <4> QED  BY <3>0
    <3>2. j + d \in p + HeaderBytes..p + len - 1 /\ j + d - p - HeaderBytes = j - k - HeaderBytes
      BY <2>1, <2>2, Sizes_
    <3>3. S[j + d] = Data(S[p].m, S[p + HeaderBytes].i + (j + d - p - HeaderBytes))
      BY <1>3, <1>5, <3>1, <3>2 DEF PacketAt
    <3> QED  BY <1>2, <3>1, <3>2, <3>3
  <2>3. Follows(T, k + len, NextMsg(T, k), NextOff(T, k))
    <3>1. SUFFICES ASSUME k + len <= Len(T)
                   PROVE  Follows(T, k + len, NextMsg(T, k), NextOff(T, k))
      BY DEF Follows
    <3>2. T[k + len] = S[p + len] /\ T[k + HeaderBytes] = S[p + HeaderBytes]
      <4>1. /\ k + len \in 1..Len(T) /\ p + len = (k + len) + d
            /\ k + HeaderBytes \in 1..Len(T) /\ p + HeaderBytes = (k + HeaderBytes) + d
        BY <2>1, <3>1, Sizes_
      <4> HIDE DEF len, p
      <4> QED  BY <4>1
    <3>3. NextMsg(T, k) = NextMsg(S, p) /\ NextOff(T, k) = NextOff(S, p)
      BY <1>2, <3>2 DEF NextMsg, NextOff
    <3>4. Follows(S, p + len, NextMsg(S, p), NextOff(S, p))
      BY <1>3, <1>5 DEF PacketAt
    <3>5. p + len <= Len(S)
      BY <3>1, <2>1
    <3>6. k + len + HeaderBytes <= Len(T) =>
              p + len + HeaderBytes <= Len(S) /\ T[k + len + HeaderBytes] = S[p + len + HeaderBytes]
      <4>1. SUFFICES ASSUME k + len + HeaderBytes <= Len(T)
                     PROVE  /\ p + len + HeaderBytes <= Len(S)
                            /\ T[k + len + HeaderBytes] = S[p + len + HeaderBytes]
        OBVIOUS
      <4>2. /\ k + len + HeaderBytes \in 1..Len(T)
            /\ p + len + HeaderBytes = (k + len + HeaderBytes) + d
        BY <2>1, <4>1, Sizes_
      <4> HIDE DEF len, p
      <4> QED  BY <4>2
    <3> HIDE DEF len, p
    <3> QED  BY <3>1, <3>2, <3>3, <3>4, <3>5, <3>6, <2>1, Sizes_ DEF Follows
  <2> QED  BY <1>2, <1>5, <2>1, <2>2, <2>3 DEF PacketAt
<1> QED  BY <1>4, <1>5

\* What follows at p inside of whole packets also follows when more is added.
LEMMA FollowsAppend ==
    ASSUME NEW S \in Seq(Byte), NEW T \in Seq(Byte), Len(S) <= Len(T),
           \A i \in 1..Len(S) : T[i] = S[i],
           NEW m, NEW o, Whole(S, m, o),
           NEW p \in 1..Len(S), NEW n, NEW q, Follows(S, p, n, q)
    PROVE  Follows(T, p, n, q)
<1>1. p \in 1..Len(T) /\ T[p] = S[p] /\ S[p] \in Byte /\ S[p].len \in Nat /\ Start(S[p])
  BY ByteAt DEF Follows
<1>2. S[p].m # 0 /\ p + S[p].len - 1 <= Len(S)
  BY <1>1 DEF Whole
<1>3. S[p].len > HeaderBytes =>
          p + HeaderBytes \in 1..Len(S) /\ T[p + HeaderBytes] = S[p + HeaderBytes]
  BY <1>1, <1>2, Sizes_
<1> QED  BY <1>1, <1>2, <1>3 DEF Follows

\* A packet after whole packets.
LEMMA AppendShaped ==
    ASSUME NEW S \in Seq(Byte), NEW T \in Seq(Byte), Len(S) < Len(T),
           \A i \in 1..Len(S) : T[i] = S[i],
           NEW m, NEW o, Shaped(S), Whole(S, m, o),
           Follows(T, Len(S) + 1, m, o), PacketAt(T, Len(S) + 1),
           \A k \in Len(S) + 2..Len(T) : ~Start(T[k])
    PROVE  Shaped(T)
<1>1. SUFFICES ASSUME NEW k \in 1..Len(T), Start(T[k]), k # Len(S) + 1  PROVE PacketAt(T, k)
  BY DEF Shaped
<1>2. k \in 1..Len(S) /\ T[k] = S[k] /\ S[k] \in Byte /\ S[k].len \in Nat
  <2>1. k \in 1..Len(S)
    BY <1>1
  <2> QED  BY <2>1, ByteAt
<1>3. PacketAt(S, k) /\ S[k].m # 0 /\ k + S[k].len - 1 <= Len(S)
  BY <1>1, <1>2 DEF Shaped, Whole
<1> DEFINE len == S[k].len
<1>4. len \in Nat /\ len >= HeaderBytes /\ (len = HeaderBytes => S[k].eom)
  BY <1>2, <1>3 DEF PacketAt
<1>5. len > HeaderBytes => k + HeaderBytes \in 1..Len(S) /\ T[k + HeaderBytes] = S[k + HeaderBytes]
  BY <1>2, <1>3, <1>4, Sizes_
<1>6. ASSUME NEW j \in k + HeaderBytes..k + len - 1, j <= Len(T)
      PROVE  T[j] = Data(T[k].m, T[k + HeaderBytes].i + (j - k - HeaderBytes))
  <2>1. j \in 1..Len(S) /\ len > HeaderBytes
    BY <1>2, <1>3, <1>4, <1>6, Sizes_
  <2>2. S[j] = Data(S[k].m, S[k + HeaderBytes].i + (j - k - HeaderBytes))
    BY <1>3, <1>6, <2>1 DEF PacketAt
  <2> QED  BY <1>2, <1>5, <2>1, <2>2
<1>7. NextMsg(T, k) = NextMsg(S, k) /\ NextOff(T, k) = NextOff(S, k)
  <2>1. CASE S[k].eom
    BY <1>2, <2>1 DEF NextMsg, NextOff
  <2>2. CASE ~S[k].eom
    <3>1. len > HeaderBytes
      BY <1>4, <2>2, Sizes_
    <3> QED  BY <1>2, <1>5, <2>2, <3>1 DEF NextMsg, NextOff
  <2> QED  BY <2>1, <2>2
<1>8. Follows(T, k + len, NextMsg(T, k), NextOff(T, k))
  <2>1. CASE k + len - 1 = Len(S)
    <3>1. k + len = Len(S) + 1
      <4> HIDE DEF len
      <4> QED  BY <2>1, <1>4
    <3>2. NextMsg(S, k) = m /\ NextOff(S, k) = o
      BY <1>1, <1>2, <2>1 DEF Whole
    <3> HIDE DEF len
    <3> QED  BY <1>7, <3>1, <3>2
  <2>2. CASE k + len - 1 # Len(S)
    <3>1. k + len \in 1..Len(S)
      BY <1>2, <1>3, <1>4, <2>2
    <3>2. Follows(S, k + len, NextMsg(S, k), NextOff(S, k))
      BY <1>3 DEF PacketAt
    <3> HIDE DEF len
    <3> QED  BY <1>7, <3>1, <3>2, FollowsAppend
  <2> QED  BY <2>1, <2>2
<1> QED  BY <1>2, <1>3, <1>4, <1>6, <1>8 DEF PacketAt

LEMMA AppendWhole ==
    ASSUME NEW S \in Seq(Byte), NEW T \in Seq(Byte), Len(S) < Len(T),
           \A i \in 1..Len(S) : T[i] = S[i],
           NEW m, NEW o, Whole(S, m, o),
           T[Len(S) + 1].m # 0, Len(S) + T[Len(S) + 1].len = Len(T),
           \A k \in Len(S) + 2..Len(T) : ~Start(T[k])
    PROVE  Whole(T, NextMsg(T, Len(S) + 1), NextOff(T, Len(S) + 1))
<1>1. SUFFICES ASSUME NEW k \in 1..Len(T), Start(T[k])
               PROVE  /\ T[k].m # 0
                      /\ k + T[k].len - 1 <= Len(T)
                      /\ k + T[k].len - 1 = Len(T) => k = Len(S) + 1
  BY DEF Whole
<1>2. CASE k = Len(S) + 1
  <2>1. T[k] \in Byte /\ T[k].len \in Nat
    BY ByteAt
  <2> QED  BY <1>2, <2>1
<1>3. CASE k # Len(S) + 1
  <2>1. k \in 1..Len(S) /\ T[k] = S[k] /\ S[k].len \in Nat
    <3>1. k \in 1..Len(S)
      BY <1>1, <1>3
    <3> QED  BY <3>1, ByteAt
  <2> QED  BY <1>1, <2>1 DEF Whole
<1> QED  BY <1>2, <1>3

LEMMA AppendEnds ==
    ASSUME NEW S \in Seq(Byte), NEW T \in Seq(Byte), Len(S) < Len(T),
           \A i \in 1..Len(S) : T[i] = S[i],
           NEW m, NEW o, Whole(S, m, o),
           NEW ms, Ends(S, ms),
           T[Len(S) + 1].m # 0 /\ T[Len(S) + 1].eom =>
               IF T[Len(S) + 1].len > HeaderBytes
               THEN T[Len(S) + 1 + HeaderBytes].i - 1 + T[Len(S) + 1].len - HeaderBytes
                        = Len(ms[T[Len(S) + 1].m])
               ELSE Len(ms[T[Len(S) + 1].m]) = 0,
           \A k \in Len(S) + 2..Len(T) : ~Start(T[k])
    PROVE  Ends(T, ms)
<1>1. SUFFICES ASSUME NEW k \in 1..Len(T), Start(T[k]), T[k].m # 0, T[k].eom
               PROVE  /\ T[k].len = HeaderBytes => Len(ms[T[k].m]) = 0
                      /\ T[k].len > HeaderBytes /\ k + HeaderBytes <= Len(T) =>
                           T[k + HeaderBytes].i - 1 + T[k].len - HeaderBytes = Len(ms[T[k].m])
  BY DEF Ends
<1>2. CASE k = Len(S) + 1
  BY <1>1, <1>2, Sizes_
<1>3. CASE k # Len(S) + 1
  <2>1. k \in 1..Len(S) /\ T[k] = S[k] /\ S[k].len \in Nat
    <3>1. k \in 1..Len(S)
      BY <1>1, <1>3
    <3> QED  BY <3>1, ByteAt
  <2>2. k + S[k].len - 1 <= Len(S)
    BY <1>1, <2>1 DEF Whole
  <2>3. S[k].len > HeaderBytes =>
            k + HeaderBytes \in 1..Len(S) /\ T[k + HeaderBytes] = S[k + HeaderBytes]
    BY <2>1, <2>2, Sizes_
  <2> QED  BY <1>1, <2>1, <2>3 DEF Ends
<1> QED  BY <1>2, <1>3

LEMMA PrefixEnds ==
    ASSUME NEW S \in Seq(Byte), NEW T \in Seq(Byte), Len(T) <= Len(S),
           \A i \in 1..Len(T) : T[i] = S[i], NEW ms, Ends(S, ms)
    PROVE  Ends(T, ms)
<1>1. SUFFICES ASSUME NEW k \in 1..Len(T), Start(T[k]), T[k].m # 0, T[k].eom
               PROVE  /\ T[k].len = HeaderBytes => Len(ms[T[k].m]) = 0
                      /\ T[k].len > HeaderBytes /\ k + HeaderBytes <= Len(T) =>
                           T[k + HeaderBytes].i - 1 + T[k].len - HeaderBytes = Len(ms[T[k].m])
  BY DEF Ends
<1>2. k \in 1..Len(S) /\ T[k] = S[k]
  OBVIOUS
<1>3. k + HeaderBytes <= Len(T) =>
          k + HeaderBytes \in 1..Len(S) /\ T[k + HeaderBytes] = S[k + HeaderBytes]
  BY Sizes_
<1> QED  BY <1>1, <1>2, <1>3 DEF Ends

LEMMA SuffixEnds ==
    ASSUME NEW S \in Seq(Byte), NEW T \in Seq(Byte), NEW d \in Nat,
           Len(T) = Len(S) - d, \A i \in 1..Len(T) : T[i] = S[i + d], NEW ms, Ends(S, ms)
    PROVE  Ends(T, ms)
<1>1. SUFFICES ASSUME NEW k \in 1..Len(T), Start(T[k]), T[k].m # 0, T[k].eom
               PROVE  /\ T[k].len = HeaderBytes => Len(ms[T[k].m]) = 0
                      /\ T[k].len > HeaderBytes /\ k + HeaderBytes <= Len(T) =>
                           T[k + HeaderBytes].i - 1 + T[k].len - HeaderBytes = Len(ms[T[k].m])
  BY DEF Ends
<1>2. k + d \in 1..Len(S) /\ T[k] = S[k + d]
  OBVIOUS
<1>3. ASSUME k + HeaderBytes <= Len(T)
      PROVE  /\ (k + d) + HeaderBytes <= Len(S)
             /\ T[k + HeaderBytes] = S[(k + d) + HeaderBytes]
  <2>1. k + HeaderBytes \in 1..Len(T) /\ (k + HeaderBytes) + d = (k + d) + HeaderBytes
    BY <1>3, Sizes_
  <2> QED  BY <2>1
<1> QED  BY <1>1, <1>2, <1>3 DEF Ends

LEMMA PrefixUnfinished ==
    ASSUME NEW S \in Seq(Byte), NEW T \in Seq(Byte), Len(T) <= Len(S),
           \A i \in 1..Len(T) : T[i] = S[i],
           NEW n, NEW l, NEW may, Unfinished(S, n, l, may)
    PROVE  Unfinished(T, n, l, may)
BY DEF Unfinished

LEMMA SuffixUnfinished ==
    ASSUME NEW S \in Seq(Byte), NEW T \in Seq(Byte), NEW d \in Nat,
           Len(T) = Len(S) - d, \A i \in 1..Len(T) : T[i] = S[i + d],
           NEW n \in Nat, NEW l \in Nat, NEW may, Unfinished(S, n, l, may)
    PROVE  Unfinished(T, n, l - d, may)
<1>1. SUFFICES ASSUME NEW k \in 1..Len(T), Start(T[k])
               PROVE  /\ T[k].m <= n + 1
                      /\ T[k].eom /\ T[k].m > n => may /\ k + T[k].len - 1 > l - d
  BY DEF Unfinished
<1>2. k + d \in 1..Len(S) /\ T[k] = S[k + d]
  OBVIOUS
<1>3. /\ S[k + d].m <= n + 1
      /\ S[k + d].eom /\ S[k + d].m > n => may /\ (k + d) + S[k + d].len - 1 > l
  BY <1>1, <1>2 DEF Unfinished
<1>4. S[k + d].len \in Nat
  BY <1>2, ByteAt
<1> QED  BY <1>2, <1>3, <1>4

\* The first byte of a stream says the same of its beginning.
LEMMA PrefixFollows ==
    ASSUME NEW S \in Seq(Byte), NEW T \in Seq(Byte), Len(T) <= Len(S),
           \A i \in 1..Len(T) : T[i] = S[i], NEW m, NEW o, Follows(S, 1, m, o)
    PROVE  Follows(T, 1, m, o)
<1>1. SUFFICES ASSUME 1 <= Len(T)  PROVE Follows(T, 1, m, o)
  BY DEF Follows
<1>2. T[1] = S[1] /\ 1 <= Len(S)
  BY <1>1
<1>3. 1 + HeaderBytes <= Len(T) =>
          1 + HeaderBytes <= Len(S) /\ T[1 + HeaderBytes] = S[1 + HeaderBytes]
  BY Sizes_
<1> QED  BY <1>1, <1>2, <1>3 DEF Follows

LEMMA SuffixFollows ==
    ASSUME NEW S \in Seq(Byte), NEW T \in Seq(Byte), NEW d \in Nat,
           Len(T) = Len(S) - d, \A i \in 1..Len(T) : T[i] = S[i + d],
           NEW m, NEW o, Follows(S, d + 1, m, o)
    PROVE  Follows(T, 1, m, o)
<1>1. SUFFICES ASSUME 1 <= Len(T)  PROVE Follows(T, 1, m, o)
  BY DEF Follows
<1>2. T[1] = S[d + 1] /\ d + 1 <= Len(S)
  BY <1>1
<1>3. ASSUME 1 + HeaderBytes <= Len(T)
      PROVE  /\ (d + 1) + HeaderBytes <= Len(S)
             /\ T[1 + HeaderBytes] = S[(d + 1) + HeaderBytes]
  <2>1. 1 + HeaderBytes \in 1..Len(T) /\ (1 + HeaderBytes) + d = (d + 1) + HeaderBytes
    BY <1>3, Sizes_
  <2> QED  BY <2>1
<1> QED  BY <1>1, <1>2, <1>3 DEF Follows

LEMMA SuffixWhole ==
    ASSUME NEW S \in Seq(Byte), NEW T \in Seq(Byte), NEW d \in Nat,
           Len(T) = Len(S) - d, \A i \in 1..Len(T) : T[i] = S[i + d],
           Shaped(S), NEW m, NEW o, Whole(S, m, o)
    PROVE  Whole(T, m, o)
<1>1. SUFFICES ASSUME NEW k \in 1..Len(T), Start(T[k])
               PROVE  /\ T[k].m # 0
                      /\ k + T[k].len - 1 <= Len(T)
                      /\ k + T[k].len - 1 = Len(T) => NextMsg(T, k) = m /\ NextOff(T, k) = o
  BY DEF Whole
<1>2. k + d \in 1..Len(S) /\ T[k] = S[k + d]
  OBVIOUS
<1>3. S[k + d].len \in Nat
  BY <1>2, ByteAt
<1>4. /\ S[k + d].m # 0 /\ (k + d) + S[k + d].len - 1 <= Len(S)
      /\ (k + d) + S[k + d].len - 1 = Len(S) => NextMsg(S, k + d) = m /\ NextOff(S, k + d) = o
  BY <1>1, <1>2 DEF Whole
<1>5. S[k + d].len >= HeaderBytes /\ (S[k + d].len = HeaderBytes => S[k + d].eom)
  BY <1>1, <1>2, <1>4 DEF Shaped, PacketAt
<1>6. NextMsg(T, k) = NextMsg(S, k + d) /\ NextOff(T, k) = NextOff(S, k + d)
  <2>1. CASE S[k + d].eom
    BY <1>2, <2>1 DEF NextMsg, NextOff
  <2>2. CASE ~S[k + d].eom
    <3>1. S[k + d].len > HeaderBytes
      BY <1>3, <1>5, <2>2, Sizes_
    <3>2. k + HeaderBytes \in 1..Len(T) /\ (k + HeaderBytes) + d = (k + d) + HeaderBytes
      BY <1>2, <1>3, <1>4, <3>1, Sizes_
    <3>3. T[k + HeaderBytes] = S[(k + d) + HeaderBytes]
      BY <3>2
    <3> QED  BY <1>2, <2>2, <3>3 DEF NextMsg, NextOff
  <2> QED  BY <2>1, <2>2
<1>8. k + T[k].len - 1 <= Len(T) /\ (k + T[k].len - 1 = Len(T) => (k + d) + S[k + d].len - 1 = Len(S))
  <2> DEFINE z == S[k + d].len
  <2>1. z \in Nat /\ (k + d) + z - 1 <= Len(S) /\ T[k].len = z
    BY <1>2, <1>3, <1>4
  <2> HIDE DEF z
  <2>2. k + z - 1 <= Len(T) /\ (k + z - 1 = Len(T) => (k + d) + z - 1 = Len(S))
    BY <2>1
  <2> QED  BY <2>1, <2>2 DEF z
<1> QED  BY <1>2, <1>4, <1>6, <1>8

-----------------------------------------------------------------------------
(* The operators of the model                                               *)

LEMMA DataByte ==
    ASSUME NEW m \in Nat, NEW i \in Nat
    PROVE  Data(m, i) \in Byte /\ ~Start(Data(m, i)) /\ Data(m, i).i = i
BY DEF Data, Byte, Types, Start

LEMMA BytesOf ==
    ASSUME done \in Seq(Seq(Byte)), NEW from \in Nat, NEW n \in Nat
    PROVE  /\ Bytes(from, n) \in Seq(Byte) /\ Len(Bytes(from, n)) = n
           /\ \A i \in 1..n : Bytes(from, n)[i] = Data(Len(done) + 1, from + i)
<1>1. \A i \in 1..n : Data(Len(done) + 1, from + i) \in Byte
  BY DataByte
<1> QED  BY <1>1 DEF Bytes

LEMMA PrefixOf ==
    ASSUME NEW m \in Nat, NEW n \in Nat
    PROVE  /\ Prefix(m, n) \in Seq(Byte) /\ Len(Prefix(m, n)) = n
           /\ \A i \in 1..n : Prefix(m, n)[i] = Data(m, i)
<1>1. \A i \in 1..n : Data(m, i) \in Byte
  BY DataByte
<1> QED  BY <1>1 DEF Prefix

\* Sequences are told apart by their elements.
LEMMA IsPrefixOf ==
    ASSUME NEW m \in Nat, NEW s \in Seq(Byte), \A i \in 1..Len(s) : s[i] = Data(m, i)
    PROVE  s = Prefix(m, Len(s))
BY DEF Prefix

LEMMA NoWrap ==
    ASSUME NEW a \in Nat, NEW b \in Nat, a < b
    PROVE  a % b = a
OBVIOUS

\* Sequences by their elements.
LEMMA SeqOfBytes ==
    ASSUME NEW n \in Nat, NEW f, f = [i \in 1..n |-> f[i]], \A i \in 1..n : f[i] \in Byte
    PROVE  f \in Seq(Byte) /\ Len(f) = n
<1> DEFINE g == [i \in 1..n |-> f[i]]
<1>1. g \in Seq(Byte) /\ Len(g) = n
  OBVIOUS
<1> QED  BY <1>1

LEMMA SameBytes ==
    ASSUME NEW s \in Seq(Byte), NEW t \in Seq(Byte), Len(s) = Len(t),
           \A i \in 1..Len(t) : s[i] = t[i]
    PROVE  s = t
OBVIOUS

LEMMA Joined ==
    ASSUME NEW s \in Seq(Byte), NEW t \in Seq(Byte)
    PROVE  /\ s \o t \in Seq(Byte) /\ Len(s \o t) = Len(s) + Len(t)
           /\ \A i \in 1..Len(s) : (s \o t)[i] = s[i]
           /\ \A i \in 1..Len(t) : (s \o t)[Len(s) + i] = t[i]
OBVIOUS

LEMMA Cut ==
    ASSUME NEW s \in Seq(Byte), NEW n \in 0..Len(s)
    PROVE  /\ Take(s, n) \in Seq(Byte) /\ Len(Take(s, n)) = n
           /\ \A i \in 1..n : Take(s, n)[i] = s[i]
           /\ DropFirst(s, n) \in Seq(Byte) /\ Len(DropFirst(s, n)) = Len(s) - n
           /\ \A i \in 1..Len(s) - n : DropFirst(s, n)[i] = s[i + n]
<1>1. n \in Nat /\ n <= Len(s) /\ Len(s) \in Nat
  OBVIOUS
<1>2. Take(s, n) \in Seq(Byte) /\ Len(Take(s, n)) = n
  BY <1>1 DEF Take
<1>3. \A i \in 1..n : Take(s, n)[i] = s[i]
  BY <1>1 DEF Take
<1>4. DropFirst(s, n) \in Seq(Byte) /\ Len(DropFirst(s, n)) = Len(s) - n
  BY <1>1 DEF DropFirst
<1>5. \A i \in 1..Len(s) - n : DropFirst(s, n)[i] = s[i + n]
  BY <1>1 DEF DropFirst
<1> QED  BY <1>2, <1>3, <1>4, <1>5

\* b is the i-th byte of the header of a packet of message m.
IsHeader(b, m, i, len, eom) ==
    b.kind = "hdr" /\ b.m = m /\ b.i = i /\ b.len = len /\ b.eom = eom

HeaderOf(m, i, t, len, eom) ==
    [kind |-> "hdr", m |-> m, i |-> i, type |-> t, len |-> len, eom |-> eom, size |-> size]

LEMMA HeaderByte ==
    ASSUME NEW m, NEW i, NEW t, NEW len, NEW eom
    PROVE  /\ IsHeader(HeaderOf(m, i, t, len, eom), m, i, len, eom)
           /\ HeaderOf(m, i, t, len, eom).type = t /\ HeaderOf(m, i, t, len, eom).size = size
BY DEF IsHeader, HeaderOf

\* A byte of a malformed header.
Bad(k, i, len) ==
    [kind |-> k, m |-> 0, i |-> i, type |-> "none", len |-> len, eom |-> TRUE, size |-> 0]

LEMMA BadByte ==
    ASSUME NEW k \in {"bad", "hdr"}, NEW i \in Nat, NEW len \in Nat
    PROVE  /\ Bad(k, i, len) \in Byte /\ Bad(k, i, len).i = i /\ Bad(k, i, len).m = 0
           /\ Bad(k, i, len).kind = k /\ Bad(k, i, len).len = len
BY DEF Bad, Byte, Types

\* Packet::encode into an empty buffer.
LEMMA EncodeFresh ==
    ASSUME done \in Seq(Seq(Byte)), size \in Nat, NEW t \in Types, NEW eom \in BOOLEAN, NEW p \in Seq(Byte),
           Len(p) + HeaderBytes < LengthMod
    PROVE  LET E == Encode(<<>>, t, eom, p) IN
           /\ E \in Seq(Byte) /\ Len(E) = HeaderBytes + Len(p)
           /\ \A i \in 1..HeaderBytes :
                 E[i] = HeaderOf(Len(done) + 1, i, t, HeaderBytes + Len(p), eom)
           /\ \A i \in 1..Len(p) : E[HeaderBytes + i] = p[i]
<1> DEFINE all == Header(t, eom) \o p
           len == (Len(p) + HeaderBytes) % LengthMod
           E == [i \in 1..Len(all) |->
                    IF i <= HeaderBytes THEN [all[i] EXCEPT !.len = len] ELSE all[i]]
           h(i) == [kind |-> "hdr", m |-> Len(done) + 1, i |-> i, type |-> t, len |-> 0,
                    eom |-> eom, size |-> size]
           f(i) == [kind |-> "hdr", m |-> Len(done) + 1, i |-> i, type |-> t,
                    len |-> HeaderBytes + Len(p), eom |-> eom, size |-> size]
<1>1. len = HeaderBytes + Len(p)
  <2>1. Len(p) + HeaderBytes \in Nat
    BY Sizes_
  <2>2. len = Len(p) + HeaderBytes
    BY <2>1, NoWrap, Sizes_
  <2> QED  BY <2>2, Sizes_
<1>2. \A i \in 1..HeaderBytes : h(i) \in Byte /\ f(i) \in Byte
  BY Sizes_ DEF Byte
<1>3. Header(t, eom) = [i \in 1..HeaderBytes |-> h(i)]
  BY DEF Header
<1>4. Header(t, eom) \in Seq(Byte) /\ Len(Header(t, eom)) = HeaderBytes
  <2>1. \A i \in 1..HeaderBytes : Header(t, eom)[i] = h(i)
    BY <1>3
  <2>2. Header(t, eom) = [i \in 1..HeaderBytes |-> Header(t, eom)[i]]
    BY DEF Header
  <2> HIDE DEF h, f
  <2>3. \A i \in 1..HeaderBytes : Header(t, eom)[i] \in Byte
    BY <1>2, <2>1
  <2> QED  BY <2>2, <2>3, SeqOfBytes, Sizes_
<1>5. <<>> \o Header(t, eom) = Header(t, eom)
  BY <1>4
<1>6. all \in Seq(Byte) /\ Len(all) = HeaderBytes + Len(p)
  BY <1>4, Joined
<1>7. /\ \A i \in 1..HeaderBytes : all[i] = Header(t, eom)[i]
      /\ \A i \in 1..Len(p) : all[HeaderBytes + i] = p[i]
  BY <1>4, Joined
<1>8. \A i \in 1..HeaderBytes : all[i] = h(i)
  BY <1>7, <1>3
<1>9. Encode(<<>>, t, eom, p) = E
  BY <1>5 DEF Encode
<1> HIDE DEF all, len
<1>10. \A i \in 1..HeaderBytes : E[i] = f(i)
  <2>1. TAKE i \in 1..HeaderBytes
  <2>2. i \in 1..Len(all) /\ i <= HeaderBytes
    BY <1>6, Sizes_
  <2>3. E[i] = [all[i] EXCEPT !.len = len]
    BY <2>2
  <2>4. E[i] = [h(i) EXCEPT !.len = len]
    BY <1>8, <2>3
  <2>5. [h(i) EXCEPT !.len = len] = f(i)
    BY <1>1
  <2> QED  BY <2>4, <2>5
<1>11. \A i \in 1..Len(p) : E[HeaderBytes + i] = p[i]
  BY <1>6, <1>7, Sizes_
<1>12. \A i \in 1..Len(all) : E[i] \in Byte
  <2>1. TAKE i \in 1..Len(all)
  <2>2. CASE i <= HeaderBytes
    <3>1. i \in 1..HeaderBytes
      BY <2>2, Sizes_
    <3> HIDE DEF E, f
    <3> QED  BY <3>1, <1>10, <1>2
  <2>3. CASE i > HeaderBytes
    <3>1. E[i] = all[i]
      BY <2>1, <2>3, Sizes_
    <3> QED  BY <3>1, <1>6
  <2> QED  BY <2>1, <2>2, <2>3, Sizes_, <1>6
<1>13. E = [i \in 1..Len(all) |-> E[i]] /\ Len(all) \in Nat
  BY <1>6, Sizes_
<1> HIDE DEF E
<1>14. E \in Seq(Byte) /\ Len(E) = Len(all)
  BY <1>12, <1>13, SeqOfBytes
<1> QED  BY <1>6, <1>9, <1>10, <1>11, <1>14 DEF HeaderOf

LEMMA Smaller ==
    ASSUME NEW a \in Int, NEW b \in Int
    PROVE  Min({a, b}) = IF a <= b THEN a ELSE b
<1> DEFINE c == IF a <= b THEN a ELSE b
<1>1. c \in {a, b} /\ \A y \in {a, b} : c <= y
  OBVIOUS
<1>2. \A x \in {a, b} : (\A y \in {a, b} : x <= y) => x = c
  OBVIOUS
<1> QED  BY <1>1, <1>2 DEF Min

LEMMA RoomSize ==
    ASSUME FramingTypes
    PROVE  Room \in Nat /\ Room >= 1 /\ Room + HeaderBytes = size /\ size \in Nat
           /\ size < LengthMod /\ MinSize <= size /\ size <= MaxSize
BY Sizes_ DEF FramingTypes, Room

\* What a packet takes of the payload: it is full or it is the last.
LEMMA PacketTakes ==
    ASSUME FramingTypes, todo # <<>>, NEW n \in 0..Len(todo), NEW eom \in BOOLEAN,
           NextPacket(n, eom)
    PROVE  /\ n \in 1..Room /\ n <= Len(todo)
           /\ eom => n = Len(todo)
           /\ ~eom => n = Room /\ n < Len(todo)
<1>1. todo \in Seq(Byte) /\ Len(todo) \in Nat /\ Len(todo) > 0
  BY DEF FramingTypes
<1>2. CASE kind = "bulk"
  <2>1. CASE MustWrite(todo)
    <3>1. n = Room /\ ~eom
      BY <1>2, <2>1 DEF NextPacket
    <3>2. n < Len(todo)
      BY <2>1, <3>1 DEF MustWrite
    <3> QED  BY <3>1, <3>2, RoomSize
  <2>2. CASE ~MustWrite(todo)
    <3>1. n = Len(todo) /\ eom
      BY <1>2, <2>2 DEF NextPacket
    <3> QED  BY <3>1, <2>2, <1>1, RoomSize DEF MustWrite
  <2> QED  BY <2>1, <2>2
<1>3. CASE kind # "bulk"
  <2>1. n = Min({Len(todo), Room}) /\ (eom <=> n = Len(todo))
    BY <1>3, Zenon DEF NextPacket
  <2>2. n = IF Len(todo) <= Room THEN Len(todo) ELSE Room
    BY <2>1, <1>1, RoomSize, Smaller
  <2> QED  BY <2>1, <2>2, <1>1, RoomSize
<1> QED  BY <1>2, <1>3

-----------------------------------------------------------------------------
(* The writer                                                               *)

LEMMA WriterInit == Init => WriterInv
<1>1. <<>> \in Seq(Byte) /\ <<>> \in Seq(Seq(Byte)) /\ 0 \in Nat
  OBVIOUS
<1>2. Init => FramingTypes
  BY <1>1, Sizes_, Zenon DEF Init, FramingTypes, Steps
<1>3. Init => Phases /\ BeingWritten
  BY DEF Init, Phases, BeingWritten
<1> QED  BY <1>2, <1>3 DEF WriterInv

\* The message at hand, as it begins.
LEMMA BeginsWith ==
    ASSUME FramingTypes, NEW n \in Nat
    PROVE  /\ Bytes(0, n) \in Seq(Byte) /\ Len(Bytes(0, n)) = n
           /\ Bytes(0, n) = Prefix(Len(done) + 1, n)
           /\ \A j \in 1..n : Bytes(0, n)[j] = Data(Len(done) + 1, n - n + j)
<1>1. done \in Seq(Seq(Byte)) /\ Len(done) + 1 \in Nat
  BY DEF FramingTypes
<1>2. Bytes(0, n) = Prefix(Len(done) + 1, n)
  BY <1>1 DEF Bytes, Prefix
<1>3. /\ Bytes(0, n) \in Seq(Byte) /\ Len(Bytes(0, n)) = n
      /\ \A j \in 1..n : Bytes(0, n)[j] = Data(Len(done) + 1, j)
  <2> DEFINE d == Len(done) + 1
  <2>1. d \in Nat
    BY <1>1
  <2> HIDE DEF d
  <2>2. /\ Prefix(d, n) \in Seq(Byte) /\ Len(Prefix(d, n)) = n
        /\ \A j \in 1..n : Prefix(d, n)[j] = Data(d, j)
    BY <2>1, PrefixOf
  <2> QED  BY <1>2, <2>2 DEF d
<1>4. \A j \in 1..n : n - n + j = j
  OBVIOUS
<1> QED  BY <1>2, <1>3, <1>4

LEMMA SetPacketSizeWriter ==
    ASSUME WriterInv, NEW n \in Sizes, SetPacketSize(n)
    PROVE  WriterInv'
<1>1. n \in MinSize..MaxSize
  BY DEF SetPacketSize, ValidSize
<1>2. FramingTypes'
  BY <1>1 DEF WriterInv, FramingTypes, SetPacketSize, readerVars
<1> QED  BY <1>2 DEF WriterInv, Phases, BeingWritten, SetPacketSize, readerVars

LEMMA BeginSendWriter ==
    ASSUME WriterInv, NEW n \in SendSizes, BeginSend(n)
    PROVE  WriterInv'
<1>1. n \in Nat /\ n > 0 /\ n <= MaxPayload
  BY FramingAssumption
<1>2. FramingTypes'
  BY <1>1, BeginsWith DEF WriterInv, FramingTypes, BeginSend, readerVars, Steps
<1>3. Phases'
  BY DEF WriterInv, Phases, BeginSend, readerVars, Usable
<1>4. BeingWritten'
  <2>1. /\ todo' = Bytes(0, n) /\ msg' = Bytes(0, n) /\ done' = done /\ Len(done) < MaxMsgs
        /\ pc' = "loop" /\ kind' = "send"
    BY DEF BeginSend
  <2>2. Len(done) \in Nat
    BY DEF WriterInv, FramingTypes
  <2>3. /\ Len(todo') = n /\ Len(msg') = n /\ msg' = Prefix(Len(done) + 1, n)
        /\ \A j \in 1..n : todo'[j] = Data(Len(done) + 1, n - n + j)
    BY <1>1, <2>1, BeginsWith DEF WriterInv
  <2> QED  BY <1>1, <2>1, <2>3 DEF BeingWritten
<1> QED  BY <1>2, <1>3, <1>4 DEF WriterInv

LEMMA BeginLoginWriter ==
    ASSUME WriterInv, NEW n \in LoginSizes, BeginLogin(n)
    PROVE  WriterInv'
<1>1. n \in Nat /\ n > 0 /\ n <= MaxPayload
  BY FramingAssumption
<1>2. FramingTypes'
  BY <1>1, BeginsWith DEF WriterInv, FramingTypes, BeginLogin, readerVars, Steps
<1>3. Phases'
  BY DEF WriterInv, Phases, BeginLogin, readerVars, Usable
<1>4. BeingWritten'
  <2>1. /\ todo' = Bytes(0, n) /\ msg' = Bytes(0, n) /\ done' = done /\ Len(done) < MaxMsgs
        /\ pc' = "frames" /\ kind' = "login"
    BY DEF BeginLogin
  <2>2. Len(done) \in Nat
    BY DEF WriterInv, FramingTypes
  <2>3. /\ Len(todo') = n /\ Len(msg') = n /\ msg' = Prefix(Len(done) + 1, n)
        /\ \A j \in 1..n : todo'[j] = Data(Len(done) + 1, n - n + j)
    BY <1>1, <2>1, BeginsWith DEF WriterInv
  <2> QED  BY <1>1, <2>1, <2>3 DEF BeingWritten
<1> QED  BY <1>2, <1>3, <1>4 DEF WriterInv

\* The Attention is a packet of a header only.
LEMMA AttentionPacket ==
    ASSUME WriterInv, BeginAttention
    PROVE  /\ wbuf = <<>> /\ wbuf' \in Seq(Byte) /\ Len(wbuf') = HeaderBytes
           /\ \A i \in 1..HeaderBytes :
                 /\ IsHeader(wbuf'[i], Len(done) + 1, i, HeaderBytes, TRUE)
                 /\ wbuf'[i].type = "attn" /\ wbuf'[i].size = size
<1>1. wbuf = <<>> /\ done \in Seq(Seq(Byte)) /\ size \in Nat /\ "attn" \in Types
  BY Sizes_ DEF WriterInv, FramingTypes, Phases, BeginAttention, Usable, Types
<1>2. wbuf' = Encode(<<>>, "attn", TRUE, <<>>)
  BY <1>1 DEF BeginAttention
<1>3. <<>> \in Seq(Byte) /\ Len(<<>>) = 0
  OBVIOUS
<1>4. 0 + HeaderBytes < LengthMod /\ HeaderBytes + 0 = HeaderBytes
  BY Sizes_
<1>5. /\ wbuf' \in Seq(Byte) /\ Len(wbuf') = HeaderBytes + Len(<<>>)
      /\ \A i \in 1..HeaderBytes :
            wbuf'[i] = HeaderOf(Len(done) + 1, i, "attn", HeaderBytes + Len(<<>>), TRUE)
  BY <1>1, <1>2, <1>3, <1>4, EncodeFresh
<1>6. HeaderBytes + Len(<<>>) = HeaderBytes
  BY <1>3, <1>4
<1>7. ASSUME NEW i \in 1..HeaderBytes
      PROVE  /\ IsHeader(wbuf'[i], Len(done) + 1, i, HeaderBytes, TRUE)
             /\ wbuf'[i].type = "attn" /\ wbuf'[i].size = size
  <2>1. wbuf'[i] = HeaderOf(Len(done) + 1, i, "attn", HeaderBytes, TRUE)
    BY <1>5, <1>6
  <2> DEFINE eom == TRUE
             h == HeaderOf(Len(done) + 1, i, "attn", HeaderBytes, eom)
  <2> HIDE DEF eom
  <2>2. IsHeader(h, Len(done) + 1, i, HeaderBytes, eom) /\ h.type = "attn" /\ h.size = size
    BY HeaderByte
  <2> HIDE DEF h
  <2>3. wbuf'[i] = h
    BY <2>1 DEF h, eom
  <2>4. /\ IsHeader(wbuf'[i], Len(done) + 1, i, HeaderBytes, eom)
        /\ wbuf'[i].type = "attn" /\ wbuf'[i].size = size
    BY <2>2, <2>3
  <2> QED  BY <2>4 DEF eom
<1> QED  BY <1>1, <1>5, <1>6, <1>7

LEMMA BeginAttentionWriter ==
    ASSUME WriterInv, BeginAttention
    PROVE  WriterInv'
<1>1. FramingTypes'
  BY AttentionPacket DEF WriterInv, FramingTypes, BeginAttention, readerVars, Steps
<1>2. Phases'
  <2>1. wbuf' # <<>>
    BY AttentionPacket, Sizes_
  <2> QED  BY <2>1 DEF WriterInv, Phases, BeginAttention, readerVars, Usable
<1>3. BeingWritten'
  <2>1. Len(<<>>) = 0 /\ <<>> = Prefix(Len(done) + 1, 0) /\ <<>> \in Seq(Byte)
    BY DEF Prefix
  <2>2. /\ todo' = <<>> /\ msg' = <<>> /\ done' = done /\ Len(done) < MaxMsgs
        /\ pc' = "last" /\ kind' = "attn"
    BY DEF BeginAttention
  <2>3. MaxPayload >= 0
    BY FramingAssumption
  <2> QED  BY <2>1, <2>2, <2>3 DEF BeingWritten
<1> QED  BY <1>1, <1>2, <1>3 DEF WriterInv

LEMMA OpenBulkWriter ==
    ASSUME WriterInv, OpenBulk
    PROVE  WriterInv'
<1>1. FramingTypes'
  BY BeginsWith DEF WriterInv, FramingTypes, OpenBulk, readerVars, Steps
<1>2. Phases'
  BY DEF WriterInv, Phases, OpenBulk, readerVars, Usable
<1>3. BeingWritten'
  <2>1. /\ todo' = Bytes(0, 1) /\ msg' = Bytes(0, 1) /\ done' = done /\ Len(done) < MaxMsgs
        /\ pc' = "bulk" /\ kind' = "bulk"
    BY DEF OpenBulk
  <2> DEFINE n == 1
  <2>0. n = 1
    OBVIOUS
  <2> HIDE DEF n
  <2>2. /\ Len(todo') = n /\ Len(msg') = n /\ msg' = Prefix(Len(done) + 1, n)
        /\ \A j \in 1..n : todo'[j] = Data(Len(done) + 1, n - n + j)
    BY <2>0, <2>1, BeginsWith DEF WriterInv
  <2>3. MaxPayload > n /\ MaxPayload \in Nat /\ n \in Nat /\ n # 0
    BY <2>0, FramingAssumption
  <2> QED  BY <2>1, <2>2, <2>3 DEF BeingWritten
<1> QED  BY <1>1, <1>2, <1>3 DEF WriterInv

\* More of the message goes to the end of the buffer.
LEMMA ExtendedBuffer ==
    ASSUME FramingTypes, BeingWritten, pc # "idle", NEW n \in Nat
    PROVE  LET X == Extended(n)
               M == msg \o Bytes(Len(msg), n)
           IN  /\ X \in Seq(Byte) /\ Len(X) = Len(todo) + n
               /\ M \in Seq(Byte) /\ Len(M) = Len(msg) + n
               /\ M = Prefix(Len(done) + 1, Len(M))
               /\ \A j \in 1..Len(X) : X[j] = Data(Len(done) + 1, Len(M) - Len(X) + j)
               /\ Truncate(X, Len(todo)) = todo
<1> DEFINE d == Len(done) + 1
           B == Bytes(Len(msg), n)
           X == todo \o B
           M == msg \o B
<1>1. /\ done \in Seq(Seq(Byte)) /\ d \in Nat /\ msg \in Seq(Byte) /\ Len(msg) \in Nat
      /\ todo \in Seq(Byte) /\ Len(todo) \in Nat
  BY DEF FramingTypes
<1>2. /\ msg = Prefix(d, Len(msg)) /\ Len(todo) <= Len(msg)
      /\ \A j \in 1..Len(todo) : todo[j] = Data(d, Len(msg) - Len(todo) + j)
  BY DEF BeingWritten
<1>3. B \in Seq(Byte) /\ Len(B) = n /\ \A i \in 1..n : B[i] = Data(d, Len(msg) + i)
  BY <1>1, BytesOf
<1> HIDE DEF d, B
<1>4. /\ X \in Seq(Byte) /\ Len(X) = Len(todo) + n
      /\ \A i \in 1..Len(todo) : X[i] = todo[i]
      /\ \A i \in 1..n : X[Len(todo) + i] = B[i]
  BY <1>1, <1>3, Joined
<1>5. /\ M \in Seq(Byte) /\ Len(M) = Len(msg) + n
      /\ \A i \in 1..Len(msg) : M[i] = msg[i]
      /\ \A i \in 1..n : M[Len(msg) + i] = B[i]
  BY <1>1, <1>3, Joined
<1>6. \A i \in 1..Len(msg) : msg[i] = Data(d, i)
  BY <1>1, <1>2, PrefixOf
<1> HIDE DEF X, M
<1>7. \A i \in 1..Len(M) : M[i] = Data(d, i)
  <2>1. TAKE i \in 1..Len(M)
  <2>2. CASE i <= Len(msg)
    BY <1>1, <1>5, <1>6, <2>2
  <2>3. CASE i > Len(msg)
    <3>1. i - Len(msg) \in 1..n /\ Len(msg) + (i - Len(msg)) = i
      BY <1>1, <1>5, <2>3
    <3> QED  BY <1>3, <1>5, <3>1
  <2> QED  BY <1>1, <2>2, <2>3
<1>8. M = Prefix(d, Len(M))
  BY <1>1, <1>5, <1>7, IsPrefixOf
<1>9. \A j \in 1..Len(X) : X[j] = Data(d, Len(M) - Len(X) + j)
  <2>1. TAKE j \in 1..Len(X)
  <2>2. Len(M) - Len(X) = Len(msg) - Len(todo)
    BY <1>1, <1>4, <1>5
  <2>3. CASE j <= Len(todo)
    <3>1. j \in 1..Len(todo)
      BY <1>1, <1>4, <2>3
    <3>2. X[j] = Data(d, Len(msg) - Len(todo) + j)
      BY <1>2, <1>4, <3>1
    <3> QED  BY <2>2, <3>2
  <2>4. CASE j > Len(todo)
    <3>1. /\ j - Len(todo) \in 1..n /\ Len(todo) + (j - Len(todo)) = j
          /\ Len(msg) + (j - Len(todo)) = Len(msg) - Len(todo) + j
      BY <1>1, <1>4, <2>4
    <3>2. X[j] = Data(d, Len(msg) + (j - Len(todo)))
      BY <1>3, <1>4, <3>1
    <3> QED  BY <2>2, <3>1, <3>2
  <2> QED  BY <1>1, <2>3, <2>4
<1>10. Truncate(X, Len(todo)) = todo
  <2>1. SubSeq(X, 1, Len(todo)) \in Seq(Byte) /\ Len(SubSeq(X, 1, Len(todo))) = Len(todo)
    BY <1>1, <1>4
  <2>2. \A i \in 1..Len(todo) : SubSeq(X, 1, Len(todo))[i] = todo[i]
    BY <1>1, <1>4
  <2>3. SubSeq(X, 1, Len(todo)) = todo
    BY <1>1, <2>1, <2>2
  <2> QED  BY <2>3 DEF Truncate
<1>11. Extended(n) = X /\ msg \o Bytes(Len(msg), n) = M
  BY DEF Extended, X, M, B
<1> QED  BY <1>4, <1>5, <1>8, <1>9, <1>10, <1>11 DEF d

LEMMA BulkRowWriter ==
    ASSUME WriterInv, NEW n \in RowSizes, NEW ok \in BOOLEAN, BulkRow(n, ok)
    PROVE  WriterInv'
<1>1. n \in Nat /\ n > 0
  BY FramingAssumption
<1>2. pc = "bulk" /\ FramingTypes /\ Phases /\ BeingWritten /\ poisoned = FALSE
  BY DEF WriterInv, BulkRow, Usable, FramingTypes
<1>3. /\ Extended(n) \in Seq(Byte) /\ Len(Extended(n)) = Len(todo) + n
      /\ msg \o Bytes(Len(msg), n) \in Seq(Byte)
      /\ Len(msg \o Bytes(Len(msg), n)) = Len(msg) + n
      /\ msg \o Bytes(Len(msg), n) = Prefix(Len(done) + 1, Len(msg) + n)
      /\ \A j \in 1..Len(Extended(n)) :
            Extended(n)[j] = Data(Len(done) + 1, (Len(msg) + n) - Len(Extended(n)) + j)
      /\ Truncate(Extended(n), Len(todo)) = todo
  BY <1>1, <1>2, ExtendedBuffer
<1>4. /\ todo' = IF ok THEN Extended(n) ELSE todo
      /\ msg' = IF ok THEN msg \o Bytes(Len(msg), n) ELSE msg
  BY <1>3 DEF BulkRow
<1>5. /\ pc' = IF MustWrite(todo)' THEN "loop" ELSE "bulk"
      /\ poisoned' = MustWrite(todo)'
      /\ rows' = rows + 1 /\ Len(msg) + n < MaxPayload
      /\ UNCHANGED <<kind, ending, size, wbuf, frames, done, open, src, acc, reader, received>>
  BY DEF BulkRow, readerVars, MustWrite, Room
<1>6. FramingTypes'
  <2>1. todo' \in Seq(Byte) /\ msg' \in Seq(Byte)
    BY <1>2, <1>3, <1>4 DEF FramingTypes
  <2>2. poisoned' \in BOOLEAN
    BY <1>5 DEF MustWrite
  <2>3. pc' \in Steps
    BY <1>5 DEF Steps
  <2>4. rows' \in Nat
    BY <1>2, <1>5 DEF FramingTypes
  <2> QED  BY <1>2, <1>5, <2>1, <2>2, <2>3, <2>4 DEF FramingTypes
<1>7. Phases'
  <2>1. CASE MustWrite(todo)'
    BY <1>2, <1>5, <2>1 DEF Phases
  <2>2. CASE ~MustWrite(todo)'
    BY <1>2, <1>5, <2>2 DEF Phases
  <2> QED  BY <2>1, <2>2
<1>8. BeingWritten'
  <2>1. /\ Len(done) < MaxMsgs /\ kind = "bulk" /\ ~ending /\ msg = Prefix(Len(done) + 1, Len(msg))
        /\ Len(todo) <= Len(msg) /\ Len(msg) < MaxPayload /\ Len(todo) # 0
        /\ \A j \in 1..Len(todo) : todo[j] = Data(Len(done) + 1, Len(msg) - Len(todo) + j)
    BY <1>2 DEF BeingWritten, Phases
  <2>2. Len(todo) \in Nat /\ Len(msg) \in Nat /\ MaxPayload \in Nat
    BY <1>2, FramingAssumption DEF FramingTypes
  <2>3. pc' \in {"loop", "bulk"}
    BY <1>5
  <2>4. CASE ok
    <3>1. todo' = Extended(n) /\ msg' = msg \o Bytes(Len(msg), n)
      BY <1>4, <2>4
    <3>2. /\ Len(todo') = Len(todo) + n /\ Len(msg') = Len(msg) + n
          /\ msg' = Prefix(Len(done) + 1, Len(msg'))
          /\ \A j \in 1..Len(todo') : todo'[j] = Data(Len(done) + 1, Len(msg') - Len(todo') + j)
      BY <1>3, <3>1
    <3> QED  BY <1>1, <1>5, <2>1, <2>2, <2>3, <3>2 DEF BeingWritten
  <2>5. CASE ~ok
    <3>1. todo' = todo /\ msg' = msg
      BY <1>4, <2>5
    <3> QED  BY <1>5, <2>1, <2>2, <2>3, <3>1 DEF BeingWritten
  <2> QED  BY <2>4, <2>5
<1> QED  BY <1>6, <1>7, <1>8 DEF WriterInv

LEMMA FinalizeWriter ==
    ASSUME WriterInv, Finalize
    PROVE  WriterInv'
<1>1. pc = "bulk" /\ FramingTypes /\ Phases /\ BeingWritten /\ poisoned = FALSE
  BY DEF WriterInv, Finalize, Usable, FramingTypes
<1> DEFINE n == 1
<1>2. n \in Nat /\ n = 1
  OBVIOUS
<1> HIDE DEF n
<1>3. /\ todo' = Extended(n) /\ msg' = msg \o Bytes(Len(msg), n) /\ ending' = TRUE
      /\ poisoned' = TRUE /\ pc' = "loop"
      /\ UNCHANGED <<kind, rows, size, wbuf, frames, done, open, src, acc, reader, received>>
  BY <1>2 DEF Finalize, readerVars
<1>4. /\ todo' \in Seq(Byte) /\ Len(todo') = Len(todo) + n
      /\ msg' \in Seq(Byte) /\ Len(msg') = Len(msg) + n
      /\ msg' = Prefix(Len(done) + 1, Len(msg'))
      /\ \A j \in 1..Len(todo') : todo'[j] = Data(Len(done) + 1, Len(msg') - Len(todo') + j)
  BY <1>1, <1>2, <1>3, ExtendedBuffer
<1>5. FramingTypes'
  BY <1>1, <1>3, <1>4 DEF FramingTypes, Steps
<1>6. Phases'
  BY <1>1, <1>3 DEF Phases
<1>7. BeingWritten'
  <2>1. Len(done) < MaxMsgs /\ Len(todo) <= Len(msg) /\ Len(msg) < MaxPayload
    BY <1>1 DEF BeingWritten, Phases
  <2>2. Len(todo) \in Nat /\ Len(msg) \in Nat /\ MaxPayload \in Nat
    BY <1>1, FramingAssumption DEF FramingTypes
  <2> QED  BY <1>2, <1>3, <1>4, <2>1, <2>2 DEF BeingWritten
<1> QED  BY <1>5, <1>6, <1>7 DEF WriterInv

\* E is a packet with the n bytes of message m after the first o.
IsPacket(E, m, o, n, eom) ==
    /\ E \in Seq(Byte) /\ Len(E) = HeaderBytes + n
    /\ \A i \in 1..HeaderBytes :
          IsHeader(E[i], m, i, HeaderBytes + n, eom) /\ E[i].size = size
    /\ \A i \in 1..n : E[HeaderBytes + i] = Data(m, o + i)

\* write_to_wire and frame_sensitive_login make a packet of the next bytes.
LEMMA PacketMade ==
    ASSUME WriterInv, pc \in {"loop", "frames"},
           NEW n \in 0..Len(todo), NEW eom \in BOOLEAN, NextPacket(n, eom)
    PROVE  /\ IsPacket(Encode(<<>>, kind, eom, Take(todo, n)), Len(done) + 1, Len(msg) - Len(todo), n, eom)
           /\ n \in 1..Room /\ n <= Len(todo)
           /\ eom => n = Len(todo)
           /\ ~eom => n = Room /\ n < Len(todo)
<1>1. FramingTypes /\ BeingWritten /\ pc # "idle" /\ pc \notin {"last", "login"}
  BY DEF WriterInv
<1>2. /\ todo \in Seq(Byte) /\ done \in Seq(Seq(Byte)) /\ Len(todo) # 0
      /\ Len(todo) <= Len(msg) /\ Len(todo) \in Nat /\ Len(msg) \in Nat
      /\ \A j \in 1..Len(todo) : todo[j] = Data(Len(done) + 1, Len(msg) - Len(todo) + j)
  BY <1>1 DEF FramingTypes, BeingWritten
<1>3. todo # <<>>
  BY <1>2
<1>4. /\ n \in 1..Room /\ n <= Len(todo) /\ (eom => n = Len(todo))
      /\ (~eom => n = Room /\ n < Len(todo))
  BY <1>1, <1>3, PacketTakes
<1> DEFINE p == Take(todo, n)
           E == Encode(<<>>, kind, eom, p)
<1>5. p \in Seq(Byte) /\ Len(p) = n /\ \A i \in 1..n : p[i] = todo[i]
  BY <1>2, Cut
<1> HIDE DEF p
<1>6. n + HeaderBytes < LengthMod
  BY <1>1, <1>4, RoomSize, Sizes_
<1>10. size \in Nat /\ kind \in Types
  BY <1>1, RoomSize DEF FramingTypes, Types
<1>7. /\ E \in Seq(Byte) /\ Len(E) = HeaderBytes + n
      /\ \A i \in 1..HeaderBytes :
            E[i] = HeaderOf(Len(done) + 1, i, kind, HeaderBytes + n, eom)
      /\ \A i \in 1..n : E[HeaderBytes + i] = p[i]
  BY <1>2, <1>5, <1>6, <1>10, EncodeFresh
<1> HIDE DEF E
<1>8. \A i \in 1..n : E[HeaderBytes + i] = Data(Len(done) + 1, Len(msg) - Len(todo) + i)
  <2>1. \A i \in 1..n : i \in 1..Len(todo)
    BY <1>2, <1>4
  <2> QED  BY <1>2, <1>5, <1>7, <2>1
<1>9. IsPacket(E, Len(done) + 1, Len(msg) - Len(todo), n, eom)
  <2>1. \A i \in 1..HeaderBytes :
            IsHeader(E[i], Len(done) + 1, i, HeaderBytes + n, eom) /\ E[i].size = size
    BY <1>7, HeaderByte
  <2> QED  BY <1>7, <1>8, <2>1 DEF IsPacket
<1> QED  BY <1>4, <1>9 DEF E, p

\* What is left of the message after a packet.
LEMMA TodoLeft ==
    ASSUME WriterInv, pc \in {"loop", "frames"}, NEW n \in 1..Len(todo)
    PROVE  LET L == DropFirst(todo, n) IN
           /\ L \in Seq(Byte) /\ Len(L) = Len(todo) - n
           /\ \A j \in 1..Len(L) : L[j] = Data(Len(done) + 1, Len(msg) - Len(L) + j)
<1> DEFINE L == DropFirst(todo, n)
<1>1. /\ todo \in Seq(Byte) /\ Len(todo) \in Nat /\ Len(msg) \in Nat
      /\ \A j \in 1..Len(todo) : todo[j] = Data(Len(done) + 1, Len(msg) - Len(todo) + j)
  BY DEF WriterInv, FramingTypes, BeingWritten
<1>2. n \in 0..Len(todo)
  BY <1>1
<1>3. L \in Seq(Byte) /\ Len(L) = Len(todo) - n /\ \A i \in 1..Len(todo) - n : L[i] = todo[i + n]
  BY <1>1, <1>2, Cut
<1> HIDE DEF L
<1>4. ASSUME NEW j \in 1..Len(L)
      PROVE  L[j] = Data(Len(done) + 1, Len(msg) - Len(L) + j)
  <2>1. /\ j \in 1..Len(todo) - n /\ j + n \in 1..Len(todo)
        /\ Len(msg) - Len(todo) + (j + n) = Len(msg) - Len(L) + j
    BY <1>1, <1>2, <1>3
  <2>2. L[j] = Data(Len(done) + 1, Len(msg) - Len(todo) + (j + n))
    BY <1>1, <1>3, <2>1
  <2> QED  BY <2>1, <2>2
<1> QED  BY <1>3, <1>4 DEF L

LEMMA WritePacketWriter ==
    ASSUME WriterInv, NEW n \in 0..Len(todo), NEW eom \in BOOLEAN, WritePacket(n, eom)
    PROVE  /\ WriterInv'
           /\ IsPacket(wbuf', Len(done) + 1, Len(msg) - Len(todo), n, eom)
           /\ n \in 1..Room /\ (eom => n = Len(todo)) /\ (~eom => n = Room /\ n < Len(todo))
           /\ Len(todo') = Len(todo) - n
<1>1. pc = "loop" /\ FramingTypes /\ Phases /\ BeingWritten /\ wbuf = <<>> /\ NextPacket(n, eom)
  BY DEF WriterInv, WritePacket, Phases
<1>2. /\ wbuf' = Encode(<<>>, kind, eom, Take(todo, n)) /\ todo' = DropFirst(todo, n)
      /\ pc' = (IF eom THEN "last" ELSE "flush")
      /\ UNCHANGED <<kind, ending, rows, poisoned, size, frames, msg, done, open, src, acc, reader, received>>
  BY <1>1 DEF WritePacket, readerVars
<1>3. /\ IsPacket(wbuf', Len(done) + 1, Len(msg) - Len(todo), n, eom)
      /\ n \in 1..Room /\ n <= Len(todo) /\ (eom => n = Len(todo))
      /\ (~eom => n = Room /\ n < Len(todo))
  BY <1>1, <1>2, PacketMade
<1>4. n \in 1..Len(todo) /\ Len(todo) \in Nat /\ Len(msg) \in Nat
  BY <1>1, <1>3 DEF FramingTypes
<1>5. /\ todo' \in Seq(Byte) /\ Len(todo') = Len(todo) - n
      /\ \A j \in 1..Len(todo') : todo'[j] = Data(Len(done) + 1, Len(msg) - Len(todo') + j)
  BY <1>1, <1>2, <1>4, TodoLeft
<1>6. wbuf' \in Seq(Byte) /\ Len(wbuf') = HeaderBytes + n
  BY <1>3 DEF IsPacket
<1>7. FramingTypes'
  BY <1>1, <1>2, <1>5, <1>6 DEF FramingTypes, Steps
<1>8. Phases'
  <2>1. wbuf' # <<>>
    BY <1>4, <1>6, Sizes_
  <2> QED  BY <1>1, <1>2, <2>1 DEF Phases
<1>9. BeingWritten'
  <2>1. /\ Len(done) < MaxMsgs /\ msg = Prefix(Len(done) + 1, Len(msg)) /\ Len(msg) <= MaxPayload
        /\ (kind = "bulk" /\ ~ending => Len(msg) < MaxPayload) /\ Len(todo) <= Len(msg)
    BY <1>1 DEF BeingWritten
  <2>2. eom /\ kind = "bulk" => ending
    <3>1. ASSUME eom, kind = "bulk"  PROVE ending
      BY <1>1, <3>1 DEF NextPacket
    <3> QED  BY <3>1
  <2>3. /\ Len(todo') <= Len(msg)
        /\ eom => Len(todo') = 0 /\ pc' = "last"
        /\ ~eom => Len(todo') # 0 /\ pc' = "flush"
    BY <1>2, <1>3, <1>4, <1>5, <2>1
  <2> QED  BY <1>2, <1>5, <2>1, <2>2, <2>3 DEF BeingWritten
<1> QED  BY <1>3, <1>5, <1>7, <1>8, <1>9 DEF WriterInv

LEMMA FrameLoginWriter ==
    ASSUME WriterInv, NEW n \in 0..Len(todo), NEW eom \in BOOLEAN, FrameLogin(n, eom)
    PROVE  /\ WriterInv'
           /\ \E E : /\ frames' = frames \o E
                     /\ IsPacket(E, Len(done) + 1, Len(msg) - Len(todo), n, eom)
           /\ n \in 1..Room /\ (eom => n = Len(todo)) /\ (~eom => n = Room /\ n < Len(todo))
           /\ Len(todo') = Len(todo) - n
<1>1. /\ pc = "frames" /\ FramingTypes /\ Phases /\ BeingWritten /\ NextPacket(n, eom)
      /\ wbuf = <<>> /\ kind = "login"
  BY DEF WriterInv, FrameLogin, Phases
<1> DEFINE E == Encode(<<>>, kind, eom, Take(todo, n))
<1>2. /\ frames' = frames \o E /\ todo' = DropFirst(todo, n)
      /\ pc' = (IF eom THEN "login" ELSE "frames")
      /\ UNCHANGED <<kind, ending, rows, poisoned, size, wbuf, msg, done, open, src, acc, reader, received>>
  BY <1>1 DEF FrameLogin, readerVars
<1>3. /\ IsPacket(E, Len(done) + 1, Len(msg) - Len(todo), n, eom)
      /\ n \in 1..Room /\ n <= Len(todo) /\ (eom => n = Len(todo))
      /\ (~eom => n = Room /\ n < Len(todo))
  BY <1>1, PacketMade
<1> HIDE DEF E
<1>4. n \in 1..Len(todo) /\ Len(todo) \in Nat /\ Len(msg) \in Nat /\ frames \in Seq(Byte)
  BY <1>1, <1>3 DEF FramingTypes
<1>5. /\ todo' \in Seq(Byte) /\ Len(todo') = Len(todo) - n
      /\ \A j \in 1..Len(todo') : todo'[j] = Data(Len(done) + 1, Len(msg) - Len(todo') + j)
  BY <1>1, <1>2, <1>4, TodoLeft
<1>6. E \in Seq(Byte) /\ Len(E) = HeaderBytes + n
  BY <1>3 DEF IsPacket
<1>7. frames' \in Seq(Byte) /\ Len(frames') = Len(frames) + HeaderBytes + n /\ Len(frames) \in Nat
  <2>1. frames' \in Seq(Byte) /\ Len(frames') = Len(frames) + Len(E) /\ Len(frames) \in Nat
    <3>1. frames \o E \in Seq(Byte) /\ Len(frames \o E) = Len(frames) + Len(E)
      BY <1>4, <1>6, Joined, Zenon
    <3> QED  BY <1>2, <1>4, <3>1
  <2> QED  BY <1>4, <1>6, <2>1, Sizes_
<1>8. FramingTypes'
  BY <1>1, <1>2, <1>5, <1>7 DEF FramingTypes, Steps
<1>9. Phases'
  <2>1. frames' # <<>>
    BY <1>4, <1>7, Sizes_
  <2> QED  BY <1>1, <1>2, <2>1 DEF Phases
<1>10. BeingWritten'
  <2>1. /\ Len(done) < MaxMsgs /\ msg = Prefix(Len(done) + 1, Len(msg)) /\ Len(msg) <= MaxPayload
        /\ Len(todo) <= Len(msg)
    BY <1>1 DEF BeingWritten
  <2>2. /\ Len(todo') <= Len(msg)
        /\ eom => Len(todo') = 0 /\ pc' = "login"
        /\ ~eom => Len(todo') # 0 /\ pc' = "frames"
    BY <1>2, <1>3, <1>4, <1>5, <2>1
  <2> QED  BY <1>1, <1>2, <1>5, <2>1, <2>2 DEF BeingWritten
<1> QED  BY <1>2, <1>3, <1>5, <1>8, <1>9, <1>10 DEF WriterInv

\* The first n bytes of a buffer go to the peer.
LEMMA Moved ==
    ASSUME NEW s \in Seq(Byte), NEW b \in Seq(Byte), NEW n \in 1..Len(b)
    PROVE  /\ Join(s, Take(b, n)) \in Seq(Byte) /\ DropFirst(b, n) \in Seq(Byte)
           /\ Len(Join(s, Take(b, n))) = Len(s) + n /\ Len(DropFirst(b, n)) = Len(b) - n
           /\ Join(Join(s, Take(b, n)), DropFirst(b, n)) = Join(s, b)
           /\ n = Len(b) => DropFirst(b, n) = <<>> /\ Join(s, Take(b, n)) = Join(s, b)
           /\ n < Len(b) => DropFirst(b, n) # <<>>
<1> DEFINE t == Take(b, n)
           r == DropFirst(b, n)
<1>1. n \in 0..Len(b) /\ Len(b) \in Nat
  OBVIOUS
<1>2. /\ t \in Seq(Byte) /\ Len(t) = n /\ \A i \in 1..n : t[i] = b[i]
      /\ r \in Seq(Byte) /\ Len(r) = Len(b) - n /\ \A i \in 1..Len(b) - n : r[i] = b[i + n]
  BY <1>1, Cut
<1> HIDE DEF t, r
<1>3. s \o t \in Seq(Byte) /\ Len(s \o t) = Len(s) + n
  BY <1>2, Joined
<1>4. (s \o t) \o r = s \o b
  <2> DEFINE u == s \o t
             v == s \o b
  <2>1. /\ u \in Seq(Byte) /\ Len(u) = Len(s) + n
        /\ \A i \in 1..Len(s) : u[i] = s[i]
        /\ \A i \in 1..n : u[Len(s) + i] = t[i]
    BY <1>2, Joined
  <2>2. /\ v \in Seq(Byte) /\ Len(v) = Len(s) + Len(b)
        /\ \A i \in 1..Len(s) : v[i] = s[i]
        /\ \A i \in 1..Len(b) : v[Len(s) + i] = b[i]
    BY Joined
  <2> HIDE DEF u, v
  <2>3. /\ u \o r \in Seq(Byte) /\ Len(u \o r) = Len(u) + Len(r)
        /\ \A i \in 1..Len(u) : (u \o r)[i] = u[i]
        /\ \A i \in 1..Len(r) : (u \o r)[Len(u) + i] = r[i]
    BY <1>2, <2>1, Joined
  <2>4. Len(u \o r) = Len(v) /\ Len(s) \in Nat
    BY <1>1, <1>2, <2>1, <2>2, <2>3
  <2>5. ASSUME NEW i \in 1..Len(v)  PROVE (u \o r)[i] = v[i]
    <3>1. CASE i <= Len(s)
      BY <1>1, <2>1, <2>2, <2>3, <2>4, <3>1
    <3>2. CASE i > Len(s) /\ i <= Len(s) + n
      <4>1. i - Len(s) \in 1..n /\ Len(s) + (i - Len(s)) = i /\ i \in 1..Len(u)
        BY <1>1, <2>1, <2>4, <3>2
      <4>2. i - Len(s) \in 1..Len(b)
        BY <1>1, <4>1
      <4> QED  BY <1>2, <2>1, <2>2, <2>3, <4>1, <4>2
    <3>3. CASE i > Len(s) + n
      <4>1. i - Len(u) \in 1..Len(r) /\ Len(u) + (i - Len(u)) = i
        BY <1>1, <1>2, <2>1, <2>2, <2>4, <3>3
      <4>2. (i - Len(u)) + n = i - Len(s) /\ i - Len(s) \in 1..Len(b) /\ Len(s) + (i - Len(s)) = i
        BY <1>1, <1>2, <2>1, <2>2, <2>4, <3>3
      <4>3. r[i - Len(u)] = b[i - Len(s)]
        BY <1>2, <4>1, <4>2
      <4> QED  BY <2>2, <2>3, <4>1, <4>2, <4>3
    <3> QED  BY <1>1, <2>4, <3>1, <3>2, <3>3
  <2>6. u \o r = v
    BY <2>2, <2>3, <2>4, <2>5, SameBytes
  <2> QED  BY <2>6 DEF u, v
<1>5. n = Len(b) => r = <<>> /\ t = b
  BY <1>1, <1>2
<1>6. n < Len(b) => r # <<>>
  BY <1>1, <1>2
<1> QED  BY <1>2, <1>3, <1>4, <1>5, <1>6 DEF t, r, Join

LEMMA FlushWriter ==
    ASSUME WriterInv, NEW n \in 1..Len(wbuf), Flush(n)
    PROVE  WriterInv'
<1>1. pc \in {"flush", "last"} /\ FramingTypes /\ Phases /\ BeingWritten /\ poisoned = TRUE
  BY DEF WriterInv, Flush, FramingTypes, Phases
<1>2. src \in Seq(Byte) /\ wbuf \in Seq(Byte) /\ done \in Seq(Seq(Byte)) /\ msg \in Seq(Byte)
  BY <1>1 DEF FramingTypes
<1>3. /\ src' \in Seq(Byte) /\ wbuf' \in Seq(Byte)
      /\ n = Len(wbuf) => wbuf' = <<>>
      /\ n < Len(wbuf) => wbuf' # <<>>
  <2>1. src' = Join(src, Take(wbuf, n)) /\ wbuf' = DropFirst(wbuf, n)
    BY DEF Flush, Join
  <2>2. /\ Join(src, Take(wbuf, n)) \in Seq(Byte) /\ DropFirst(wbuf, n) \in Seq(Byte)
        /\ n = Len(wbuf) => DropFirst(wbuf, n) = <<>>
        /\ n < Len(wbuf) => DropFirst(wbuf, n) # <<>>
    BY <1>2, Moved
  <2> QED  BY <2>1, <2>2
<1>4. UNCHANGED <<kind, todo, ending, rows, size, frames, msg, open, acc, reader, received>>
  BY DEF Flush
<1>5. Append(done, msg) \in Seq(Seq(Byte))
  BY <1>2
<1>6. CASE n < Len(wbuf)
  <2>1. pc' = pc /\ poisoned' = poisoned /\ done' = done
    BY <1>6 DEF Flush
  <2>2. FramingTypes'
    BY <1>1, <1>3, <1>4, <2>1 DEF FramingTypes
  <2>3. Phases'
    BY <1>1, <1>3, <1>4, <1>6, <2>1 DEF Phases
  <2>4. BeingWritten'
    BY <1>1, <1>4, <2>1 DEF BeingWritten
  <2> QED  BY <2>2, <2>3, <2>4 DEF WriterInv
<1>7. CASE ~(n < Len(wbuf))
  <2>1. wbuf' = <<>> /\ frames = <<>>
    <3>1. n = Len(wbuf)
      BY <1>2, <1>7
    <3> QED  BY <1>1, <1>3, <3>1 DEF Phases
  <2>2. CASE pc = "last"
    <3>1. pc' = "idle" /\ poisoned' = FALSE /\ done' = Append(done, msg)
      BY <1>7, <2>2 DEF Flush
    <3>2. FramingTypes'
      BY <1>1, <1>3, <1>4, <1>5, <3>1 DEF FramingTypes, Steps
    <3>3. Phases' /\ BeingWritten'
      BY <1>4, <2>1, <3>1 DEF Phases, BeingWritten
    <3> QED  BY <3>2, <3>3 DEF WriterInv
  <2>3. CASE pc = "flush" /\ kind = "bulk" /\ ~ending /\ ~MustWrite(todo)
    <3>1. pc' = "bulk" /\ poisoned' = FALSE /\ done' = done
      BY <1>7, <2>3 DEF Flush
    <3>2. FramingTypes'
      BY <1>1, <1>3, <1>4, <3>1 DEF FramingTypes, Steps
    <3>3. Phases' /\ BeingWritten'
      BY <1>1, <1>4, <2>1, <2>3, <3>1 DEF Phases, BeingWritten
    <3> QED  BY <3>2, <3>3 DEF WriterInv
  <2>4. CASE pc = "flush" /\ ~(kind = "bulk" /\ ~ending /\ ~MustWrite(todo))
    <3>1. pc' = "loop" /\ poisoned' = poisoned /\ done' = done
      BY <1>7, <2>4 DEF Flush
    <3>2. FramingTypes'
      BY <1>1, <1>3, <1>4, <3>1 DEF FramingTypes, Steps
    <3>3. Phases' /\ BeingWritten'
      BY <1>1, <1>4, <2>1, <2>4, <3>1 DEF Phases, BeingWritten
    <3> QED  BY <3>2, <3>3 DEF WriterInv
  <2> QED  BY <1>1, <2>2, <2>3, <2>4
<1> QED  BY <1>6, <1>7

LEMMA WriteLoginWriter ==
    ASSUME WriterInv, NEW n \in 1..Len(frames), WriteLogin(n)
    PROVE  WriterInv'
<1>1. /\ pc = "login" /\ FramingTypes /\ Phases /\ BeingWritten /\ poisoned = TRUE
      /\ kind = "login" /\ wbuf = <<>>
  BY DEF WriterInv, WriteLogin, FramingTypes, Phases
<1>2. src \in Seq(Byte) /\ frames \in Seq(Byte) /\ done \in Seq(Seq(Byte)) /\ msg \in Seq(Byte)
  BY <1>1 DEF FramingTypes
<1>3. /\ src' \in Seq(Byte) /\ frames' \in Seq(Byte)
      /\ n = Len(frames) => frames' = <<>>
      /\ n < Len(frames) => frames' # <<>>
  <2>1. src' = Join(src, Take(frames, n)) /\ frames' = DropFirst(frames, n)
    BY DEF WriteLogin, Join
  <2>2. /\ Join(src, Take(frames, n)) \in Seq(Byte) /\ DropFirst(frames, n) \in Seq(Byte)
        /\ n = Len(frames) => DropFirst(frames, n) = <<>>
        /\ n < Len(frames) => DropFirst(frames, n) # <<>>
    BY <1>2, Moved
  <2> QED  BY <2>1, <2>2
<1>4. UNCHANGED <<kind, todo, ending, rows, size, wbuf, msg, open, acc, reader, received>>
  BY DEF WriteLogin
<1>5. Append(done, msg) \in Seq(Seq(Byte))
  BY <1>2
<1>6. CASE n < Len(frames)
  <2>1. pc' = pc /\ poisoned' = poisoned /\ done' = done
    BY <1>6 DEF WriteLogin
  <2>2. FramingTypes'
    BY <1>1, <1>3, <1>4, <2>1 DEF FramingTypes
  <2>3. Phases'
    BY <1>1, <1>3, <1>4, <1>6, <2>1 DEF Phases
  <2>4. BeingWritten'
    BY <1>1, <1>4, <2>1 DEF BeingWritten
  <2> QED  BY <2>2, <2>3, <2>4 DEF WriterInv
<1>7. CASE ~(n < Len(frames))
  <2>1. frames' = <<>>
    <3>1. n = Len(frames)
      BY <1>2, <1>7
    <3> QED  BY <1>3, <3>1
  <2>2. pc' = "idle" /\ poisoned' = FALSE /\ done' = Append(done, msg)
    BY <1>7 DEF WriteLogin
  <2>3. FramingTypes'
    BY <1>1, <1>3, <1>4, <1>5, <2>2 DEF FramingTypes, Steps
  <2>4. Phases' /\ BeingWritten'
    BY <1>1, <1>4, <2>1, <2>2 DEF Phases, BeingWritten
  <2> QED  BY <2>3, <2>4 DEF WriterInv
<1> QED  BY <1>6, <1>7

LEMMA DropWriter ==
    ASSUME WriterInv, Drop
    PROVE  WriterInv'
<1>1. /\ pc \in {"flush", "last", "login"} /\ FramingTypes /\ Phases /\ BeingWritten
      /\ poisoned = TRUE /\ pc # "idle"
  BY DEF WriterInv, Drop, FramingTypes, Phases
<1>2. /\ pc' = (IF kind = "bulk" /\ ~ending THEN "bulk" ELSE "idle") /\ frames' = <<>>
      /\ UNCHANGED <<kind, todo, ending, rows, poisoned, size, wbuf, msg, done, open,
                     src, acc, reader, received>>
  BY DEF Drop, readerVars
<1>3. FramingTypes'
  <2>1. <<>> \in Seq(Byte)
    OBVIOUS
  <2> QED  BY <1>1, <1>2, <2>1 DEF FramingTypes, Steps
<1>4. Phases'
  BY <1>1, <1>2 DEF Phases
<1>5. BeingWritten'
  <2>1. CASE kind = "bulk" /\ ~ending
    <3>1. pc = "flush"
      BY <1>1, <2>1 DEF Phases, BeingWritten
    <3> QED  BY <1>1, <1>2, <2>1, <3>1 DEF BeingWritten
  <2>2. CASE ~(kind = "bulk" /\ ~ending)
    BY <1>2, <2>2 DEF BeingWritten
  <2> QED  BY <2>1, <2>2
<1> QED  BY <1>3, <1>4, <1>5 DEF WriterInv

LEMMA AbandonWriter ==
    ASSUME WriterInv, Abandon
    PROVE  WriterInv'
<1>1. /\ pc = "bulk" /\ pc' = "idle" /\ FramingTypes /\ Phases
      /\ UNCHANGED <<kind, todo, ending, rows, poisoned, size, wbuf, frames, msg, done, open,
                     src, acc, reader, received>>
  BY DEF WriterInv, Abandon, readerVars
<1>2. FramingTypes'
  BY <1>1 DEF FramingTypes, Steps
<1>3. Phases' /\ BeingWritten'
  BY <1>1 DEF Phases, BeingWritten
<1> QED  BY <1>2, <1>3 DEF WriterInv

\* The peer and the reader do not touch what the writer has.
LEMMA OthersWriter ==
    ASSUME WriterInv, UNCHANGED writerVars, src' \in Seq(Byte), acc' \in Seq(Byte),
           received' \in Seq(Seq(Byte)), open' \in BOOLEAN,
           reader' \in {"reading", "eof", "error"}
    PROVE  WriterInv'
<1>1. UNCHANGED <<pc, kind, todo, ending, rows, poisoned, size, wbuf, frames, msg, done>>
  BY DEF writerVars
<1>2. FramingTypes'
  BY <1>1 DEF WriterInv, FramingTypes
<1>3. Phases' /\ BeingWritten'
  BY <1>1 DEF WriterInv, Phases, BeingWritten
<1> QED  BY <1>2, <1>3 DEF WriterInv

\* What DecodePacket takes off the read buffer.
LEMMA Decoded ==
    ASSUME FramingTypes, DecodePacket
    PROVE  LET len == src[1].len
               payload == SubSeq(src, HeaderBytes + 1, len)
           IN  /\ len \in Nat /\ HeaderBytes <= len /\ len <= Len(src) /\ len > 0
               /\ src[1] \in Byte /\ src[1].kind = "hdr" /\ 1 <= Len(src)
               /\ src' = DropFirst(src, len)
               /\ src' \in Seq(Byte) /\ Len(src') = Len(src) - len
               /\ \A i \in 1..Len(src') : src'[i] = src[i + len]
               /\ payload \in Seq(Byte) /\ Len(payload) = len - HeaderBytes
               /\ \A i \in 1..len - HeaderBytes : payload[i] = src[HeaderBytes + i]
               /\ IF src[1].eom
                  THEN received' = Append(received, Join(acc, payload)) /\ acc' = <<>>
                  ELSE acc' = Join(acc, payload) /\ received' = received
<1> DEFINE len == src[1].len
           payload == SubSeq(src, HeaderBytes + 1, len)
<1>1. src \in Seq(Byte) /\ Len(src) \in Nat
  BY DEF FramingTypes
<1>2. Len(src) >= HeaderBytes /\ Len(src) >= len /\ len >= HeaderBytes /\ src[1].kind = "hdr"
  BY DEF DecodePacket, HasPacket, GoodHeader
<1>3. 1 <= Len(src) /\ src[1] \in Byte /\ len \in Nat
  <2>1. 1 \in 1..Len(src)
    BY <1>1, <1>2, Sizes_
  <2> QED  BY <1>1, <2>1, ByteAt
<1>4. src' = DropFirst(src, len)
  BY DEF DecodePacket
<1>5. IF src[1].eom
      THEN received' = Append(received, Join(acc, payload)) /\ acc' = <<>>
      ELSE acc' = Join(acc, payload) /\ received' = received
  BY DEF DecodePacket, Join
<1>6. len \in 0..Len(src) /\ len > 0
  BY <1>1, <1>2, <1>3, Sizes_
<1> HIDE DEF len
<1>7. /\ DropFirst(src, len) \in Seq(Byte) /\ Len(DropFirst(src, len)) = Len(src) - len
      /\ \A i \in 1..Len(src) - len : DropFirst(src, len)[i] = src[i + len]
  BY <1>1, <1>6, Cut
<1>8. payload \in Seq(Byte) /\ Len(payload) = len - HeaderBytes
  BY <1>1, <1>2, <1>3, <1>6, Sizes_
<1>9. \A i \in 1..len - HeaderBytes : payload[i] = src[HeaderBytes + i]
  BY <1>1, <1>2, <1>3, <1>6, Sizes_
<1> QED  BY <1>2, <1>3, <1>4, <1>5, <1>6, <1>7, <1>8, <1>9 DEF len

LEMMA MalformedTypes ==
    ASSUME FramingTypes, NEW k \in {"bad", "hdr"}, NEW len \in Nat, Malformed(k, len)
    PROVE  \E P \in Seq(Byte) :
              /\ src' = Join(src, P) /\ Len(P) = HeaderBytes
              /\ \A i \in 1..HeaderBytes :
                    P[i] = Bad(k, i, len)
<1> DEFINE h(i) == Bad(k, i, len)
           P == [i \in 1..HeaderBytes |-> h(i)]
<1>1. \A i \in 1..HeaderBytes : h(i) \in Byte
  BY Sizes_, BadByte
<1>2. src' = Join(src, P)
  BY DEF Malformed, Join, Bad
<1>3. \A i \in 1..HeaderBytes : P[i] = h(i)
  OBVIOUS
<1>4. P = [i \in 1..HeaderBytes |-> P[i]]
  OBVIOUS
<1>5. P \in Seq(Byte) /\ Len(P) = HeaderBytes
  <2>1. \A i \in 1..HeaderBytes : P[i] \in Byte
    <3> HIDE DEF h, P
    <3> QED  BY <1>1, <1>3
  <2> HIDE DEF P
  <2> QED  BY <1>4, <2>1, SeqOfBytes, Sizes_
<1> HIDE DEF P
<1> QED  BY <1>2, <1>3, <1>5

LEMMA JoinTypes ==
    ASSUME NEW s \in Seq(Byte), NEW t \in Seq(Byte)
    PROVE  /\ Join(s, t) \in Seq(Byte) /\ Len(Join(s, t)) = Len(s) + Len(t)
           /\ \A i \in 1..Len(s) : Join(s, t)[i] = s[i]
           /\ \A i \in 1..Len(t) : Join(s, t)[Len(s) + i] = t[i]
BY Joined DEF Join

LEMMA ReaderTypes ==
    ASSUME FramingTypes, Reader \/ Network
    PROVE  /\ UNCHANGED writerVars /\ src' \in Seq(Byte) /\ acc' \in Seq(Byte)
           /\ received' \in Seq(Seq(Byte)) /\ open' \in BOOLEAN
           /\ reader' \in {"reading", "eof", "error"}
<1>1. /\ src \in Seq(Byte) /\ acc \in Seq(Byte) /\ received \in Seq(Seq(Byte))
      /\ open \in BOOLEAN /\ reader \in {"reading", "eof", "error"}
  BY DEF FramingTypes
<1>2. CASE DecodePacket
  <2> DEFINE payload == SubSeq(src, HeaderBytes + 1, src[1].len)
  <2>1. /\ src' \in Seq(Byte) /\ payload \in Seq(Byte)
        /\ IF src[1].eom
           THEN received' = Append(received, Join(acc, payload)) /\ acc' = <<>>
           ELSE acc' = Join(acc, payload) /\ received' = received
    BY <1>2, Decoded
  <2> HIDE DEF payload
  <2>2. Join(acc, payload) \in Seq(Byte) /\ <<>> \in Seq(Byte)
    BY <1>1, <2>1, JoinTypes
  <2>3. Append(received, Join(acc, payload)) \in Seq(Seq(Byte))
    BY <1>1, <2>2
  <2>4. UNCHANGED <<writerVars, open, reader>>
    BY <1>2 DEF DecodePacket
  <2> QED  BY <1>1, <2>1, <2>2, <2>3, <2>4
<1>3. CASE DecodeError
  <2>1. src # <<>>
    BY <1>1, <1>3, Sizes_ DEF DecodeError, HasPacket
  <2>2. Tail(src) \in Seq(Byte)
    BY <1>1, <2>1
  <2>3. src' \in {src, Tail(src)} /\ reader' = "error"
        /\ UNCHANGED <<writerVars, open, acc, received>>
    BY <1>3 DEF DecodeError
  <2> QED  BY <1>1, <2>2, <2>3
<1>4. CASE DecodeEof
  BY <1>1, <1>4 DEF DecodeEof
<1>5. CASE Break
  BY <1>1, <1>5 DEF Break, readerVars
<1>6. ASSUME NEW k \in {"bad", "hdr"}, NEW len \in Nat, Malformed(k, len)
      PROVE  /\ UNCHANGED writerVars /\ src' \in Seq(Byte) /\ acc' \in Seq(Byte)
             /\ received' \in Seq(Seq(Byte)) /\ open' \in BOOLEAN
             /\ reader' \in {"reading", "eof", "error"}
  <2>1. PICK P \in Seq(Byte) : src' = Join(src, P)
    BY <1>6, MalformedTypes
  <2>2. src' \in Seq(Byte)
    BY <1>1, <2>1, JoinTypes
  <2>3. open' = FALSE /\ UNCHANGED <<writerVars, acc, reader, received>>
    BY <1>6 DEF Malformed
  <2> QED  BY <1>1, <2>2, <2>3
<1>7. HeaderBytes \in Nat /\ HeaderBytes - 1 \in Nat
  BY Sizes_
<1> QED  BY <1>2, <1>3, <1>4, <1>5, <1>6, <1>7 DEF Reader, Network

LEMMA WriterStep == WriterInv /\ [Next]_vars => WriterInv'
<1>1. SUFFICES ASSUME WriterInv, [Next]_vars  PROVE WriterInv'
  OBVIOUS
<1>2. ASSUME NEW n \in Sizes, SetPacketSize(n)  PROVE WriterInv'
  BY <1>1, <1>2, SetPacketSizeWriter
<1>3. ASSUME NEW n \in SendSizes, BeginSend(n)  PROVE WriterInv'
  BY <1>1, <1>3, BeginSendWriter
<1>4. ASSUME NEW n \in LoginSizes, BeginLogin(n)  PROVE WriterInv'
  BY <1>1, <1>4, BeginLoginWriter
<1>5. CASE BeginAttention
  BY <1>1, <1>5, BeginAttentionWriter
<1>6. CASE OpenBulk
  BY <1>1, <1>6, OpenBulkWriter
<1>7. ASSUME NEW n \in RowSizes, NEW ok \in BOOLEAN, BulkRow(n, ok)  PROVE WriterInv'
  BY <1>1, <1>7, BulkRowWriter
<1>8. CASE Finalize
  BY <1>1, <1>8, FinalizeWriter
<1>9. ASSUME NEW n \in 0..Len(todo), NEW eom \in BOOLEAN, WritePacket(n, eom)  PROVE WriterInv'
  BY <1>1, <1>9, WritePacketWriter
<1>10. ASSUME NEW n \in 0..Len(todo), NEW eom \in BOOLEAN, FrameLogin(n, eom)  PROVE WriterInv'
  BY <1>1, <1>10, FrameLoginWriter
<1>11. ASSUME NEW n \in 1..Len(wbuf), Flush(n)  PROVE WriterInv'
  BY <1>1, <1>11, FlushWriter
<1>12. ASSUME NEW n \in 1..Len(frames), WriteLogin(n)  PROVE WriterInv'
  BY <1>1, <1>12, WriteLoginWriter
<1>13. CASE Drop
  BY <1>1, <1>13, DropWriter
<1>16. CASE Abandon
  BY <1>1, <1>16, AbandonWriter
<1>14. CASE Reader \/ Network
  <2>1. FramingTypes
    BY <1>1 DEF WriterInv
  <2> QED  BY <1>1, <1>14, <2>1, ReaderTypes, OthersWriter
<1>15. CASE UNCHANGED vars
  <2>1. /\ UNCHANGED writerVars
        /\ UNCHANGED <<open, src, acc, reader, received>>
    BY <1>15 DEF vars, readerVars
  <2>2. FramingTypes
    BY <1>1 DEF WriterInv
  <2> QED  BY <1>1, <2>1, <2>2, OthersWriter DEF FramingTypes
<1> QED  BY <1>1, <1>2, <1>3, <1>4, <1>5, <1>6, <1>7, <1>8, <1>9, <1>10, <1>11, <1>12, <1>13,
            <1>14, <1>15, <1>16 DEF Next, Writer

\* Packet::encode always finds the write buffer of Framed empty, so that the
\* length it writes at a fixed place is that of the packet it appends: for
\* every packet size and wherever a future was dropped before.
THEOREM EncodesIntoFresh == Spec => []BufferIsFresh
<1>1. WriterInv => BufferIsFresh
  BY DEF WriterInv, Phases, BufferIsFresh
<1> QED  BY <1>1, WriterInit, WriterStep, PTL DEF Spec

-----------------------------------------------------------------------------
(* The sizes of packets                                                     *)

\* A byte of a packet that is allowed.
Allowed(b) ==
    b.kind = "hdr" /\ b.i = 1 /\ b.m > 0 =>
        /\ b.len <= b.size
        /\ ~b.eom => b.len = b.size
        /\ b.len = HeaderBytes => b.type = "attn"

AllAllowed(S) == \A i \in 1..Len(S) : Allowed(S[i])

\* Every byte is one of an allowed packet.
SizeInv == AllAllowed(wbuf) /\ AllAllowed(frames) /\ AllAllowed(src)

LEMMA AllowedPart ==
    ASSUME NEW S \in Seq(Byte), NEW T \in Seq(Byte), AllAllowed(S),
           \A i \in 1..Len(T) : \E j \in 1..Len(S) : T[i] = S[j]
    PROVE  AllAllowed(T)
BY DEF AllAllowed

LEMMA AllowedJoin ==
    ASSUME NEW S \in Seq(Byte), NEW T \in Seq(Byte), AllAllowed(S), AllAllowed(T)
    PROVE  AllAllowed(Join(S, T))
<1>1. SUFFICES ASSUME NEW i \in 1..Len(Join(S, T))  PROVE Allowed(Join(S, T)[i])
  BY DEF AllAllowed
<1> DEFINE J == Join(S, T)
<1>0. /\ J \in Seq(Byte) /\ Len(J) = Len(S) + Len(T)
      /\ \A j \in 1..Len(S) : J[j] = S[j]
      /\ \A j \in 1..Len(T) : J[Len(S) + j] = T[j]
  BY JoinTypes
<1> HIDE DEF J
<1>2. i \in 1..Len(S) + Len(T) /\ Len(S) \in Nat /\ Len(T) \in Nat
  BY <1>0 DEF J
<1>3. CASE i <= Len(S)
  <2>1. i \in 1..Len(S)
    BY <1>2, <1>3
  <2>2. J[i] = S[i]
    BY <1>0, <2>1
  <2> QED  BY <2>1, <2>2 DEF AllAllowed, J
<1>4. CASE i > Len(S)
  <2>1. i - Len(S) \in 1..Len(T) /\ Len(S) + (i - Len(S)) = i
    BY <1>2, <1>4
  <2>2. J[Len(S) + (i - Len(S))] = T[i - Len(S)]
    BY <1>0, <2>1
  <2> QED  BY <2>1, <2>2 DEF AllAllowed, J
<1> QED  BY <1>2, <1>3, <1>4

LEMMA AllowedCut ==
    ASSUME NEW S \in Seq(Byte), NEW n \in 0..Len(S), AllAllowed(S)
    PROVE  AllAllowed(Take(S, n)) /\ AllAllowed(DropFirst(S, n))
<1>1. \A i \in 1..Len(Take(S, n)) : i \in 1..Len(S) /\ Take(S, n)[i] = S[i]
  BY Cut
<1>2. \A i \in 1..Len(DropFirst(S, n)) : i + n \in 1..Len(S) /\ DropFirst(S, n)[i] = S[i + n]
  BY Cut
<1> QED  BY <1>1, <1>2 DEF AllAllowed

\* A packet with payload is full, or it ends the message.
LEMMA AllowedPacket ==
    ASSUME FramingTypes, NEW E, NEW m \in Nat, NEW o, NEW n \in 1..Room, NEW eom \in BOOLEAN,
           IsPacket(E, m, o, n, eom), ~eom => n = Room
    PROVE  AllAllowed(E)
<1>1. SUFFICES ASSUME NEW i \in 1..Len(E)  PROVE Allowed(E[i])
  BY DEF AllAllowed
<1>2. Len(E) = HeaderBytes + n /\ n \in Nat
  BY RoomSize DEF IsPacket
<1>3. CASE i <= HeaderBytes
  <2>1. IsHeader(E[i], m, i, HeaderBytes + n, eom) /\ E[i].size = size
    <3>1. i \in 1..HeaderBytes
      BY <1>2, <1>3, Sizes_
    <3> QED  BY <3>1 DEF IsPacket
  <2>2. HeaderBytes + n <= size /\ HeaderBytes + n # HeaderBytes
    BY <1>2, RoomSize, Sizes_
  <2>3. ~eom => HeaderBytes + n = size
    BY <1>2, RoomSize, Sizes_
  <2> QED  BY <2>1, <2>2, <2>3 DEF Allowed, IsHeader
<1>4. CASE i > HeaderBytes
  <2>1. i - HeaderBytes \in 1..n /\ HeaderBytes + (i - HeaderBytes) = i
    BY <1>2, <1>4, Sizes_
  <2>2. E[i] = Data(m, o + (i - HeaderBytes))
    BY <2>1 DEF IsPacket
  <2> QED  BY <2>2 DEF Allowed, Data
<1> QED  BY <1>2, <1>3, <1>4, Sizes_

LEMMA EmptyAllowed == AllAllowed(<<>>)
BY DEF AllAllowed

LEMMA SizeInit == Init => SizeInv
<1>1. ASSUME Init  PROVE SizeInv
  <2>1. wbuf = <<>> /\ frames = <<>> /\ src = <<>>
    BY <1>1 DEF Init
  <2> QED  BY <2>1, EmptyAllowed DEF SizeInv
<1> QED  BY <1>1

LEMMA SizeStep ==
    ASSUME WriterInv, SizeInv, [Next]_vars
    PROVE  SizeInv'
<1>0. FramingTypes /\ wbuf \in Seq(Byte) /\ frames \in Seq(Byte) /\ src \in Seq(Byte)
  BY DEF WriterInv, FramingTypes
<1>1. AllAllowed(wbuf) /\ AllAllowed(frames) /\ AllAllowed(src)
  BY DEF SizeInv
<1>2. ASSUME UNCHANGED <<wbuf, frames, src>>  PROVE SizeInv'
  BY <1>1, <1>2 DEF SizeInv
<1>3. ASSUME \/ \E n \in Sizes : SetPacketSize(n)
             \/ \E n \in SendSizes : BeginSend(n)
             \/ \E n \in LoginSizes : BeginLogin(n)
             \/ OpenBulk
             \/ \E n \in RowSizes, ok \in BOOLEAN : BulkRow(n, ok)
             \/ Finalize \/ Abandon \/ DecodeEof \/ Break \/ UNCHANGED vars
      PROVE  SizeInv'
  BY <1>2, <1>3 DEF SetPacketSize, BeginSend, BeginLogin, OpenBulk, BulkRow, Finalize, Abandon,
                    DecodeEof, Break, vars, writerVars, readerVars
<1>4. CASE BeginAttention
  <2>1. /\ Len(wbuf') = HeaderBytes
        /\ \A i \in 1..HeaderBytes :
              /\ IsHeader(wbuf'[i], Len(done) + 1, i, HeaderBytes, TRUE)
              /\ wbuf'[i].type = "attn" /\ wbuf'[i].size = size
    BY <1>4, AttentionPacket
  <2>2. HeaderBytes <= size
    BY <1>0, RoomSize, Sizes_
  <2>3. AllAllowed(wbuf')
    BY <2>1, <2>2 DEF AllAllowed, Allowed, IsHeader
  <2>4. UNCHANGED <<frames, src>>
    BY <1>4 DEF BeginAttention, readerVars
  <2> QED  BY <1>1, <2>3, <2>4 DEF SizeInv
<1>5. ASSUME NEW n \in 0..Len(todo), NEW eom \in BOOLEAN, WritePacket(n, eom)  PROVE SizeInv'
  <2>1. /\ IsPacket(wbuf', Len(done) + 1, Len(msg) - Len(todo), n, eom)
        /\ n \in 1..Room /\ (~eom => n = Room)
    BY <1>5, WritePacketWriter
  <2>2. UNCHANGED <<frames, src>> /\ Len(done) + 1 \in Nat
    BY <1>0, <1>5 DEF WritePacket, readerVars, FramingTypes
  <2>3. AllAllowed(wbuf')
    BY <1>0, <2>1, <2>2, AllowedPacket
  <2> QED  BY <1>1, <2>2, <2>3 DEF SizeInv
<1>6. ASSUME NEW n \in 0..Len(todo), NEW eom \in BOOLEAN, FrameLogin(n, eom)  PROVE SizeInv'
  <2>1. /\ \E E : /\ frames' = frames \o E
                  /\ IsPacket(E, Len(done) + 1, Len(msg) - Len(todo), n, eom)
        /\ n \in 1..Room /\ (~eom => n = Room)
    BY <1>6, FrameLoginWriter
  <2>2. PICK E : /\ frames' = frames \o E
                 /\ IsPacket(E, Len(done) + 1, Len(msg) - Len(todo), n, eom)
    BY <2>1
  <2>3. UNCHANGED <<wbuf, src>> /\ Len(done) + 1 \in Nat
    BY <1>0, <1>6 DEF FrameLogin, readerVars, FramingTypes
  <2>4. AllAllowed(E) /\ E \in Seq(Byte)
    BY <1>0, <2>1, <2>2, <2>3, AllowedPacket DEF IsPacket
  <2>5. AllAllowed(Join(frames, E)) /\ frames' = Join(frames, E)
    BY <1>0, <1>1, <2>2, <2>4, AllowedJoin DEF Join
  <2> QED  BY <1>1, <2>3, <2>5 DEF SizeInv
<1>7. ASSUME NEW b \in Seq(Byte), NEW n \in 1..Len(b), AllAllowed(b), src' = Join(src, Take(b, n))
      PROVE  AllAllowed(src') /\ AllAllowed(DropFirst(b, n))
  <2>1. n \in 0..Len(b)
    OBVIOUS
  <2>2. AllAllowed(Take(b, n)) /\ AllAllowed(DropFirst(b, n)) /\ Take(b, n) \in Seq(Byte)
    BY <1>7, <2>1, AllowedCut, Cut
  <2> QED  BY <1>0, <1>1, <1>7, <2>2, AllowedJoin
<1>8. ASSUME NEW n \in 1..Len(wbuf), Flush(n)  PROVE SizeInv'
  <2>1. src' = Join(src, Take(wbuf, n)) /\ wbuf' = DropFirst(wbuf, n) /\ frames' = frames
    BY <1>8 DEF Flush, Join
  <2>2. AllAllowed(src') /\ AllAllowed(wbuf')
    BY <1>0, <1>1, <1>7, <2>1
  <2> QED  BY <1>1, <2>1, <2>2 DEF SizeInv
<1>9. ASSUME NEW n \in 1..Len(frames), WriteLogin(n)  PROVE SizeInv'
  <2>1. src' = Join(src, Take(frames, n)) /\ frames' = DropFirst(frames, n) /\ wbuf' = wbuf
    BY <1>9 DEF WriteLogin, Join
  <2>2. AllAllowed(src') /\ AllAllowed(frames')
    BY <1>0, <1>1, <1>7, <2>1
  <2> QED  BY <1>1, <2>1, <2>2 DEF SizeInv
<1>10. CASE Drop
  BY <1>1, <1>10, EmptyAllowed DEF Drop, readerVars, SizeInv
<1>11. ASSUME UNCHANGED writerVars, src' \in Seq(Byte),
              \A i \in 1..Len(src') : \E j \in 1..Len(src) : src'[i] = src[j]
       PROVE  SizeInv'
  BY <1>0, <1>1, <1>11, AllowedPart DEF writerVars, SizeInv
<1>12. CASE DecodePacket
  <2> DEFINE len == src[1].len
  <2>1. /\ len \in Nat /\ Len(src') = Len(src) - len /\ src' \in Seq(Byte)
        /\ \A i \in 1..Len(src') : src'[i] = src[i + len]
    BY <1>0, <1>12, Decoded
  <2> HIDE DEF len
  <2>2. \A i \in 1..Len(src') : i + len \in 1..Len(src)
    BY <1>0, <2>1
  <2>3. UNCHANGED writerVars
    BY <1>12 DEF DecodePacket
  <2> QED  BY <1>11, <2>1, <2>2, <2>3
<1>13. CASE DecodeError
  <2>1. UNCHANGED writerVars /\ src' \in {src, Tail(src)} /\ src # <<>>
    BY <1>0, <1>13, Sizes_ DEF DecodeError, HasPacket
  <2>2. CASE src' = src
    BY <1>0, <1>11, <2>1, <2>2
  <2>3. CASE src' = Tail(src)
    <3>1. src' \in Seq(Byte) /\ \A i \in 1..Len(src') : i + 1 \in 1..Len(src) /\ src'[i] = src[i + 1]
      BY <1>0, <2>1, <2>3
    <3> QED  BY <1>11, <2>1, <3>1
  <2> QED  BY <2>1, <2>2, <2>3
<1>14. ASSUME NEW k \in {"bad", "hdr"}, NEW len \in Nat, Malformed(k, len)  PROVE SizeInv'
  <2>1. PICK P \in Seq(Byte) :
              /\ src' = Join(src, P) /\ Len(P) = HeaderBytes
              /\ \A i \in 1..HeaderBytes : P[i] = Bad(k, i, len)
    BY <1>0, <1>14, MalformedTypes
  <2>2. \A i \in 1..HeaderBytes : P[i].m = 0
    <3>1. TAKE i \in 1..HeaderBytes
    <3>2. i \in Nat /\ P[i] = Bad(k, i, len)
      BY <2>1, Sizes_
    <3> QED  BY <3>2, BadByte
  <2>3. AllAllowed(P)
    BY <2>1, <2>2 DEF AllAllowed, Allowed
  <2>4. AllAllowed(src')
    BY <1>0, <1>1, <2>1, <2>3, AllowedJoin
  <2>5. UNCHANGED <<wbuf, frames>>
    BY <1>14 DEF Malformed, writerVars
  <2> QED  BY <1>1, <2>4, <2>5 DEF SizeInv
<1>15. HeaderBytes \in Nat /\ HeaderBytes - 1 \in Nat
  BY Sizes_
<1> QED  BY <1>3, <1>4, <1>5, <1>6, <1>8, <1>9, <1>10, <1>12, <1>13, <1>14, <1>15
         DEF Next, Writer, Reader, Network

\* For every packet size the server may ask for and whatever was dropped or
\* abandoned before: no packet is longer than the size in force when it was made,
\* none but the last of a message is shorter, none but an Attention empty.
THEOREM PacketSizes == Spec => []PacketsFit
<1>1. WriterInv /\ SizeInv => PacketsFit
  <2>1. SUFFICES ASSUME WriterInv, SizeInv,
                        NEW b \in Range(wbuf \o frames \o src), b.kind = "hdr", b.i = 1, b.m > 0
                 PROVE  /\ b.len <= b.size
                        /\ ~b.eom => b.len = b.size
                        /\ b.len = HeaderBytes => b.type = "attn"
    BY DEF PacketsFit
  <2>2. wbuf \in Seq(Byte) /\ frames \in Seq(Byte) /\ src \in Seq(Byte)
    BY <2>1 DEF WriterInv, FramingTypes
  <2>3. wbuf \o frames \o src = Join(Join(wbuf, frames), src)
    BY DEF Join
  <2>4. AllAllowed(Join(wbuf, frames)) /\ Join(wbuf, frames) \in Seq(Byte)
    BY <2>1, <2>2, AllowedJoin, JoinTypes DEF SizeInv
  <2> DEFINE J == Join(Join(wbuf, frames), src)
  <2>5. AllAllowed(J) /\ J \in Seq(Byte)
    BY <2>1, <2>2, <2>4, AllowedJoin, JoinTypes DEF SizeInv
  <2> HIDE DEF J
  <2>6. PICK i \in 1..Len(J) : b = J[i]
    <3>1. DOMAIN J = 1..Len(J)
      BY <2>5
    <3> QED  BY <2>1, <2>3, <3>1 DEF Range, J
  <2> QED  BY <2>1, <2>5, <2>6 DEF AllAllowed, Allowed
<1>2. Init => WriterInv /\ SizeInv
  BY WriterInit, SizeInit
<1>3. WriterInv /\ SizeInv /\ [Next]_vars => WriterInv' /\ SizeInv'
  BY WriterStep, SizeStep
<1> QED  BY <1>1, <1>2, <1>3, PTL DEF Spec

-----------------------------------------------------------------------------
(* Messages                                                                 *)

LEMMA WithNext ==
    ASSUME NEW d \in Seq(Seq(Byte)), NEW x \in Seq(Byte), NEW a, a = Append(d, x)
    PROVE  /\ a \in Seq(Seq(Byte)) /\ Len(a) = Len(d) + 1 /\ Len(d) \in Nat
           /\ \A m \in 1..Len(d) : a[m] = d[m]
           /\ a[Len(d) + 1] = x
OBVIOUS

LEMMA AllMsgsIs ==
    ASSUME FramingTypes
    PROVE  /\ AllMsgs \in Seq(Seq(Byte)) /\ Len(AllMsgs) = Len(done) + 1 /\ Len(done) \in Nat
           /\ \A m \in 1..Len(done) : AllMsgs[m] = done[m]
           /\ AllMsgs[Len(done) + 1] = msg
BY WithNext DEF FramingTypes, AllMsgs

LEMMA NextMsgsIs ==
    ASSUME FramingTypes'
    PROVE  /\ AllMsgs' \in Seq(Seq(Byte)) /\ Len(AllMsgs') = Len(done') + 1 /\ Len(done') \in Nat
           /\ \A m \in 1..Len(done') : AllMsgs'[m] = done'[m]
           /\ AllMsgs'[Len(done') + 1] = msg'
<1>1. done' \in Seq(Seq(Byte)) /\ msg' \in Seq(Byte) /\ AllMsgs' = Append(done', msg')
  BY DEF FramingTypes, AllMsgs
<1> HIDE DEF AllMsgs
<1> QED  BY <1>1, WithNext

-----------------------------------------------------------------------------
(* Streams                                                                  *)

\* The messages may change where no packet ends one.
LEMMA EndsChange ==
    ASSUME NEW S \in Seq(Byte), NEW ms, NEW mt, Ends(S, ms),
           \A k \in 1..Len(S) : Start(S[k]) /\ S[k].m # 0 /\ S[k].eom => mt[S[k].m] = ms[S[k].m]
    PROVE  Ends(S, mt)
BY DEF Ends

\* No message after the first n ends in S: it does not matter which it will be.
LEMMA StreamChange ==
    ASSUME NEW S \in Seq(Byte), NEW ms, NEW mt, NEW n \in Nat, NEW l, NEW c, NEW r, NEW a, NEW may,
           Stream(S, ms, n, l, FALSE, r, a), \A m \in 1..n : mt[m] = ms[m]
    PROVE  Stream(S, mt, n, c, may, r, a)
<1>1. /\ Shaped(S) /\ Ends(S, ms) /\ Follows(S, 1, r + 1, a)
      /\ Unfinished(S, n, l, FALSE)
  BY DEF Stream
<1>2. ASSUME NEW k \in 1..Len(S), Start(S[k])
      PROVE  S[k].m <= n + 1 /\ (S[k].eom => S[k].m <= n)
  <2>1. S[k].m \in Nat
    BY ByteAt
  <2> QED  BY <1>1, <1>2, <2>1 DEF Unfinished
<1>3. Ends(S, mt)
  <2>1. ASSUME NEW k \in 1..Len(S), Start(S[k]), S[k].m # 0, S[k].eom
        PROVE  mt[S[k].m] = ms[S[k].m]
    <3>1. S[k].m \in 1..n
      BY <1>2, <2>1, ByteAt
    <3> QED  BY <3>1
  <2> QED  BY <1>1, <2>1, EndsChange
<1>4. Unfinished(S, n, c, may)
  <2>1. SUFFICES ASSUME NEW k \in 1..Len(S), Start(S[k])
                 PROVE  S[k].m <= n + 1 /\ ~(S[k].eom /\ S[k].m > n)
    BY DEF Unfinished
  <2>2. S[k].m \in Nat
    BY ByteAt
  <2> QED  BY <1>2, <2>1, <2>2
<1> QED  BY <1>1, <1>3, <1>4 DEF Stream

\* A packet more.
LEMMA StreamAppend ==
    ASSUME NEW S \in Seq(Byte), NEW m \in Nat \ {0}, NEW o \in Nat, NEW n \in Nat, NEW eom \in BOOLEAN,
           NEW E, IsPacket(E, m, o, n, eom), n = 0 => o = 0 /\ eom,
           NEW ms, NEW l, NEW r, NEW a,
           Stream(S, ms, m - 1, l, FALSE, r, a), Ready(S, m, o, r, a),
           l \in 0..Len(S), eom => o + n = Len(ms[m])
    PROVE  /\ Stream(Join(S, E), ms, m - 1, l, eom, r, a)
           /\ Ready(Join(S, E), IF eom THEN m + 1 ELSE m, IF eom THEN 0 ELSE o + n, r, a)
<1> DEFINE T == Join(S, E)
           k0 == Len(S) + 1
<1>1. /\ E \in Seq(Byte) /\ Len(E) = HeaderBytes + n
      /\ \A i \in 1..HeaderBytes :
            IsHeader(E[i], m, i, HeaderBytes + n, eom)
      /\ \A i \in 1..n : E[HeaderBytes + i] = Data(m, o + i)
  BY DEF IsPacket
<1>0. Len(S) \in Nat
  OBVIOUS
<1>2. /\ T \in Seq(Byte) /\ Len(T) = Len(S) + Len(E)
      /\ \A i \in 1..Len(S) : T[i] = S[i]
      /\ \A i \in 1..Len(E) : T[Len(S) + i] = E[i]
  BY <1>1, JoinTypes
<1> HIDE DEF T
<1>3. Len(S) < Len(T) /\ Len(T) = Len(S) + HeaderBytes + n
  BY <1>1, <1>0, <1>2, Sizes_
<1>4. IsHeader(T[k0], m, 1, HeaderBytes + n, eom)
  <2>1. 1 \in 1..HeaderBytes /\ 1 \in 1..Len(E)
    BY <1>1, Sizes_
  <2> QED  BY <1>1, <1>0, <1>2, <2>1
<1>5. T[k0].m = m /\ T[k0].len = HeaderBytes + n /\ T[k0].eom = eom /\ Start(T[k0])
  BY <1>4 DEF Start, IsHeader
<1>6. \A i \in 1..n : T[Len(S) + HeaderBytes + i] = Data(m, o + i)
  <2>1. TAKE i \in 1..n
  <2>2. HeaderBytes + i \in 1..Len(E) /\ Len(S) + (HeaderBytes + i) = Len(S) + HeaderBytes + i
    BY <1>1, <1>0, <1>2, Sizes_
  <2> QED  BY <1>1, <1>0, <1>2, <2>2
<1>7. n > 0 => T[k0 + HeaderBytes] = Data(m, o + 1) /\ T[k0 + HeaderBytes].i = o + 1
  <2>1. ASSUME n > 0  PROVE T[k0 + HeaderBytes] = Data(m, o + 1)
    <3>1. 1 \in 1..n /\ Len(S) + HeaderBytes + 1 = k0 + HeaderBytes
      BY <1>0, <1>2, <2>1, Sizes_
    <3> QED  BY <1>6, <3>1
  <2>2. m \in Nat /\ o + 1 \in Nat
    OBVIOUS
  <2> QED  BY <2>1, <2>2, DataByte
<1>8. \A k \in Len(S) + 2..Len(T) : ~Start(T[k])
  <2>1. TAKE k \in Len(S) + 2..Len(T)
  <2>2. CASE k <= Len(S) + HeaderBytes
    <3> DEFINE i == k - Len(S)
    <3>0. k \in Int /\ k >= Len(S) + 2
      BY <1>0
    <3>1. i \in 1..HeaderBytes /\ Len(S) + i = k /\ i # 1 /\ i \in Nat
      BY <1>0, <2>2, <3>0, Sizes_
    <3> HIDE DEF i
    <3>4. i \in 1..Len(E)
      BY <1>1, <3>1, Sizes_
    <3>2. T[k] = E[i]
      BY <1>0, <1>2, <3>1, <3>4
    <3>5. E[i].i = i
      BY <1>1, <3>1 DEF IsHeader
    <3>3. T[k].i # 1
      BY <3>1, <3>2, <3>5
    <3> QED  BY <3>3 DEF Start
  <2>3. CASE k > Len(S) + HeaderBytes
    <3> DEFINE i == k - Len(S) - HeaderBytes
    <3>1. i \in 1..n /\ Len(S) + HeaderBytes + i = k /\ o + i \in Nat
      BY <1>0, <1>2, <1>3, <2>1, <2>3, Sizes_
    <3> HIDE DEF i
    <3>2. T[k] = Data(m, o + i)
      BY <1>6, <3>1
    <3> QED  BY <3>1, <3>2, DataByte
  <2> QED  BY <1>0, <1>2, <1>3, <2>1, <2>2, <2>3, Sizes_
<1>9. /\ Shaped(S) /\ Ends(S, ms) /\ Unfinished(S, m - 1, l, FALSE) /\ Follows(S, 1, r + 1, a)
      /\ Whole(S, m, o) /\ (S = <<>> => r + 1 = m /\ a = o)
  BY DEF Stream, Ready
<1>21. T[k0].len = HeaderBytes + n
  BY <1>5
<1>10. k0 + T[k0].len = Len(T) + 1 /\ Len(S) + T[k0].len = Len(T)
  <2> DEFINE z == Len(S)
             t == Len(T)
             w == T[k0].len
  <2>1. z \in Nat /\ t = z + HeaderBytes + n /\ w = HeaderBytes + n
    BY <1>0, <1>3, <1>21
  <2> HIDE DEF z, t, w
  <2>2. (z + 1) + w = t + 1 /\ z + w = t
    BY <2>1, Sizes_
  <2> QED  BY <2>2 DEF z, t, w
<1>11. Follows(T, k0, m, o)
  <2>1. T[k0].len = HeaderBytes => o = 0
    BY <1>5, Sizes_
  <2>2. T[k0].len > HeaderBytes => T[k0 + HeaderBytes].i = o + 1
    BY <1>5, <1>7, Sizes_
  <2> QED  BY <1>5, <2>1, <2>2 DEF Follows
<1>12. PacketAt(T, k0)
  <2>1. T[k0].m # 0 /\ T[k0].len >= HeaderBytes
    BY <1>5, Sizes_
  <2>2. T[k0].len = HeaderBytes => T[k0].eom
    BY <1>5, Sizes_
  <2>3. ASSUME NEW j \in k0 + HeaderBytes..k0 + T[k0].len - 1
        PROVE  T[j] = Data(T[k0].m, T[k0 + HeaderBytes].i + (j - k0 - HeaderBytes))
    <3> DEFINE i == j - Len(S) - HeaderBytes
    <3>1. i \in 1..n /\ Len(S) + HeaderBytes + i = j /\ n > 0
          /\ (o + 1) + (j - k0 - HeaderBytes) = o + i
      <4>1. j \in (Len(S) + 1) + HeaderBytes..(Len(S) + 1) + (HeaderBytes + n) - 1
        BY <1>21
      <4> DEFINE z == Len(S)
      <4>2. z \in Nat /\ j \in (z + 1) + HeaderBytes..(z + 1) + (HeaderBytes + n) - 1
        BY <1>0, <4>1
      <4> HIDE DEF z
      <4>3. j \in Int /\ j >= z + 1 + HeaderBytes /\ j <= z + HeaderBytes + n
        BY <4>2, Sizes_
      <4>4. j - z - HeaderBytes \in 1..n /\ n > 0
        BY <4>2, <4>3, Sizes_
      <4>5. /\ z + HeaderBytes + (j - z - HeaderBytes) = j
            /\ (o + 1) + (j - (z + 1) - HeaderBytes) = o + (j - z - HeaderBytes)
        BY <4>2, <4>3, Sizes_
      <4> QED  BY <4>4, <4>5 DEF z
    <3>2. T[j] = Data(m, o + i)
      BY <1>6, <3>1
    <3> QED  BY <1>5, <1>7, <3>1, <3>2
  <2>4. Follows(T, k0 + T[k0].len, NextMsg(T, k0), NextOff(T, k0))
    <3>1. ~(k0 + T[k0].len <= Len(T))
      BY <1>2, <1>10
    <3> QED  BY <3>1 DEF Follows
  <2> QED  BY <2>1, <2>2, <2>3, <2>4 DEF PacketAt
<1>13. Shaped(T)
  BY <1>2, <1>3, <1>8, <1>9, <1>11, <1>12, AppendShaped
<1>14. Ends(T, ms)
  <2>1. ASSUME T[k0].eom
        PROVE  IF T[k0].len > HeaderBytes
               THEN T[k0 + HeaderBytes].i - 1 + T[k0].len - HeaderBytes = Len(ms[T[k0].m])
               ELSE Len(ms[T[k0].m]) = 0
    <3>1. o + n = Len(ms[m])
      BY <1>5, <2>1
    <3>2. CASE n > 0
      <4>1. T[k0].len > HeaderBytes /\ (o + 1) - 1 + (HeaderBytes + n) - HeaderBytes = o + n
        BY <1>5, <3>2, Sizes_
      <4> QED  BY <1>5, <1>7, <3>1, <3>2, <4>1
    <3>3. CASE n = 0
      BY <1>5, <3>1, <3>3, Sizes_
    <3> QED  BY <3>2, <3>3
  <2> QED  BY <1>2, <1>3, <1>8, <1>9, <2>1, AppendEnds
<1>15. Unfinished(T, m - 1, l, eom)
  <2>1. SUFFICES ASSUME NEW k \in 1..Len(T), Start(T[k])
                 PROVE  /\ T[k].m <= (m - 1) + 1
                        /\ T[k].eom /\ T[k].m > m - 1 => eom /\ k + T[k].len - 1 > l
    BY DEF Unfinished
  <2>2. CASE k \in 1..Len(S)
    BY <1>2, <1>9, <2>1, <2>2 DEF Unfinished
  <2>3. CASE k = k0
    <3>1. k0 + T[k0].len - 1 > l
      <4>1. l <= Len(S) /\ l \in Int
        BY <1>0
      <4>2. k0 + (HeaderBytes + n) - 1 > l
        BY <1>0, <4>1, Sizes_
      <4> QED  BY <1>21, <4>2
    <3>2. m <= (m - 1) + 1
      OBVIOUS
    <3> QED  BY <1>5, <2>3, <3>1, <3>2
  <2>4. k \in 1..Len(S) \/ k = k0 \/ k \in Len(S) + 2..Len(T)
    BY <1>0, <1>2
  <2> QED  BY <1>8, <2>1, <2>2, <2>3, <2>4
<1>16. Follows(T, 1, r + 1, a)
  <2>1. CASE S = <<>>
    BY <1>9, <1>11, <2>1
  <2>2. CASE S # <<>>
    <3>1. 1 \in 1..Len(S)
      BY <1>0, <2>2
    <3> QED  BY <1>2, <1>3, <1>9, <3>1, FollowsAppend
  <2> QED  BY <2>1, <2>2
<1>17. Whole(T, NextMsg(T, k0), NextOff(T, k0))
  BY <1>2, <1>3, <1>5, <1>8, <1>9, <1>10, AppendWhole
<1>18. NextMsg(T, k0) = IF eom THEN m + 1 ELSE m
  BY <1>5 DEF NextMsg
<1>19. NextOff(T, k0) = IF eom THEN 0 ELSE o + n
  <2>1. CASE eom
    BY <1>5, <2>1 DEF NextOff
  <2>2. CASE ~eom
    <3>1. n > 0 /\ (o + 1) - 1 + (HeaderBytes + n) - HeaderBytes = o + n
      BY <2>2, Sizes_
    <3> QED  BY <1>5, <1>7, <2>2, <3>1 DEF NextOff
  <2> QED  BY <2>1, <2>2
<1>20. T # <<>>
  BY <1>0, <1>2, <1>3
<1> QED  BY <1>13, <1>14, <1>15, <1>16, <1>17, <1>18, <1>19, <1>20 DEF Stream, Ready, T

\* The end is lost.
LEMMA StreamCut ==
    ASSUME NEW S \in Seq(Byte), NEW T \in Seq(Byte), Len(T) <= Len(S), \A i \in 1..Len(T) : T[i] = S[i],
           NEW ms, NEW n, NEW l, NEW may, NEW r, NEW a, Stream(S, ms, n, l, may, r, a)
    PROVE  Stream(T, ms, n, l, may, r, a)
BY PrefixShaped, PrefixEnds, PrefixUnfinished, PrefixFollows DEF Stream

\* A malformed header more.
LEMMA StreamMalformed ==
    ASSUME NEW S \in Seq(Byte), NEW P \in Seq(Byte), Len(P) = HeaderBytes,
           NEW k \in {"bad", "hdr"}, NEW len \in Nat, k = "hdr" => len < HeaderBytes,
           \A i \in 1..HeaderBytes :
              P[i] = Bad(k, i, len),
           NEW ms, NEW n \in Nat, NEW l, NEW c, NEW r, NEW a, NEW m, NEW o,
           Stream(S, ms, n, l, FALSE, r, a), Ready(S, m, o, r, a)
    PROVE  Stream(Join(S, P), ms, n, c, FALSE, r, a)
<1> DEFINE T == Join(S, P)
           k0 == Len(S) + 1
<1>0. Len(S) \in Nat
  OBVIOUS
<1>2. /\ T \in Seq(Byte) /\ Len(T) = Len(S) + HeaderBytes
      /\ \A i \in 1..Len(S) : T[i] = S[i]
      /\ \A i \in 1..HeaderBytes : T[Len(S) + i] = P[i]
  BY JoinTypes
<1> HIDE DEF T
<1>3. Len(S) < Len(T)
  BY <1>0, <1>2, Sizes_
<1>4. T[k0] = Bad(k, 1, len)
  <2>1. 1 \in 1..HeaderBytes
    BY Sizes_
  <2> QED  BY <1>2, <2>1
<1>5. T[k0].m = 0 /\ T[k0].kind = k /\ T[k0].len = len /\ Start(T[k0])
  BY <1>4, BadByte DEF Start
<1>6. \A j \in Len(S) + 2..Len(T) : ~Start(T[j])
  <2>1. TAKE j \in Len(S) + 2..Len(T)
  <2> DEFINE i == j - Len(S)
  <2>2. i \in 1..HeaderBytes /\ Len(S) + i = j /\ i # 1
    BY <1>0, <1>2, <2>1, Sizes_
  <2> HIDE DEF i
  <2>3. T[j] = Bad(k, i, len)
    BY <1>2, <2>2
  <2>4. T[j].i = i
    BY <2>2, <2>3, BadByte
  <2> QED  BY <2>2, <2>4 DEF Start
<1>7. /\ Shaped(S) /\ Ends(S, ms) /\ Unfinished(S, n, l, FALSE) /\ Follows(S, 1, r + 1, a)
      /\ Whole(S, m, o)
  BY DEF Stream, Ready
<1>8. Follows(T, k0, m, o) /\ Follows(T, k0, r + 1, a)
  BY <1>5 DEF Follows
<1>9. PacketAt(T, k0)
  BY <1>5 DEF PacketAt
<1>10. Shaped(T)
  BY <1>2, <1>3, <1>6, <1>7, <1>8, <1>9, AppendShaped
<1>11. Ends(T, ms)
  BY <1>2, <1>3, <1>5, <1>6, <1>7, AppendEnds
<1>12. Unfinished(T, n, c, FALSE)
  <2>1. SUFFICES ASSUME NEW j \in 1..Len(T), Start(T[j])
                 PROVE  T[j].m <= n + 1 /\ ~(T[j].eom /\ T[j].m > n)
    BY DEF Unfinished
  <2>2. CASE j \in 1..Len(S)
    BY <1>2, <1>7, <2>1, <2>2 DEF Unfinished
  <2>3. CASE j = k0
    <3>1. 0 <= n + 1 /\ ~(0 > n)
      OBVIOUS
    <3> QED  BY <1>5, <2>3, <3>1
  <2>4. j \in 1..Len(S) \/ j = k0 \/ j \in Len(S) + 2..Len(T)
    BY <1>0, <1>2
  <2> QED  BY <1>6, <2>1, <2>2, <2>3, <2>4
<1>13. Follows(T, 1, r + 1, a)
  <2>1. CASE S = <<>>
    BY <1>8, <2>1
  <2>2. CASE S # <<>>
    <3>1. 1 \in 1..Len(S)
      BY <1>0, <2>2
    <3> QED  BY <1>2, <1>3, <1>7, <3>1, FollowsAppend
  <2> QED  BY <2>1, <2>2
<1> QED  BY <1>10, <1>11, <1>12, <1>13 DEF Stream, T

\* More has arrived, and not the end.
LEMMA StreamArrives ==
    ASSUME NEW S \in Seq(Byte), NEW ms, NEW n \in Nat, NEW l, NEW may, NEW r, NEW a,
           NEW m, NEW o, NEW c \in Nat, c < Len(S),
           Stream(S, ms, n, l, may, r, a), Ready(S, m, o, r, a)
    PROVE  Stream(S, ms, n, c, may, r, a)
<1>1. Shaped(S) /\ Whole(S, m, o) /\ Unfinished(S, n, l, may)
  BY DEF Stream, Ready
<1>2. ASSUME NEW k \in 1..Len(S), Start(S[k]), S[k].eom, S[k].m > n
      PROVE  k + S[k].len - 1 > c
  <2>1. S[k].m \in Nat /\ S[k].len \in Nat /\ S[k].m = n + 1 /\ S[k].m # 0
    <3>1. S[k].m \in Nat /\ S[k].len \in Nat
      BY ByteAt
    <3>2. S[k].m <= n + 1
      BY <1>1, <1>2 DEF Unfinished
    <3> QED  BY <1>2, <3>1, <3>2
  <2>2. k + S[k].len - 1 <= Len(S)
    BY <1>1, <1>2 DEF Whole
  <2>3. CASE k + S[k].len - 1 = Len(S)
    BY <2>3
  <2>4. CASE k + S[k].len - 1 < Len(S)
    <3> DEFINE p == k + S[k].len
    <3>1. p \in 1..Len(S)
      BY <2>1, <2>4
    <3>2. Follows(S, p, NextMsg(S, k), NextOff(S, k))
      BY <1>1, <1>2, <2>1 DEF Shaped, PacketAt
    <3>3. NextMsg(S, k) = n + 2
      BY <1>2, <2>1 DEF NextMsg
    <3> HIDE DEF p
    <3>4. Start(S[p]) /\ (S[p].m # 0 => S[p].m = n + 2)
      BY <3>1, <3>2, <3>3 DEF Follows
    <3>5. S[p].m # 0 /\ S[p].m <= n + 1
      BY <1>1, <3>1, <3>4 DEF Whole, Unfinished
    <3> QED  BY <3>4, <3>5
  <2> QED  BY <2>1, <2>2, <2>3, <2>4
<1>3. Unfinished(S, n, c, may)
  BY <1>1, <1>2 DEF Unfinished
<1> QED  BY <1>3 DEF Stream

\* All of it has arrived, and the message is at its end.
LEMMA StreamDone ==
    ASSUME NEW S \in Seq(Byte), NEW ms, NEW mt, NEW n \in Nat, NEW l, NEW may, NEW r, NEW a, NEW c,
           Stream(S, ms, n, l, may, r, a), \A m \in 1..n + 1 : mt[m] = ms[m]
    PROVE  Stream(S, mt, n + 1, c, FALSE, r, a)
<1>1. Ends(S, ms) /\ Unfinished(S, n, l, may)
  BY DEF Stream
<1>2. \A k \in 1..Len(S) : Start(S[k]) => S[k].m \in Nat /\ S[k].m <= n + 1
  BY <1>1, ByteAt DEF Unfinished
<1>3. Unfinished(S, n + 1, c, FALSE)
  <2>1. SUFFICES ASSUME NEW k \in 1..Len(S), Start(S[k])
                 PROVE  S[k].m <= (n + 1) + 1 /\ ~(S[k].eom /\ S[k].m > n + 1)
    BY DEF Unfinished
  <2>2. S[k].m \in Nat /\ S[k].m <= n + 1
    BY <1>2, <2>1
  <2> QED  BY <2>2
<1>4. Ends(S, mt)
  <2>1. ASSUME NEW k \in 1..Len(S), Start(S[k]), S[k].m # 0
        PROVE  mt[S[k].m] = ms[S[k].m]
    <3>1. S[k].m \in 1..n + 1
      BY <1>2, <2>1
    <3> QED  BY <3>1
  <2> QED  BY <1>1, <2>1, EndsChange
<1> QED  BY <1>3, <1>4 DEF Stream


\* T is S without the packet of len bytes at its front, whose payload is the next
\* of message r + 1.
TakenOff(S, T, len, ms, n, l, may, r, a) ==
    /\ \A i \in 1..len - HeaderBytes : S[HeaderBytes + i] = Data(r + 1, a + i)
    /\ S[1].eom => /\ r + 1 \in 1..n /\ a + (len - HeaderBytes) = Len(ms[r + 1])
                   /\ Stream(T, ms, n, l - len, may, r + 1, 0)
    /\ ~S[1].eom => Stream(T, ms, n, l - len, may, r, a + (len - HeaderBytes))
    /\ \A m, o : Ready(S, m, o, r, a) =>
          Ready(T, m, o, IF S[1].eom THEN r + 1 ELSE r,
                         IF S[1].eom THEN 0 ELSE a + (len - HeaderBytes))

\* The reader takes the packet at the front, which has arrived: its payload is
\* the next of the message it is at, and a packet that ends the message ends it
\* where the message ends.
LEMMA StreamDecode ==
    ASSUME NEW S \in Seq(Byte), NEW T \in Seq(Byte), NEW l \in 0..Len(S), NEW len, len = S[1].len,
           1 <= Len(S), S[1].kind = "hdr", HeaderBytes <= len, len <= l,
           Len(T) = Len(S) - len, \A i \in 1..Len(T) : T[i] = S[i + len],
           NEW ms, NEW n \in Nat, NEW may, NEW r \in Nat, NEW a \in Nat,
           Stream(S, ms, n, l, may, r, a)
    PROVE  TakenOff(S, T, len, ms, n, l, may, r, a)
<1>0. 1 \in 1..Len(S) /\ len \in Nat /\ len > 0 /\ Len(S) \in Nat /\ len <= Len(S)
  <2>1. 1 \in 1..Len(S) /\ Len(S) \in Nat
    OBVIOUS
  <2>2. len \in Nat
    BY <2>1, ByteAt
  <2> QED  BY <2>1, <2>2, Sizes_
<1>1. /\ Shaped(S) /\ Ends(S, ms) /\ Unfinished(S, n, l, may) /\ Follows(S, 1, r + 1, a)
  BY DEF Stream
<1>2. Start(S[1]) /\ PacketAt(S, 1)
  BY <1>0, <1>1 DEF Shaped, Follows
<1>3. S[1].m # 0
  <2>1. ~(len < HeaderBytes)
    BY <1>0, Sizes_
  <2> QED  BY <1>2, <2>1 DEF PacketAt
<1>4. /\ len = HeaderBytes => S[1].eom
      /\ \A j \in 1 + HeaderBytes..1 + len - 1 :
            j <= Len(S) => S[j] = Data(S[1].m, S[1 + HeaderBytes].i + (j - 1 - HeaderBytes))
      /\ Follows(S, 1 + len, NextMsg(S, 1), NextOff(S, 1))
  BY <1>2, <1>3 DEF PacketAt
<1>5. /\ S[1].m = r + 1
      /\ len = HeaderBytes => a = 0
      /\ len > HeaderBytes => S[1 + HeaderBytes].i = a + 1
  <2>1. len > HeaderBytes => 1 + HeaderBytes <= Len(S)
    BY <1>0, Sizes_
  <2> QED  BY <1>0, <1>1, <1>3, <2>1 DEF Follows
<1>6. \A i \in 1..len - HeaderBytes : S[HeaderBytes + i] = Data(r + 1, a + i)
  <2>1. TAKE i \in 1..len - HeaderBytes
  <2> DEFINE j == HeaderBytes + i
  <2>2. /\ j \in 1 + HeaderBytes..1 + len - 1 /\ j <= Len(S) /\ len > HeaderBytes
        /\ (a + 1) + (j - 1 - HeaderBytes) = a + i
    <3> DEFINE z == Len(S)
    <3>1. z \in Nat /\ len \in Nat /\ len <= z /\ a \in Nat /\ i \in 1..len - HeaderBytes
      BY <1>0, <2>1
    <3> HIDE DEF z
    <3>2. /\ j \in 1 + HeaderBytes..1 + len - 1 /\ j <= z /\ len > HeaderBytes
          /\ (a + 1) + (j - 1 - HeaderBytes) = a + i
      BY <3>1, Sizes_
    <3> QED  BY <3>2 DEF z
  <2> HIDE DEF j
  <2>3. S[j] = Data(S[1].m, S[1 + HeaderBytes].i + (j - 1 - HeaderBytes))
    BY <1>4, <2>2
  <2>4. S[j] = Data(r + 1, a + i)
    BY <1>5, <2>2, <2>3
  <2> QED  BY <2>4 DEF j
<1>7. S[1].eom => r + 1 \in 1..n /\ a + (len - HeaderBytes) = Len(ms[r + 1])
  <2>1. ASSUME S[1].eom  PROVE r + 1 \in 1..n /\ a + (len - HeaderBytes) = Len(ms[r + 1])
    <3>1. S[1].m > n => 1 + len - 1 > l
      BY <1>0, <1>1, <1>2, <2>1 DEF Unfinished
    <3>2. r + 1 \in 1..n
      BY <1>0, <1>5, <3>1
    <3>3. CASE len = HeaderBytes
      <4>1. Len(ms[S[1].m]) = 0
        BY <1>0, <1>1, <1>2, <1>3, <2>1, <3>3 DEF Ends
      <4> QED  BY <1>5, <3>2, <3>3, <4>1, Sizes_
    <3>4. CASE len > HeaderBytes
      <4>1. 1 + HeaderBytes <= Len(S)
        BY <1>0, <3>4, Sizes_
      <4>2. S[1 + HeaderBytes].i - 1 + len - HeaderBytes = Len(ms[S[1].m])
        BY <1>0, <1>1, <1>2, <1>3, <2>1, <3>4, <4>1 DEF Ends
      <4>3. (a + 1) - 1 + len - HeaderBytes = a + (len - HeaderBytes)
        BY <1>0, Sizes_
      <4> QED  BY <1>5, <3>2, <3>4, <4>2, <4>3
    <3> QED  BY <1>0, <3>3, <3>4, Sizes_
  <2> QED  BY <2>1
<1>8. NextMsg(S, 1) = IF S[1].eom THEN (r + 1) + 1 ELSE r + 1
  BY <1>5 DEF NextMsg
<1>9. NextOff(S, 1) = IF S[1].eom THEN 0 ELSE a + (len - HeaderBytes)
  <2>1. CASE S[1].eom
    BY <2>1 DEF NextOff
  <2>2. CASE ~S[1].eom
    <3>1. len > HeaderBytes
      BY <1>0, <1>4, <2>2, Sizes_
    <3>2. (a + 1) - 1 + len - HeaderBytes = a + (len - HeaderBytes)
      BY <1>0, Sizes_
    <3> QED  BY <1>5, <2>2, <3>1, <3>2 DEF NextOff
  <2> QED  BY <2>1, <2>2
<1>10. Shaped(T) /\ Ends(T, ms) /\ Unfinished(T, n, l - len, may)
  <2>1. l \in Nat
    OBVIOUS
  <2> QED  BY <1>0, <1>1, <2>1, SuffixShaped, SuffixEnds, SuffixUnfinished
<1>11. Follows(T, 1, NextMsg(S, 1), NextOff(S, 1))
  <2>1. 1 + len = len + 1
    BY <1>0
  <2> QED  BY <1>0, <1>4, <2>1, SuffixFollows
<1>12. ASSUME NEW m, NEW o, Ready(S, m, o, r, a)
       PROVE  Ready(T, m, o, IF S[1].eom THEN r + 1 ELSE r,
                             IF S[1].eom THEN 0 ELSE a + (len - HeaderBytes))
  <2>1. Whole(S, m, o)
    BY <1>12 DEF Ready
  <2>2. Whole(T, m, o)
    BY <1>0, <1>1, <2>1, SuffixWhole
  <2>3. ASSUME T = <<>>  PROVE NextMsg(S, 1) = m /\ NextOff(S, 1) = o
    <3>1. 1 + len - 1 = Len(S)
      BY <1>0, <2>3
    <3> QED  BY <1>0, <1>2, <2>1, <3>1 DEF Whole
  <2> QED  BY <1>8, <1>9, <2>2, <2>3 DEF Ready
<1> QED  BY <1>6, <1>7, <1>8, <1>9, <1>10, <1>11, <1>12 DEF Stream, TakenOff


-----------------------------------------------------------------------------
(* The reader                                                               *)

LEMMA EmptyJoin ==
    ASSUME NEW s \in Seq(Byte)
    PROVE  Join(s, <<>>) = s
BY DEF Join

LEMMA JoinAssociative ==
    ASSUME NEW s \in Seq(Byte), NEW t \in Seq(Byte), NEW u \in Seq(Byte)
    PROVE  Join(s, Join(t, u)) = Join(Join(s, t), u)
<1> DEFINE x == s \o (t \o u)
           y == (s \o t) \o u
<1>1. x \in Seq(Byte) /\ y \in Seq(Byte) /\ Len(x) = Len(y)
  OBVIOUS
<1>2. \A i \in 1..Len(y) : x[i] = y[i]
  OBVIOUS
<1> QED  BY <1>1, <1>2, SameBytes DEF Join

LEMMA PipeIs ==
    ASSUME FramingTypes
    PROVE  /\ Pipe \in Seq(Byte) /\ Len(Pipe) \in Nat /\ Len(src) \in Nat /\ Len(src) <= Len(Pipe)
           /\ \A i \in 1..Len(src) : Pipe[i] = src[i]
<1>1. src \in Seq(Byte) /\ Rest \in Seq(Byte)
  BY DEF FramingTypes, Rest
<1>2. /\ Join(src, Rest) \in Seq(Byte) /\ Len(Join(src, Rest)) = Len(src) + Len(Rest)
      /\ \A i \in 1..Len(src) : Join(src, Rest)[i] = src[i]
  BY <1>1, JoinTypes
<1>3. CASE Pipe = src
  BY <1>1, <1>3
<1>4. CASE Pipe = Join(src, Rest)
  BY <1>1, <1>2, <1>4
<1> QED  BY <1>3, <1>4 DEF Pipe

LEMMA ReaderInit == Init => ReaderInv /\ WrittenMsgs
<1>1. SUFFICES ASSUME Init  PROVE ReaderInv /\ WrittenMsgs
  OBVIOUS
<1>2. /\ src = <<>> /\ wbuf = <<>> /\ frames = <<>> /\ acc = <<>> /\ received = <<>> /\ done = <<>>
      /\ pc = "idle"
  BY <1>1 DEF Init
<1>3. Pipe = <<>>
  <2>1. Rest = <<>> /\ <<>> \in Seq(Byte)
    BY <1>2 DEF Rest
  <2> QED  BY <1>2, <2>1, EmptyJoin DEF Pipe
<1>4. Stream(Pipe, AllMsgs, Len(done), Len(src), MayEnd, Len(received), Len(acc))
  BY <1>3 DEF Stream, Shaped, Ends, Unfinished, Follows
<1>5. acc = Prefix(Len(received) + 1, Len(acc))
  BY <1>2 DEF Prefix
<1>6. Ready(Pipe, WriterMsg, WriterOff, Len(received), Len(acc))
  <2>1. WriterMsg = 1 /\ WriterOff = 0 /\ Len(received) + 1 = 1 /\ Len(acc) = 0
    BY <1>2 DEF WriterMsg, WriterOff
  <2> QED  BY <1>3, <2>1 DEF Ready, Whole
<1>7. WrittenMsgs
  BY <1>2 DEF WrittenMsgs
<1> QED  BY <1>4, <1>5, <1>6, <1>7 DEF ReaderInv

\* The message at hand may grow as long as no packet ends it.
LEMMA ReaderQuiet ==
    ASSUME FramingTypes, FramingTypes', ReaderInv, Alive, Alive', ~MayEnd,
           UNCHANGED <<done, received, acc, reader, src, open>>,
           Pipe' = Pipe, WriterMsg' = WriterMsg, WriterOff' = WriterOff
    PROVE  ReaderInv'
<1>1. SUFFICES ASSUME reader = "reading"  PROVE ReaderInv'
  BY DEF ReaderInv
<1>2. /\ Stream(Pipe, AllMsgs, Len(done), Len(src), FALSE, Len(received), Len(acc))
      /\ acc = Prefix(Len(received) + 1, Len(acc))
      /\ open => Ready(Pipe, WriterMsg, WriterOff, Len(received), Len(acc))
  <2>1. MayEnd = FALSE
    BY DEF MayEnd
  <2> QED  BY <1>1, <2>1 DEF ReaderInv
<1>3. \A m \in 1..Len(done) : AllMsgs'[m] = AllMsgs[m]
  BY AllMsgsIs, NextMsgsIs
<1>4. Stream(Pipe, AllMsgs', Len(done), Len(src), MayEnd', Len(received), Len(acc))
  BY <1>2, <1>3, PipeIs, AllMsgsIs, StreamChange
<1> QED  BY <1>2, <1>4 DEF ReaderInv

\* A packet more is in the buffer.
LEMMA ReaderPacket ==
    ASSUME FramingTypes, FramingTypes', ReaderInv, Alive, Alive', ~MayEnd,
           UNCHANGED <<done, received, acc, reader, src, open>>,
           NEW E, NEW n \in Nat, NEW eom \in BOOLEAN,
           IsPacket(E, WriterMsg, WriterOff, n, eom),
           Rest' = Join(Rest, E), WriterMsg = Len(done) + 1, WriterOff \in Nat,
           n = 0 => WriterOff = 0 /\ eom, eom => WriterOff + n = Len(msg'),
           eom => MayEnd',
           WriterMsg' = (IF eom THEN WriterMsg + 1 ELSE WriterMsg),
           WriterOff' = (IF eom THEN 0 ELSE WriterOff + n)
    PROVE  ReaderInv'
<1>1. SUFFICES ASSUME reader = "reading"  PROVE ReaderInv'
  BY DEF ReaderInv
<1>2. /\ Stream(Pipe, AllMsgs, Len(done), Len(src), FALSE, Len(received), Len(acc))
      /\ acc = Prefix(Len(received) + 1, Len(acc))
      /\ open => Ready(Pipe, WriterMsg, WriterOff, Len(received), Len(acc))
  <2>1. MayEnd = FALSE
    BY DEF MayEnd
  <2> QED  BY <1>1, <2>1 DEF ReaderInv
<1>3. \A m \in 1..Len(done) : AllMsgs'[m] = AllMsgs[m]
  BY AllMsgsIs, NextMsgsIs
<1>4. \A may : Stream(Pipe, AllMsgs', Len(done), Len(src), may, Len(received), Len(acc))
  BY <1>2, <1>3, PipeIs, AllMsgsIs, StreamChange
<1>5. CASE ~open
  <2>1. Pipe' = Pipe /\ ~open'
    BY <1>5 DEF Pipe
  <2> QED  BY <1>2, <1>4, <2>1 DEF ReaderInv
<1>6. CASE open
  <2>1. src \in Seq(Byte) /\ Rest \in Seq(Byte) /\ E \in Seq(Byte) /\ open'
    BY <1>6 DEF FramingTypes, Rest, IsPacket
  <2>2. Pipe' = Join(Pipe, E)
    <3>1. Pipe = Join(src, Rest) /\ Pipe' = Join(src, Join(Rest, E))
      BY <1>6, <2>1 DEF Pipe
    <3>2. Join(src, Join(Rest, E)) = Join(Join(src, Rest), E)
      BY <2>1, JoinAssociative
    <3> QED  BY <3>1, <3>2
  <2> DEFINE m == WriterMsg
             o == WriterOff
             r == Len(received)
             a == Len(acc)
             l == Len(src)
             ms == AllMsgs'
  <2>3. m \in Nat \ {0} /\ m - 1 = Len(done)
    BY AllMsgsIs
  <2>4. ms[m] = msg'
    BY NextMsgsIs
  <2>5. l \in 0..Len(Pipe) /\ Pipe \in Seq(Byte)
    BY PipeIs
  <2>6. Stream(Pipe, ms, m - 1, l, FALSE, r, a)
    BY <1>4, <2>3
  <2>7. Ready(Pipe, m, o, r, a)
    BY <1>2, <1>6
  <2>8. eom => o + n = Len(ms[m])
    BY <2>4
  <2> HIDE DEF m, o, r, a, l, ms
  <2>9. /\ Stream(Join(Pipe, E), ms, m - 1, l, eom, r, a)
        /\ Ready(Join(Pipe, E), IF eom THEN m + 1 ELSE m, IF eom THEN 0 ELSE o + n, r, a)
    BY <2>3, <2>5, <2>6, <2>7, <2>8, StreamAppend DEF m, o
  <2>10. Stream(Pipe', ms, Len(done), l, eom, r, a)
    BY <2>2, <2>3, <2>9
  <2>11. Stream(Pipe', ms, Len(done), l, MayEnd', r, a)
    BY <2>10 DEF Stream, Unfinished
  <2>12. Ready(Pipe', WriterMsg', WriterOff', r, a)
    BY <2>2, <2>9 DEF m, o
  <2> QED  BY <1>2, <2>11, <2>12 DEF ReaderInv, ms, r, a, l
<1> QED  BY <1>5, <1>6 DEF FramingTypes


\* Bytes go from the buffer to the peer.
LEMMA ReaderMoves ==
    ASSUME FramingTypes, FramingTypes', ReaderInv, Alive, Alive', open, open',
           UNCHANGED <<received, acc, reader, msg>>, NEW n \in 1..Len(Rest),
           src' = Join(src, Take(Rest, n)), Rest' = DropFirst(Rest, n),
           WriterMsg' = WriterMsg, WriterOff' = WriterOff,
           \/ n < Len(Rest) /\ done' = done /\ MayEnd' = MayEnd
           \/ done' = done /\ ~MayEnd /\ ~MayEnd'
           \/ done' = Append(done, msg) /\ ~MayEnd'
    PROVE  ReaderInv'
<1>1. SUFFICES ASSUME reader = "reading"  PROVE ReaderInv'
  BY DEF ReaderInv
<1>2. /\ Stream(Pipe, AllMsgs, Len(done), Len(src), MayEnd, Len(received), Len(acc))
      /\ acc = Prefix(Len(received) + 1, Len(acc))
      /\ Ready(Pipe, WriterMsg, WriterOff, Len(received), Len(acc))
  BY <1>1 DEF ReaderInv
<1>3. src \in Seq(Byte) /\ Rest \in Seq(Byte)
  BY DEF FramingTypes, Rest
<1>4. Pipe = Join(src, Rest) /\ Pipe' = Join(src', Rest')
  BY DEF Pipe
<1>5. Pipe' = Pipe /\ Len(src') = Len(src) + n
  BY <1>3, <1>4, Moved
<1>6. Pipe \in Seq(Byte) /\ Len(done) \in Nat /\ Len(Pipe) = Len(src) + Len(Rest) /\ Len(src') \in Nat
  BY <1>3, <1>4, <1>5, PipeIs, AllMsgsIs, JoinTypes
<1>7. Ready(Pipe', WriterMsg', WriterOff', Len(received), Len(acc))
  BY <1>2, <1>5
<1>8. SUFFICES Stream(Pipe, AllMsgs', Len(done'), Len(src'), MayEnd', Len(received), Len(acc))
  BY <1>2, <1>5, <1>7 DEF ReaderInv
<1>9. CASE n < Len(Rest) /\ done' = done /\ MayEnd' = MayEnd
  <2>1. Len(src') < Len(Pipe)
    BY <1>3, <1>5, <1>6, <1>9
  <2>2. Stream(Pipe, AllMsgs, Len(done), Len(src'), MayEnd, Len(received), Len(acc))
    BY <1>2, <1>6, <2>1, StreamArrives
  <2>3. AllMsgs' = AllMsgs
    BY <1>9 DEF AllMsgs
  <2> QED  BY <1>9, <2>2, <2>3
<1>10. CASE done' = done /\ ~MayEnd /\ ~MayEnd'
  <2>1. MayEnd = FALSE /\ MayEnd' = FALSE
    BY <1>10 DEF MayEnd
  <2>2. \A m \in 1..Len(done) : AllMsgs[m] = AllMsgs[m]
    OBVIOUS
  <2>3. Stream(Pipe, AllMsgs, Len(done), Len(src'), FALSE, Len(received), Len(acc))
    BY <1>2, <1>6, <2>1, <2>2, StreamChange
  <2>4. AllMsgs' = AllMsgs
    BY <1>10 DEF AllMsgs
  <2> QED  BY <1>10, <2>1, <2>3, <2>4
<1>11. CASE done' = Append(done, msg) /\ ~MayEnd'
  <2>1. done' = AllMsgs /\ Len(AllMsgs) = Len(done) + 1
    BY <1>11, AllMsgsIs DEF AllMsgs
  <2>2. \A m \in 1..Len(done') : AllMsgs'[m] = done'[m]
    BY NextMsgsIs
  <2>3. \A m \in 1..Len(done) + 1 : AllMsgs'[m] = AllMsgs[m]
    BY <2>1, <2>2
  <2>4. Stream(Pipe, AllMsgs', Len(done) + 1, Len(src'), FALSE, Len(received), Len(acc))
    BY <1>2, <1>6, <2>3, StreamDone
  <2>5. MayEnd' = FALSE /\ Len(done') = Len(done) + 1
    BY <1>11, <2>1 DEF MayEnd
  <2> QED  BY <2>4, <2>5
<1> QED  BY <1>9, <1>10, <1>11

\* What has not arrived is lost: a call is dropped or the connection breaks.
LEMMA ReaderLoses ==
    ASSUME FramingTypes, ReaderInv, ~(open' /\ Alive'),
           UNCHANGED <<done, msg, received, acc, reader, src>>, MayEnd => MayEnd'
    PROVE  ReaderInv'
<1>1. SUFFICES ASSUME reader = "reading"  PROVE ReaderInv'
  BY DEF ReaderInv
<1>2. /\ Stream(Pipe, AllMsgs, Len(done), Len(src), MayEnd, Len(received), Len(acc))
      /\ acc = Prefix(Len(received) + 1, Len(acc))
  BY <1>1 DEF ReaderInv
<1>3. Pipe' = src /\ AllMsgs' = AllMsgs /\ src \in Seq(Byte)
  BY DEF Pipe, AllMsgs, FramingTypes
<1>4. Stream(src, AllMsgs, Len(done), Len(src), MayEnd, Len(received), Len(acc))
  BY <1>2, <1>3, PipeIs, StreamCut
<1>5. Stream(src, AllMsgs, Len(done), Len(src), MayEnd', Len(received), Len(acc))
  BY <1>4 DEF Stream, Unfinished
<1> QED  BY <1>2, <1>3, <1>5 DEF ReaderInv

\* The peer sends something malformed between two messages.
LEMMA ReaderMalformed ==
    ASSUME WriterInv, ReaderInv, NEW k \in {"bad", "hdr"}, NEW len \in Nat,
           k = "hdr" => len < HeaderBytes, Malformed(k, len)
    PROVE  ReaderInv'
<1>1. SUFFICES ASSUME reader = "reading"  PROVE ReaderInv'
  BY DEF ReaderInv, Malformed
<1>2. /\ open /\ pc = "idle" /\ ~poisoned /\ ~open' /\ FramingTypes
      /\ UNCHANGED <<pc, poisoned, wbuf, frames, msg, done, acc, reader, received>>
  BY DEF Malformed, WriterInv, writerVars
<1>3. Alive /\ MayEnd = FALSE /\ MayEnd' = FALSE /\ Rest = <<>>
  BY <1>2 DEF Alive, MayEnd, Rest, WriterInv, Phases
<1>4. src \in Seq(Byte) /\ Len(done) \in Nat /\ Pipe = src
  BY <1>2, <1>3, EmptyJoin, AllMsgsIs DEF FramingTypes, Pipe
<1>5. /\ Stream(src, AllMsgs, Len(done), Len(src), FALSE, Len(received), Len(acc))
      /\ acc = Prefix(Len(received) + 1, Len(acc))
      /\ Ready(src, WriterMsg, WriterOff, Len(received), Len(acc))
  BY <1>1, <1>2, <1>3, <1>4 DEF ReaderInv
<1>6. PICK P \in Seq(Byte) :
          /\ src' = Join(src, P) /\ Len(P) = HeaderBytes
          /\ \A i \in 1..HeaderBytes :
                P[i] = Bad(k, i, len)
  BY <1>2, MalformedTypes
<1>7. Stream(src', AllMsgs, Len(done), Len(src'), FALSE, Len(received), Len(acc))
  <2> DEFINE r == Len(received)
             a == Len(acc)
             ms == AllMsgs
             m == WriterMsg
             o == WriterOff
             c == Len(src')
  <2>1. Stream(src, ms, Len(done), Len(src), FALSE, r, a) /\ Ready(src, m, o, r, a)
    BY <1>5
  <2> HIDE DEF r, a, ms, m, o, c
  <2>2. Stream(Join(src, P), ms, Len(done), c, FALSE, r, a)
    BY <1>4, <1>6, <2>1, StreamMalformed
  <2> QED  BY <1>6, <2>2 DEF r, a, ms, c
<1>8. Pipe' = src' /\ AllMsgs' = AllMsgs
  BY <1>2 DEF Pipe, AllMsgs
<1> QED  BY <1>2, <1>3, <1>5, <1>7, <1>8 DEF ReaderInv


\* The front of two sequences in a row is the front of the first.
LEMMA JoinSuffix ==
    ASSUME NEW s \in Seq(Byte), NEW t \in Seq(Byte), NEW b \in Seq(Byte), NEW d \in Nat,
           Len(t) = Len(s) - d, \A i \in 1..Len(t) : t[i] = s[i + d]
    PROVE  /\ Len(Join(t, b)) = Len(Join(s, b)) - d
           /\ \A i \in 1..Len(Join(t, b)) : Join(t, b)[i] = Join(s, b)[i + d]
<1> DEFINE x == Join(s, b)
           y == Join(t, b)
<1>1. /\ x \in Seq(Byte) /\ Len(x) = Len(s) + Len(b)
      /\ \A i \in 1..Len(s) : x[i] = s[i]
      /\ \A i \in 1..Len(b) : x[Len(s) + i] = b[i]
  BY JoinTypes
<1>2. /\ y \in Seq(Byte) /\ Len(y) = Len(t) + Len(b)
      /\ \A i \in 1..Len(t) : y[i] = t[i]
      /\ \A i \in 1..Len(b) : y[Len(t) + i] = b[i]
  BY JoinTypes
<1>3. Len(s) \in Nat /\ Len(t) \in Nat /\ Len(b) \in Nat
  OBVIOUS
<1> HIDE DEF x, y
<1>4. Len(y) = Len(x) - d
  BY <1>1, <1>2, <1>3
<1>5. ASSUME NEW i \in 1..Len(y)  PROVE y[i] = x[i + d]
  <2>1. CASE i <= Len(t)
    <3>1. i \in 1..Len(t) /\ i + d \in 1..Len(s)
      BY <1>3, <2>1
    <3> QED  BY <1>1, <1>2, <3>1
  <2>2. CASE i > Len(t)
    <3> DEFINE j == i - Len(t)
    <3>1. j \in 1..Len(b) /\ Len(t) + j = i /\ Len(s) + j = i + d
      BY <1>2, <1>3, <2>2
    <3> HIDE DEF j
    <3> QED  BY <1>1, <1>2, <3>1
  <2> QED  BY <1>3, <2>1, <2>2
<1> QED  BY <1>4, <1>5 DEF x, y

\* collect_from: the payload goes to what it has of the message, and a message
\* that is complete is the one that was written.
LEMMA ReaderDecodes ==
    ASSUME WriterInv, WriterInv', ReaderInv, WrittenMsgs, DecodePacket
    PROVE  /\ ReaderInv'
           /\ \/ received' = received
              \/ /\ Len(received) < Len(done)
                 /\ received' = Append(received, done[Len(received) + 1])
<1>1. /\ FramingTypes /\ FramingTypes' /\ reader = "reading"
      /\ UNCHANGED <<pc, kind, todo, ending, rows, poisoned, size, wbuf, frames, msg, done, open, reader>>
  BY DEF DecodePacket, WriterInv, writerVars
<1> DEFINE len == src[1].len
           payload == SubSeq(src, HeaderBytes + 1, len)
           r == Len(received)
           a == Len(acc)
           S == Pipe
           T == Pipe'
           l == Len(src)
           z == len - HeaderBytes
<1>2. /\ len \in Nat /\ HeaderBytes <= len /\ len <= l /\ len > 0
      /\ src[1] \in Byte /\ src[1].kind = "hdr" /\ 1 <= l
      /\ src' \in Seq(Byte) /\ Len(src') = l - len
      /\ \A i \in 1..Len(src') : src'[i] = src[i + len]
      /\ payload \in Seq(Byte) /\ Len(payload) = z
      /\ \A i \in 1..z : payload[i] = src[HeaderBytes + i]
      /\ IF src[1].eom
         THEN received' = Append(received, Join(acc, payload)) /\ acc' = <<>>
         ELSE acc' = Join(acc, payload) /\ received' = received
  BY <1>1, Decoded
<1>3. /\ src \in Seq(Byte) /\ acc \in Seq(Byte) /\ received \in Seq(Seq(Byte)) /\ Rest \in Seq(Byte)
      /\ Len(done) \in Nat /\ r \in Nat /\ a \in Nat /\ l \in Nat
  BY <1>1 DEF FramingTypes, Rest
<1>4. /\ S \in Seq(Byte) /\ l <= Len(S) /\ Len(S) \in Nat
      /\ \A i \in 1..l : S[i] = src[i]
  BY <1>1, PipeIs
<1>5. T \in Seq(Byte) /\ Len(T) = Len(S) - len /\ \A i \in 1..Len(T) : T[i] = S[i + len]
  <2>1. (Alive' <=> Alive) /\ Rest' = Rest
    BY <1>1 DEF Alive, Rest
  <2>2. CASE open /\ Alive
    <3>1. S = Join(src, Rest) /\ T = Join(src', Rest)
      BY <1>1, <2>1, <2>2 DEF Pipe
    <3> HIDE DEF len
    <3>4. /\ src' \in Seq(Byte) /\ len \in Nat /\ Len(src') = Len(src) - len
          /\ \A i \in 1..Len(src') : src'[i] = src[i + len]
      BY <1>2
    <3>5. src \in Seq(Byte) /\ Rest \in Seq(Byte)
      BY <1>3
    <3>2. /\ Len(Join(src', Rest)) = Len(Join(src, Rest)) - len
          /\ \A i \in 1..Len(Join(src', Rest)) : Join(src', Rest)[i] = Join(src, Rest)[i + len]
      BY <3>4, <3>5, JoinSuffix
    <3>3. Join(src', Rest) \in Seq(Byte)
      BY <1>2, <1>3, JoinTypes
    <3> QED  BY <3>1, <3>2, <3>3
  <2>3. CASE ~(open /\ Alive)
    <3>1. S = src /\ T = src'
      BY <1>1, <2>1, <2>3 DEF Pipe
    <3> HIDE DEF S, T
    <3> QED  BY <1>2, <3>1
  <2> QED  BY <2>2, <2>3
<1>6. 1 \in 1..l /\ S[1] = src[1] /\ 1 <= Len(S) /\ l \in 0..Len(S)
  <2>1. 1 \in 1..l
    BY <1>2, <1>3
  <2> HIDE DEF S, l
  <2> QED  BY <1>3, <1>4, <2>1
<1>7. /\ Stream(S, AllMsgs, Len(done), l, MayEnd, r, a)
      /\ acc = Prefix(r + 1, a)
      /\ open /\ Alive => Ready(S, WriterMsg, WriterOff, r, a)
  BY <1>1 DEF ReaderInv
<1>8. len = S[1].len /\ S[1].kind = "hdr"
  BY <1>2, <1>6
<1>14. len \in Nat /\ HeaderBytes <= len /\ len <= l
  BY <1>2
<1> HIDE DEF S, T, l, r, a, len
<1>15. r \in Nat /\ a \in Nat /\ Len(done) \in Nat
  BY <1>3
<1>16. Stream(S, AllMsgs, Len(done), l, MayEnd, r, a) /\ S \in Seq(Byte)
  BY <1>4, <1>7
<1>9. /\ \A i \in 1..z : S[HeaderBytes + i] = Data(r + 1, a + i)
      /\ S[1].eom => /\ r + 1 \in 1..Len(done) /\ a + z = Len(AllMsgs[r + 1])
                     /\ Stream(T, AllMsgs, Len(done), l - len, MayEnd, r + 1, 0)
      /\ ~S[1].eom => Stream(T, AllMsgs, Len(done), l - len, MayEnd, r, a + z)
      /\ \A m, o : Ready(S, m, o, r, a) =>
            Ready(T, m, o, IF S[1].eom THEN r + 1 ELSE r, IF S[1].eom THEN 0 ELSE a + z)
  <2>1. TakenOff(S, T, len, AllMsgs, Len(done), l, MayEnd, r, a)
    BY <1>5, <1>6, <1>8, <1>14, <1>15, <1>16, StreamDecode
  <2> QED  BY <2>1 DEF TakenOff
<1> HIDE DEF z
<1>10. /\ AllMsgs' = AllMsgs /\ WriterMsg' = WriterMsg /\ WriterOff' = WriterOff
       /\ (MayEnd' = MayEnd) /\ (open' /\ Alive' <=> open /\ Alive)
  BY <1>1 DEF AllMsgs, WriterMsg, WriterOff, MayEnd, Alive
<1> DEFINE c == Join(acc, payload)
<1> HIDE DEF payload
<1>11. c \in Seq(Byte) /\ Len(c) = a + z /\ c = Prefix(r + 1, a + z) /\ z \in Nat
  <2>0. z \in Nat
    BY <1>2, Sizes_ DEF z
  <2>1. /\ c \in Seq(Byte) /\ Len(c) = a + z
        /\ \A i \in 1..a : c[i] = acc[i]
        /\ \A i \in 1..z : c[a + i] = payload[i]
    BY <1>2, <1>3, JoinTypes DEF a
  <2> HIDE DEF c
  <2>2. \A i \in 1..a : acc[i] = Data(r + 1, i)
    <3> DEFINE p == r + 1
    <3>1. p \in Nat /\ a \in Nat /\ acc = Prefix(p, a)
      BY <1>3, <1>7
    <3> HIDE DEF p
    <3>2. \A i \in 1..a : Prefix(p, a)[i] = Data(p, i)
      BY <3>1, PrefixOf
    <3> QED  BY <3>1, <3>2 DEF p
  <2>3. ASSUME NEW i \in 1..Len(c)  PROVE c[i] = Data(r + 1, i)
    <3>1. CASE i <= a
      <4>1. i \in 1..a
        BY <1>3, <3>1
      <4> QED  BY <2>1, <2>2, <4>1
    <3>2. CASE i > a
      <4> DEFINE j == i - a
      <4>1. j \in 1..z /\ a + j = i /\ HeaderBytes + j \in 1..l
        BY <1>2, <1>3, <2>0, <2>1, <3>2, Sizes_ DEF z
      <4> HIDE DEF j
      <4>2. c[i] = src[HeaderBytes + j]
        BY <1>2, <2>1, <4>1
      <4>3. src[HeaderBytes + j] = Data(r + 1, a + j)
        BY <1>4, <1>9, <4>1
      <4> QED  BY <4>1, <4>2, <4>3
    <3> QED  BY <1>3, <3>1, <3>2
  <2>4. r + 1 \in Nat
    BY <1>3
  <2>5. c = Prefix(r + 1, Len(c))
    BY <2>1, <2>3, <2>4, IsPrefixOf
  <2> QED  BY <2>0, <2>1, <2>5
<1>12. CASE S[1].eom
  <2>1. received' = Append(received, c) /\ acc' = <<>>
    BY <1>2, <1>6, <1>12
  <2>2. Len(received') = r + 1 /\ Len(acc') = 0
    BY <1>3, <1>11, <2>1 DEF r
  <2>3. r + 1 \in 1..Len(done) /\ a + z = Len(AllMsgs[r + 1])
    BY <1>9, <1>12
  <2>4. AllMsgs[r + 1] = done[r + 1]
    BY <1>1, <2>3, AllMsgsIs
  <2>5. done[r + 1] = Prefix(r + 1, a + z)
    BY <2>3, <2>4 DEF WrittenMsgs
  <2>6. Len(received) < Len(done) /\ received' = Append(received, done[Len(received) + 1])
    BY <1>3, <1>11, <2>1, <2>3, <2>5 DEF r
  <2>7. acc' = Prefix(r + 1 + 1, 0)
    BY <2>1 DEF Prefix
  <2>8. Stream(T, AllMsgs, Len(done), l - len, MayEnd, r + 1, 0)
    BY <1>9, <1>12
  <2>9. open /\ Alive => Ready(T, WriterMsg, WriterOff, r + 1, 0)
    BY <1>7, <1>9, <1>12
  <2>10. ReaderInv'
    BY <1>1, <1>2, <1>10, <2>2, <2>7, <2>8, <2>9 DEF ReaderInv, T
  <2> QED  BY <2>6, <2>10
<1>13. CASE ~S[1].eom
  <2>1. acc' = c /\ received' = received
    BY <1>2, <1>6, <1>13
  <2>2. Stream(T, AllMsgs, Len(done), l - len, MayEnd, r, a + z)
    BY <1>9, <1>13
  <2>3. open /\ Alive => Ready(T, WriterMsg, WriterOff, r, a + z)
    BY <1>7, <1>9, <1>13
  <2>4. Len(received') = r /\ Len(acc') = a + z /\ acc' = Prefix(r + 1, a + z)
    BY <1>11, <2>1 DEF r
  <2>5. ReaderInv'
    BY <1>1, <1>2, <1>10, <2>2, <2>3, <2>4 DEF ReaderInv, T
  <2> QED  BY <2>1, <2>5
<1> QED  BY <1>12, <1>13


LEMMA ReaderStep ==
    ASSUME ~MayAbandon, WriterInv, WriterInv', ReaderInv, WrittenMsgs, [Next]_vars
    PROVE  ReaderInv'
<1>0. /\ FramingTypes /\ FramingTypes' /\ Phases /\ Phases' /\ BeingWritten /\ BeingWritten'
      /\ Len(done) \in Nat /\ Len(msg) \in Nat /\ Len(todo) \in Nat
      /\ wbuf \in Seq(Byte) /\ frames \in Seq(Byte)
  BY DEF WriterInv, FramingTypes
<1>1. ASSUME UNCHANGED <<pc, todo, poisoned, wbuf, frames, msg, done, open, readerVars>>
      PROVE  ReaderInv'
  <2>1. UNCHANGED <<src, acc, reader, received>>
    BY <1>1 DEF readerVars
  <2>2. Pipe' = Pipe /\ AllMsgs' = AllMsgs /\ WriterMsg' = WriterMsg /\ WriterOff' = WriterOff
    BY <1>1, <2>1 DEF Pipe, Alive, Rest, AllMsgs, WriterMsg, WriterOff
  <2>3. MayEnd' = MayEnd /\ (Alive' <=> Alive)
    BY <1>1 DEF MayEnd, Alive
  <2> QED  BY <1>1, <2>1, <2>2, <2>3 DEF ReaderInv
<1>2. ASSUME NEW n \in Sizes, SetPacketSize(n)  PROVE ReaderInv'
  BY <1>1, <1>2 DEF SetPacketSize
\* A message begins, or a row is added to it: nothing is written yet.
<1>3. ASSUME pc \in {"idle", "bulk"}, ~poisoned, pc' # "idle", pc' # "last", pc' # "login",
             pc' # "bulk" \/ ~poisoned', UNCHANGED <<wbuf, frames, done, open, readerVars>>,
             Len(msg') - Len(todo') = (IF pc = "idle" THEN 0 ELSE Len(msg) - Len(todo))
      PROVE  ReaderInv'
  <2>1. Alive /\ Alive' /\ ~MayEnd
    BY <1>3 DEF Alive, MayEnd
  <2>2. UNCHANGED <<src, acc, reader, received>>
    BY <1>3 DEF readerVars
  <2>3. wbuf = <<>> /\ frames = <<>> /\ wbuf' = <<>> /\ frames' = <<>>
    BY <1>0, <1>3 DEF Phases
  <2>4. Rest = <<>> /\ Rest' = <<>>
    BY <2>3 DEF Rest
  <2>5. Pipe' = Pipe
    BY <1>3, <2>1, <2>2, <2>4 DEF Pipe
  <2>6. WriterMsg' = WriterMsg /\ WriterOff' = WriterOff
    BY <1>3 DEF WriterMsg, WriterOff
  <2> QED  BY <1>0, <1>3, <2>1, <2>2, <2>5, <2>6, ReaderQuiet
<1>4. ASSUME NEW n \in Nat  PROVE Len(Bytes(0, n)) = n
  BY <1>0, BeginsWith
<1>5. ASSUME NEW n \in SendSizes, BeginSend(n)  PROVE ReaderInv'
  <2>1. n \in Nat /\ todo' = msg' /\ Len(msg') = n /\ n - n = 0
    BY <1>4, <1>5, FramingAssumption DEF BeginSend
  <2>2. Len(msg') - Len(todo') = 0
    BY <2>1
  <2> QED  BY <1>3, <1>5, <2>2 DEF BeginSend, Usable
<1>6. ASSUME NEW n \in LoginSizes, BeginLogin(n)  PROVE ReaderInv'
  <2>1. n \in Nat /\ todo' = msg' /\ Len(msg') = n /\ n - n = 0
    BY <1>4, <1>6, FramingAssumption DEF BeginLogin
  <2>2. Len(msg') - Len(todo') = 0
    BY <2>1
  <2> QED  BY <1>3, <1>6, <2>2 DEF BeginLogin, Usable
<1>7. CASE OpenBulk
  <2>1. todo' = msg' /\ Len(msg') = 1
    BY <1>4, <1>7 DEF OpenBulk
  <2>2. Len(msg') - Len(todo') = 0
    BY <2>1
  <2> QED  BY <1>3, <1>7, <2>2 DEF OpenBulk, Usable
<1>8. ASSUME pc = "bulk", NEW n \in Nat
      PROVE  /\ Len(Extended(n)) = Len(todo) + n /\ Len(msg \o Bytes(Len(msg), n)) = Len(msg) + n
             /\ Truncate(Extended(n), Len(todo)) = todo
  BY <1>0, <1>8, ExtendedBuffer
<1>9. ASSUME NEW n \in RowSizes, NEW ok \in BOOLEAN, BulkRow(n, ok)  PROVE ReaderInv'
  <2>1. n \in Nat /\ pc = "bulk" /\ ~poisoned
    BY <1>9, FramingAssumption DEF BulkRow, Usable
  <2>2. Len(msg') - Len(todo') = Len(msg) - Len(todo)
    <3>1. CASE ok
      <4>1. todo' = Extended(n) /\ msg' = msg \o Bytes(Len(msg), n)
        BY <1>9, <3>1 DEF BulkRow
      <4>2. Len(todo') = Len(todo) + n /\ Len(msg') = Len(msg) + n
        BY <1>8, <2>1, <4>1
      <4> QED  BY <1>0, <2>1, <4>2
    <3>2. CASE ~ok
      <4>1. todo' = Truncate(Extended(n), Len(todo)) /\ msg' = msg
        BY <1>9, <3>2 DEF BulkRow
      <4> QED  BY <1>8, <2>1, <4>1
    <3> QED  BY <3>1, <3>2
  <2>3. pc' \in {"loop", "bulk"} /\ (pc' # "bulk" \/ ~poisoned')
    BY <1>9 DEF BulkRow
  <2> QED  BY <1>3, <1>9, <2>1, <2>2, <2>3 DEF BulkRow
<1>10. CASE Finalize
  <2>1. pc = "bulk" /\ todo' = Extended(1) /\ msg' = msg \o Bytes(Len(msg), 1) /\ pc' = "loop"
    BY <1>10 DEF Finalize
  <2>2. Len(todo') = Len(todo) + 1 /\ Len(msg') = Len(msg) + 1
    BY <1>8, <2>1
  <2>3. Len(msg') - Len(todo') = Len(msg) - Len(todo)
    BY <1>0, <2>2
  <2> QED  BY <1>3, <1>10, <2>1, <2>3 DEF Finalize, Usable
<1>11. CASE BeginAttention
  <2>1. /\ wbuf = <<>> /\ wbuf' \in Seq(Byte) /\ Len(wbuf') = HeaderBytes
        /\ \A i \in 1..HeaderBytes :
              IsHeader(wbuf'[i], Len(done) + 1, i, HeaderBytes, TRUE) /\ wbuf'[i].size = size
    BY <1>11, AttentionPacket
  <2>2. /\ pc = "idle" /\ ~poisoned /\ pc' = "last" /\ poisoned' /\ msg' = <<>>
        /\ UNCHANGED <<done, received, acc, reader, src, open, frames>>
    BY <1>11 DEF BeginAttention, Usable, readerVars
  <2> DEFINE n == 0
             eom == TRUE
  <2>3. IsPacket(wbuf', Len(done) + 1, 0, n, eom)
    <3>1. HeaderBytes + n = HeaderBytes /\ n = 0
      BY Sizes_
    <3>2. \A i \in 1..HeaderBytes :
              IsHeader(wbuf'[i], Len(done) + 1, i, HeaderBytes, eom) /\ wbuf'[i].size = size
      BY <2>1
    <3> HIDE DEF n, eom
    <3> QED  BY <2>1, <3>1, <3>2 DEF IsPacket
  <2>4. /\ Alive /\ Alive' /\ ~MayEnd /\ MayEnd'
        /\ WriterMsg = Len(done) + 1 /\ WriterOff = 0 /\ WriterOff' = 0 /\ Rest = <<>> /\ Rest' = wbuf'
    BY <2>1, <2>2 DEF Alive, MayEnd, WriterMsg, WriterOff, Rest
  <2>5. WriterMsg' = WriterMsg + 1
    BY <1>0, <2>2, <2>4 DEF WriterMsg
  <2>6. Rest' = Join(Rest, wbuf')
    BY <2>1, <2>4 DEF Join
  <2>7. n \in Nat /\ eom \in BOOLEAN /\ WriterOff \in Nat /\ WriterOff + n = Len(msg') /\ eom
    BY <2>2, <2>4
  <2>8. n = 0 => WriterOff = 0 /\ eom
    BY <2>4
  <2>9. IsPacket(wbuf', WriterMsg, WriterOff, n, eom)
    BY <2>3, <2>4
  <2>10. /\ WriterMsg' = (IF eom THEN WriterMsg + 1 ELSE WriterMsg)
         /\ WriterOff' = (IF eom THEN 0 ELSE WriterOff + n)
    BY <2>4, <2>5
  <2> HIDE DEF n, eom
  <2> QED  BY <1>0, <2>2, <2>4, <2>6, <2>7, <2>8, <2>9, <2>10, ReaderPacket
<1>12. ASSUME NEW E, NEW n \in Nat, NEW eom \in BOOLEAN,
              IsPacket(E, Len(done) + 1, Len(msg) - Len(todo), n, eom), n # 0,
              pc \in {"loop", "frames"}, Rest' = Join(Rest, E), pc' # "idle", pc' # "bulk", poisoned',
              pc' \in {"last", "login"} <=> eom, MayEnd' <=> eom, eom => n = Len(todo),
              Len(todo') = Len(todo) - n,
              UNCHANGED <<msg, done, received, acc, reader, src, open>>
       PROVE  ReaderInv'
  <2>1. Alive /\ Alive' /\ ~MayEnd
    BY <1>12 DEF Alive, MayEnd
  <2>2. /\ WriterMsg = Len(done) + 1 /\ WriterOff = Len(msg) - Len(todo) /\ WriterOff \in Nat
    <3>1. Len(todo) <= Len(msg)
      BY <1>0, <1>12 DEF BeingWritten
    <3> QED  BY <1>0, <1>12, <3>1 DEF WriterMsg, WriterOff
  <2>3. WriterMsg' = (IF eom THEN WriterMsg + 1 ELSE WriterMsg)
    BY <1>0, <1>12, <2>2 DEF WriterMsg
  <2>4. WriterOff' = (IF eom THEN 0 ELSE WriterOff + n)
    <3>1. Len(msg) - (Len(todo) - n) = (Len(msg) - Len(todo)) + n
      BY <1>0, <1>12
    <3> QED  BY <1>12, <2>2, <3>1 DEF WriterOff
  <2>5. eom => WriterOff + n = Len(msg')
    BY <1>0, <1>12, <2>2
  <2>6. IsPacket(E, WriterMsg, WriterOff, n, eom)
    BY <1>12, <2>2
  <2> QED  BY <1>0, <1>12, <2>1, <2>2, <2>3, <2>4, <2>5, <2>6, ReaderPacket
<1>13. ASSUME NEW n \in 0..Len(todo), NEW eom \in BOOLEAN, WritePacket(n, eom)  PROVE ReaderInv'
  <2>1. /\ IsPacket(wbuf', Len(done) + 1, Len(msg) - Len(todo), n, eom)
        /\ n # 0 /\ n \in Nat /\ (eom => n = Len(todo)) /\ Len(todo') = Len(todo) - n
    BY <1>13, WritePacketWriter
  <2>2. /\ pc = "loop" /\ pc' = (IF eom THEN "last" ELSE "flush") /\ wbuf = <<>> /\ poisoned /\ poisoned'
        /\ UNCHANGED <<msg, done, received, acc, reader, src, open>>
    BY <1>0, <1>13 DEF WritePacket, Phases, readerVars
  <2>3. wbuf' \in Seq(Byte)
    BY <1>0 DEF FramingTypes
  <2>4. Rest' = Join(Rest, wbuf')
    BY <2>2, <2>3 DEF Rest, Join
  <2>5. MayEnd' <=> eom
    BY <2>2 DEF MayEnd
  <2> QED  BY <1>12, <2>1, <2>2, <2>4, <2>5
<1>14. ASSUME NEW n \in 0..Len(todo), NEW eom \in BOOLEAN, FrameLogin(n, eom)  PROVE ReaderInv'
  <2>1. /\ \E E : /\ frames' = frames \o E
                  /\ IsPacket(E, Len(done) + 1, Len(msg) - Len(todo), n, eom)
        /\ n \in 1..Room /\ (eom => n = Len(todo)) /\ Len(todo') = Len(todo) - n
    BY <1>14, FrameLoginWriter
  <2>6. n # 0 /\ n \in Nat
    BY <1>0, <2>1
  <2>2. PICK E : /\ frames' = frames \o E
                 /\ IsPacket(E, Len(done) + 1, Len(msg) - Len(todo), n, eom)
    BY <2>1
  <2>3. /\ pc = "frames" /\ pc' = (IF eom THEN "login" ELSE "frames") /\ poisoned /\ poisoned'
        /\ UNCHANGED <<msg, done, received, acc, reader, src, open>>
    BY <1>0, <1>14 DEF FrameLogin, Phases, readerVars
  <2>4. Rest' = Join(Rest, E)
    BY <2>2, <2>3 DEF Rest, Join
  <2>5. MayEnd' <=> eom
    BY <2>3 DEF MayEnd
  <2> QED  BY <1>12, <2>1, <2>2, <2>3, <2>4, <2>5, <2>6
<1>15. ASSUME NEW n \in 1..Len(wbuf), Flush(n)  PROVE ReaderInv'
  <2>1. /\ pc \in {"flush", "last"} /\ open /\ open' /\ poisoned
        /\ src' = Join(src, Take(wbuf, n)) /\ wbuf' = DropFirst(wbuf, n)
        /\ UNCHANGED <<todo, msg, received, acc, reader>>
    BY <1>0, <1>15 DEF Flush, Join, Phases
  <2>2. \/ n < Len(wbuf) /\ UNCHANGED <<pc, poisoned, done>>
        \/ /\ pc = "last" /\ pc' = "idle" /\ ~poisoned' /\ done' = Append(done, msg)
        \/ /\ pc = "flush" /\ pc' = "bulk" /\ ~poisoned' /\ done' = done
        \/ /\ pc = "flush" /\ pc' = "loop" /\ done' = done
    BY <1>15, <2>1 DEF Flush
  <2>3. Rest = wbuf /\ Rest' = wbuf' /\ Alive /\ Alive'
    BY <2>1, <2>2 DEF Rest, Alive
  <2>4. WriterMsg' = WriterMsg /\ WriterOff' = WriterOff
    <3>1. Len(Append(done, msg)) = Len(done) + 1
      BY <1>0 DEF FramingTypes
    <3>2. WriterOff' = WriterOff
      BY <2>1, <2>2 DEF WriterOff
    <3>3. WriterMsg' = WriterMsg
      <4>1. CASE done' = done /\ (pc' \in {"last", "login"} <=> pc \in {"last", "login"})
        BY <4>1 DEF WriterMsg
      <4>2. CASE pc \in {"last", "login"} /\ pc' = "idle" /\ done' = Append(done, msg)
        <5>1. WriterMsg' = Len(done') + 1 /\ WriterMsg = Len(done) + 2
          BY <4>2 DEF WriterMsg
        <5>2. Len(done') = Len(done) + 1
          BY <3>1, <4>2
        <5> QED  BY <1>0, <5>1, <5>2
      <4> QED  BY <2>1, <2>2, <4>1, <4>2
    <3> QED  BY <3>2, <3>3
  <2>5. \/ n < Len(Rest) /\ done' = done /\ MayEnd' = MayEnd
        \/ done' = done /\ ~MayEnd /\ ~MayEnd'
        \/ done' = Append(done, msg) /\ ~MayEnd'
    BY <2>2, <2>3 DEF MayEnd
  <2>6. n \in 1..Len(Rest) /\ src' = Join(src, Take(Rest, n)) /\ Rest' = DropFirst(Rest, n)
    BY <2>1, <2>3
  <2> QED  BY <1>0, <2>1, <2>3, <2>4, <2>5, <2>6, ReaderMoves
<1>16. ASSUME NEW n \in 1..Len(frames), WriteLogin(n)  PROVE ReaderInv'
  <2>1. /\ pc = "login" /\ open /\ open' /\ poisoned /\ wbuf = <<>> /\ wbuf' = wbuf
        /\ src' = Join(src, Take(frames, n)) /\ frames' = DropFirst(frames, n)
        /\ UNCHANGED <<todo, msg, received, acc, reader>>
    BY <1>0, <1>16 DEF WriteLogin, Join, Phases
  <2>2. \/ n < Len(frames) /\ UNCHANGED <<pc, poisoned, done>>
        \/ n = Len(frames) /\ pc' = "idle" /\ ~poisoned' /\ done' = Append(done, msg)
    BY <1>0, <1>16 DEF WriteLogin
  <2>7. n = Len(frames) => DropFirst(frames, n) = <<>>
    <3>1. src \in Seq(Byte)
      BY <1>0 DEF FramingTypes
    <3> QED  BY <1>0, <3>1, Moved
  <2>3. Rest = frames /\ Rest' = DropFirst(frames, n) /\ Alive /\ Alive'
    BY <2>1, <2>2, <2>7 DEF Rest, Alive
  <2>4. WriterMsg' = WriterMsg /\ WriterOff' = WriterOff
    <3>1. Len(Append(done, msg)) = Len(done) + 1
      BY <1>0 DEF FramingTypes
    <3>2. WriterOff' = WriterOff
      BY <2>1, <2>2 DEF WriterOff
    <3>3. WriterMsg' = WriterMsg
      <4>1. CASE done' = done /\ (pc' \in {"last", "login"} <=> pc \in {"last", "login"})
        BY <4>1 DEF WriterMsg
      <4>2. CASE pc \in {"last", "login"} /\ pc' = "idle" /\ done' = Append(done, msg)
        <5>1. WriterMsg' = Len(done') + 1 /\ WriterMsg = Len(done) + 2
          BY <4>2 DEF WriterMsg
        <5>2. Len(done') = Len(done) + 1
          BY <3>1, <4>2
        <5> QED  BY <1>0, <5>1, <5>2
      <4> QED  BY <2>1, <2>2, <4>1, <4>2
    <3> QED  BY <3>2, <3>3
  <2>5. \/ n < Len(Rest) /\ done' = done /\ MayEnd' = MayEnd
        \/ done' = Append(done, msg) /\ ~MayEnd'
    BY <2>2, <2>3 DEF MayEnd
  <2>6. n \in 1..Len(Rest) /\ src' = Join(src, Take(Rest, n)) /\ Rest' = DropFirst(Rest, n)
    BY <2>1, <2>3
  <2> QED  BY <1>0, <2>1, <2>3, <2>4, <2>5, <2>6, ReaderMoves
<1>17. CASE Drop
  <2>1. /\ pc' \in {"idle", "bulk"} /\ poisoned /\ poisoned'
        /\ UNCHANGED <<done, msg, received, acc, reader, src>>
    BY <1>0, <1>17 DEF Drop, Phases, readerVars
  <2>2. ~Alive' /\ MayEnd'
    BY <2>1 DEF Alive, MayEnd
  <2> QED  BY <1>0, <2>1, <2>2, ReaderLoses
<1>23. CASE Abandon
  <2>1. /\ pc = "bulk" /\ pc' = "idle" /\ (poisoned \/ Len(todo) = Len(msg))
        /\ UNCHANGED <<poisoned, wbuf, frames, done, msg, received, acc, reader, src, open>>
    BY <1>23 DEF Abandon, readerVars
  <2>2. CASE poisoned
    <3>1. ~Alive' /\ MayEnd'
      BY <2>1, <2>2 DEF Alive, MayEnd
    <3> QED  BY <1>0, <2>1, <3>1, ReaderLoses
  \* Nothing of the load is written: the next message begins where it did.
  <2>3. CASE ~poisoned
    <3>1. Alive /\ Alive' /\ ~MayEnd
      BY <2>1, <2>3 DEF Alive, MayEnd
    <3>2. Len(msg) - Len(todo) = 0
      BY <1>0, <2>1, <2>3
    <3>3. WriterMsg' = WriterMsg /\ WriterOff' = WriterOff
      BY <2>1, <3>2 DEF WriterMsg, WriterOff
    <3>4. Pipe' = Pipe
      BY <2>1, <3>1 DEF Pipe, Rest
    <3> QED  BY <1>0, <2>1, <3>1, <3>3, <3>4, ReaderQuiet
  <2> QED  BY <2>2, <2>3
<1>18. CASE Break
  <2>1. ~open' /\ UNCHANGED <<pc, poisoned, done, msg, received, acc, reader, src>>
    BY <1>18 DEF Break, readerVars, writerVars
  <2>2. MayEnd => MayEnd'
    BY <2>1 DEF MayEnd
  <2> QED  BY <1>0, <2>1, <2>2, ReaderLoses
<1>19. CASE Malformed("bad", HeaderBytes) \/ Malformed("hdr", HeaderBytes - 1)
  <2>1. HeaderBytes \in Nat /\ HeaderBytes - 1 \in Nat /\ HeaderBytes - 1 < HeaderBytes
    BY Sizes_
  <2> QED  BY <1>19, <2>1, ReaderMalformed
<1>20. CASE DecodePacket
  BY <1>20, ReaderDecodes
<1>21. CASE DecodeError \/ DecodeEof
  <2>1. reader' # "reading"
    BY <1>21 DEF DecodeError, DecodeEof
  <2> QED  BY <2>1 DEF ReaderInv
<1>22. CASE UNCHANGED vars
  BY <1>1, <1>22 DEF vars, writerVars
<1> QED  BY <1>2, <1>5, <1>6, <1>7, <1>9, <1>10, <1>11, <1>13, <1>14, <1>15, <1>16, <1>17, <1>18,
            <1>19, <1>20, <1>21, <1>22, <1>23 DEF Next, Writer, Reader, Network


\* What is written to its end was one of the messages, and whole.
LEMMA WrittenStep ==
    ASSUME WriterInv, WrittenMsgs, [Next]_vars
    PROVE  /\ WrittenMsgs'
           /\ done' = done \/ (msg \in Messages /\ done' = Append(done, msg) /\ received' = received)
<1>1. CASE done' = done
  BY <1>1 DEF WrittenMsgs
<1>2. CASE done' # done
  <2>1. (\E n \in 1..Len(wbuf) : Flush(n)) \/ (\E n \in 1..Len(frames) : WriteLogin(n))
    BY <1>2 DEF Next, Writer, Reader, Network, SetPacketSize, BeginSend, BeginLogin, BeginAttention,
                OpenBulk, BulkRow, Finalize, WritePacket, FrameLogin, Drop, Abandon, DecodePacket, DecodeError,
                DecodeEof, Break, Malformed, vars, writerVars
  <2>2. done' = Append(done, msg) /\ received' = received /\ pc # "idle"
    BY <1>2, <2>1 DEF Flush, WriteLogin
  <2>3. /\ done \in Seq(Seq(Byte)) /\ msg \in Seq(Byte) /\ Len(done) \in Nat
        /\ Len(done) < MaxMsgs /\ msg = Prefix(Len(done) + 1, Len(msg)) /\ Len(msg) <= MaxPayload
    BY <2>2 DEF WriterInv, FramingTypes, BeingWritten
  <2>4. msg \in Messages
    <3>1. Len(msg) \in 0..MaxPayload /\ Len(done) + 1 \in 1..MaxMsgs
      BY <2>3, FramingAssumption
    <3>2. msg = [i \in 1..Len(msg) |-> Data(Len(done) + 1, i)]
      BY <2>3, Zenon DEF Prefix
    <3> DEFINE F(n, m) == [i \in 1..n |-> Data(m, i)]
    <3>3. msg = F(Len(msg), Len(done) + 1)
      BY <3>2
    <3>4. Messages = {F(n, m) : n \in 0..MaxPayload, m \in 1..MaxMsgs}
      BY DEF Messages
    <3> HIDE DEF F
    <3> QED  BY <3>1, <3>3, <3>4
  <2>5. /\ Len(done') = Len(done) + 1 /\ \A m \in 1..Len(done) : done'[m] = done[m]
        /\ done'[Len(done) + 1] = msg
    BY <2>2, <2>3, WithNext
  <2>6. ASSUME NEW m \in 1..Len(done')  PROVE done'[m] = Prefix(m, Len(done'[m]))
    <3>1. CASE m \in 1..Len(done)
      BY <2>5, <3>1 DEF WrittenMsgs
    <3>2. CASE m = Len(done) + 1
      BY <2>3, <2>5, <3>2
    <3> QED  BY <2>3, <2>5, <3>1, <3>2
  <2> QED  BY <2>2, <2>4, <2>6 DEF WrittenMsgs
<1> QED  BY <1>1, <1>2

\* The packet layer implements the channel of messages, whatever the packet
\* sizes, the length of the messages and of the rows, the pieces in which the
\* socket takes and delivers bytes, and wherever a row fails, a future is
\* dropped, the connection breaks or the peer sends something malformed; as long
\* as no bulk load is given up with a part of it written.  Nothing in the code
\* rules that out: write_packets clears poisoned after every send.
THEOREM IsChannel == ~MayAbandon /\ Spec => IsMessageChannel
<1>0. SUFFICES ASSUME ~MayAbandon  PROVE Spec => IsMessageChannel
  OBVIOUS
<1>1. Init => Channel!Init
  BY DEF Init, Channel!Init
<1>2. ChannelInv /\ [Next]_vars => [Channel!Next]_(Channel!chanVars)
  <2>1. SUFFICES ASSUME ChannelInv, [Next]_vars
                 PROVE  Channel!Next \/ (done' = done /\ received' = received)
    BY DEF Channel!chanVars
  <2>2. CASE DecodePacket
    <3>1. WriterInv'
      BY <2>1, WriterStep DEF ChannelInv
    <3>2. \/ received' = received
          \/ Len(received) < Len(done) /\ received' = Append(received, done[Len(received) + 1])
      BY <2>1, <2>2, <3>1, ReaderDecodes DEF ChannelInv
    <3>3. done' = done
      BY <2>2 DEF DecodePacket, writerVars
    <3> QED  BY <3>2, <3>3 DEF Channel!Next, Channel!Receive
  <2>3. CASE ~DecodePacket
    <3>1. received' = received
      BY <2>1, <2>3 DEF Next, Writer, Reader, Network, SetPacketSize, BeginSend, BeginLogin,
                BeginAttention, OpenBulk, BulkRow, Finalize, WritePacket, FrameLogin, Flush, WriteLogin,
                Drop, Abandon, DecodeError, DecodeEof, Break, Malformed, vars, readerVars
    <3>2. done' = done \/ (msg \in Messages /\ done' = Append(done, msg))
      BY <2>1, WrittenStep DEF ChannelInv
    <3> QED  BY <3>1, <3>2 DEF Channel!Next, Channel!Send
  <2> QED  BY <2>2, <2>3
<1>3. Init => ChannelInv
  BY WriterInit, ReaderInit DEF ChannelInv
<1>4. ChannelInv /\ [Next]_vars => ChannelInv'
  BY <1>0, WriterStep, ReaderStep, WrittenStep DEF ChannelInv
<1> QED  BY <1>1, <1>2, <1>3, <1>4, PTL DEF Spec, IsMessageChannel, Channel!Spec


==============================================================================
