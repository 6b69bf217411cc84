----------------------- MODULE TlsPreloginWrapperProofs -----------------------
(***************************************************************************)
(* The prelogin wrapper is transparent, for every length of a header and   *)
(* of the flights of the handshake, and however the socket cuts what is    *)
(* read and written.  A write cut short must leave more than a header in   *)
(* the buffer ("tail" \notin Faults); the run tls_short_write shows what   *)
(* happens otherwise.                                                      *)
(*                                                                         *)
(* Either direction carries packets, then plain bytes.  A packet says      *)
(* where the next one begins; so it is enough to say of each first byte of *)
(* a header what follows it (Shaped) and what the reader expects at the    *)
(* front (Expects).                                                        *)
(***************************************************************************)
EXTENDS TlsPreloginWrapper, TLAPS

Byte == [kind : {"tls", "hdr", "bad", "zero"}, pos : Nat, len : Nat]

\* A byte with which a packet begins, and one that promises a payload.
Begins(b) == b.kind \in {"hdr", "bad"} /\ b.pos = 1
Good(b) == b.kind = "hdr" /\ b.len > HeaderBytes

\* The n bytes of S from k on are those of the TLS stream after the q-th.
Carries(S, k, n, q) ==
    /\ k + n <= Len(S) + 1
    /\ \A j \in 0..n - 1 : S[k + j] = Tls(q + 1 + j)

\* There is a whole header at k.
HeaderAt(S, k) ==
    /\ k + HeaderBytes <= Len(S) + 1
    /\ \A j \in 0..HeaderBytes - 1 : S[k + j] = [kind |-> S[k].kind, pos |-> j + 1, len |-> S[k].len]

\* After the first q bytes of the TLS stream S goes on at p: it ends, there are
\* plain bytes to the end, or there is a packet with the next bytes.
Goes(S, p, q, sent, all) ==
    \/ p = Len(S) + 1 /\ q = sent
    \/ /\ p <= Len(S) /\ q >= all
       /\ Carries(S, p, Len(S) + 1 - p, q)
       /\ q + (Len(S) + 1 - p) = sent
    \/ /\ p <= Len(S) /\ q < all
       /\ Begins(S[p])
       /\ Good(S[p]) => S[p + HeaderBytes].pos = q + 1

\* The payload of the packet at k, and the bytes of the TLS stream before it.
PayloadLen(S, k) == S[k].len - HeaderBytes
Before(S, k) == S[k + HeaderBytes].pos - 1

\* What begins at k is a packet of the handshake, or a header no packet has.
PacketAt(S, k, sent, all) ==
    /\ HeaderAt(S, k)
    /\ Good(S[k]) =>
        /\ PayloadLen(S, k) > 0
        /\ Carries(S, k + HeaderBytes, PayloadLen(S, k), Before(S, k))
        /\ Before(S, k) + PayloadLen(S, k) <= all
        /\ Before(S, k) + PayloadLen(S, k) <= sent
        /\ Goes(S, k + HeaderBytes + PayloadLen(S, k), Before(S, k) + PayloadLen(S, k), sent, all)

Shaped(S, sent, all) == \A k \in 1..Len(S) : Begins(S[k]) => PacketAt(S, k, sent, all)

\* What S is to a reader that has the first g bytes of the TLS stream and has r
\* bytes left in its packet; sent bytes of the stream have been put into S, and
\* those after the first all are plain.
Expects(S, r, g, sent, all) ==
    /\ Shaped(S, sent, all)
    /\ Carries(S, 1, r, g)
    /\ r > 0 => g + r <= all
    /\ g + r <= sent
    /\ Goes(S, r + 1, g + r, sent, all)

AllGood(S) == \A k \in 1..Len(S) : Begins(S[k]) => Good(S[k])

-----------------------------------------------------------------------------
WrapperTypes ==
    /\ pending \in BOOLEAN /\ hdrWritten \in BOOLEAN
    /\ tls \in {"write", "flush", "read", "done", "failed", "eof"}
    /\ srvState \in {"open", "closed"}
    /\ remaining \in Nat /\ wrote \in Nat /\ srvLeft \in Nat /\ srvSent \in Nat
    /\ round \in 1..Len(Flights)
    /\ hdrBuf \in Seq(Byte) /\ wrBuf \in Seq(Byte)
    /\ outgoing \in Seq(Byte) /\ incoming \in Seq(Byte)
    /\ got \in Seq(Byte) /\ srvGot \in Seq(Byte)

Reads == tls \in {"write", "flush", "read", "done"}

\* The TLS library and the wrapper between two calls.
Progress ==
    /\ tls \in {"write", "flush", "read"} => pending
    /\ tls \in {"write", "flush", "done"} => hdrBuf = <<>> /\ remaining = 0
    /\ tls \in {"write", "flush"} =>
        /\ ClientBytes(round - 1) <= wrote /\ wrote <= ClientBytes(round)
        /\ Len(got) = ServerBytes(round - 1)
    /\ tls = "read" =>
        /\ wrote = ClientBytes(round)
        /\ ServerBytes(round - 1) <= Len(got) /\ Len(got) < ServerBytes(round)
    /\ tls = "done" =>
        /\ wrote >= AllClient /\ (pending => wrote = AllClient)
        /\ Len(got) >= AllServer

\* The buffer of the writer holds a packet without its header, or what a short
\* write has left of one.
Buffered ==
    /\ hdrWritten => tls \in {"flush", "failed"} /\ Len(wrBuf) > HeaderBytes
    /\ ~hdrWritten =>
        /\ Len(wrBuf) >= HeaderBytes /\ Len(wrBuf) - HeaderBytes <= wrote
        /\ \A j \in 1..HeaderBytes : wrBuf[j] = Zeros[j]
        /\ \A j \in HeaderBytes + 1..Len(wrBuf) : wrBuf[j] = Tls(wrote - Len(wrBuf) + j)
    /\ tls \in {"read", "done"} => wrBuf = Zeros

\* The server answers only what it has received.
Answers ==
    \A i \in 1..Len(Flights) : Len(srvGot) < ClientBytes(i) => srvSent <= ServerBytes(i - 1)

\* One after the other; a name of its own keeps the provers from looking inside.
Join(s, t) == s \o t

\* The bytes that poll_read will look at, and those the server will.
Inbound == IF remaining > 0 THEN incoming ELSE Join(hdrBuf, incoming)
Outbound == Join(outgoing, IF hdrWritten THEN wrBuf ELSE <<>>)

\* Bytes of the TLS stream that are in a packet.
Packed == IF hdrWritten THEN wrote ELSE wrote - (Len(wrBuf) - HeaderBytes)

InboundInv ==
    /\ \A j \in 1..Len(got) : got[j] = Tls(j)
    /\ Reads =>
        /\ IF remaining > 0 THEN Len(hdrBuf) = HeaderBytes ELSE Len(hdrBuf) < HeaderBytes
        /\ Expects(Inbound, remaining, Len(got), srvSent, AllServer)

OutboundInv ==
    /\ \A j \in 1..Len(srvGot) : srvGot[j] = Tls(j)
    /\ Expects(Outbound, srvLeft, Len(srvGot), Packed, AllClient)
    /\ AllGood(Outbound)

WrapperInv ==
    WrapperTypes /\ Progress /\ Buffered /\ Answers /\ InboundInv /\ OutboundInv

-----------------------------------------------------------------------------
(* Sequences of bytes                                                       *)

LEMMA Sizes == HeaderBytes \in Nat /\ HeaderBytes > 0
BY WrapperAssumption

LEMMA ByteAt ==
    ASSUME NEW S \in Seq(Byte), NEW k \in 1..Len(S)
    PROVE  S[k] \in Byte /\ S[k].pos \in Nat /\ S[k].len \in Nat
<1>1. S[k] \in Byte
  OBVIOUS
<1> QED  BY <1>1 DEF Byte

\* T is what is left of S when d bytes have been taken off; T begins with S.
IsRest(T, S, d) == Len(T) = Len(S) - d /\ \A i \in 1..Len(T) : T[i] = S[i + d]
BeginsWith(T, S) == Len(S) <= Len(T) /\ \A i \in 1..Len(S) : T[i] = S[i]

LEMMA CarriesRest ==
    ASSUME NEW S \in Seq(Byte), NEW T \in Seq(Byte), NEW d \in Nat, IsRest(T, S, d),
           NEW k \in Int, NEW n \in Int, NEW q \in Int, k > d, Carries(S, k, n, q)
    PROVE  Carries(T, k - d, n, q)
<1>1. (k - d) + n <= Len(T) + 1
  BY DEF Carries, IsRest
<1>2. ASSUME NEW j \in 0..n - 1  PROVE T[(k - d) + j] = Tls(q + 1 + j)
  <2>1. S[k + j] = Tls(q + 1 + j)
    BY DEF Carries
  <2>2. (k - d) + j \in 1..Len(T) /\ ((k - d) + j) + d = k + j
    BY <1>1
  <2>3. T[(k - d) + j] = S[((k - d) + j) + d]
    BY <2>2 DEF IsRest
  <2> QED  BY <2>1, <2>2, <2>3
<1> QED  BY <1>1, <1>2 DEF Carries

LEMMA CarriesOn ==
    ASSUME NEW S \in Seq(Byte), NEW T \in Seq(Byte), BeginsWith(T, S),
           NEW k \in Int, NEW n \in Int, NEW q \in Int, k >= 1, Carries(S, k, n, q)
    PROVE  Carries(T, k, n, q)
<1>1. k + n <= Len(S) + 1 /\ Len(S) <= Len(T)
  BY DEF Carries, BeginsWith
<1>2. ASSUME NEW j \in 0..n - 1  PROVE T[k + j] = Tls(q + 1 + j)
  <2>1. S[k + j] = Tls(q + 1 + j)
    BY DEF Carries
  <2>2. k + j \in 1..Len(S)
    BY <1>1
  <2>3. T[k + j] = S[k + j]
    BY <2>2 DEF BeginsWith
  <2> QED  BY <2>1, <2>3
<1>3. k + n <= Len(T) + 1
  BY <1>1
<1> QED  BY <1>2, <1>3 DEF Carries

LEMMA HeaderRest ==
    ASSUME NEW S \in Seq(Byte), NEW T \in Seq(Byte), NEW d \in Nat, IsRest(T, S, d),
           NEW k \in Int, k > d, HeaderAt(S, k)
    PROVE  HeaderAt(T, k - d)
<1>1. (k - d) + HeaderBytes <= Len(T) + 1
  BY Sizes DEF HeaderAt, IsRest
<1>2. ASSUME NEW j \in 0..HeaderBytes - 1  PROVE T[(k - d) + j] = S[k + j]
  <2>1. (k - d) + j \in 1..Len(T) /\ ((k - d) + j) + d = k + j
    BY <1>1, Sizes
  <2>2. T[(k - d) + j] = S[((k - d) + j) + d]
    BY <2>1 DEF IsRest
  <2> QED  BY <2>1, <2>2
<1>3. T[k - d] = S[k]
  <2>1. k - d \in 1..Len(T) /\ (k - d) + d = k
    BY <1>1, Sizes
  <2> QED  BY <2>1 DEF IsRest
<1> QED  BY <1>1, <1>2, <1>3 DEF HeaderAt

LEMMA HeaderOn ==
    ASSUME NEW S \in Seq(Byte), NEW T \in Seq(Byte), BeginsWith(T, S),
           NEW k \in Int, k >= 1, HeaderAt(S, k)
    PROVE  HeaderAt(T, k)
<1>1. k + HeaderBytes <= Len(S) + 1 /\ Len(S) <= Len(T)
  BY DEF HeaderAt, BeginsWith
<1>2. ASSUME NEW j \in 0..HeaderBytes - 1  PROVE T[k + j] = S[k + j]
  <2>1. k + j \in 1..Len(S)
    BY <1>1, Sizes
  <2> QED  BY <2>1 DEF BeginsWith
<1>3. T[k] = S[k]
  <2>1. k \in 1..Len(S)
    BY <1>1, Sizes
  <2> QED  BY <2>1 DEF BeginsWith
<1>4. k + HeaderBytes <= Len(T) + 1
  BY <1>1, Sizes
<1> QED  BY <1>2, <1>3, <1>4 DEF HeaderAt

\* The first byte of the payload of a packet is there.
LEMMA PayloadBegins ==
    ASSUME NEW S \in Seq(Byte), NEW sent \in Nat, NEW all \in Nat, NEW k \in 1..Len(S),
           PacketAt(S, k, sent, all), Good(S[k])
    PROVE  /\ k + HeaderBytes \in 1..Len(S)
           /\ PayloadLen(S, k) \in Nat /\ PayloadLen(S, k) > 0
           /\ Before(S, k) \in Int
<1>1. S[k].len \in Nat
  BY ByteAt
<1>2. PayloadLen(S, k) \in Int /\ PayloadLen(S, k) > 0
  BY <1>1, Sizes DEF PacketAt, PayloadLen
<1>3. k + HeaderBytes + PayloadLen(S, k) <= Len(S) + 1
  BY DEF PacketAt, Carries
<1>4. k + HeaderBytes \in 1..Len(S)
  BY <1>2, <1>3, Sizes
<1>5. Before(S, k) \in Int
  BY <1>4, ByteAt DEF Before
<1> QED  BY <1>2, <1>4, <1>5

LEMMA GoesRest ==
    ASSUME NEW S \in Seq(Byte), NEW T \in Seq(Byte), NEW d \in Nat, IsRest(T, S, d),
           NEW sent \in Nat, NEW all \in Nat, Shaped(S, sent, all),
           NEW p \in Int, NEW q \in Int, p > d, Goes(S, p, q, sent, all)
    PROVE  Goes(T, p - d, q, sent, all)
<1>1. Len(T) = Len(S) - d
  BY DEF IsRest
<1>2. CASE p = Len(S) + 1 /\ q = sent
  BY <1>1, <1>2 DEF Goes
<1>3. CASE /\ p <= Len(S) /\ q >= all
           /\ Carries(S, p, Len(S) + 1 - p, q)
           /\ q + (Len(S) + 1 - p) = sent
  <2>1. Len(T) + 1 - (p - d) = Len(S) + 1 - p /\ p - d <= Len(T)
    BY <1>1, <1>3
  <2>2. Carries(T, p - d, Len(S) + 1 - p, q)
    BY <1>3, CarriesRest
  <2> QED  BY <1>3, <2>1, <2>2 DEF Goes
<1>4. CASE /\ p <= Len(S) /\ q < all
           /\ Begins(S[p])
           /\ Good(S[p]) => S[p + HeaderBytes].pos = q + 1
  <2>1. p - d <= Len(T) /\ p - d \in 1..Len(T) /\ (p - d) + d = p /\ p \in 1..Len(S)
    BY <1>1, <1>4
  <2>2. T[p - d] = S[p]
    BY <2>1 DEF IsRest
  <2>3. ASSUME Good(S[p])  PROVE T[(p - d) + HeaderBytes] = S[p + HeaderBytes]
    <3>1. PacketAt(S, p, sent, all)
      BY <1>4, <2>1 DEF Shaped
    <3>2. p + HeaderBytes \in 1..Len(S)
      BY <2>1, <2>3, <3>1, PayloadBegins
    <3>3. (p - d) + HeaderBytes \in 1..Len(T) /\ ((p - d) + HeaderBytes) + d = p + HeaderBytes
      BY <1>1, <2>1, <3>2, Sizes
    <3> QED  BY <3>3 DEF IsRest
  <2> QED  BY <1>4, <2>1, <2>2, <2>3 DEF Goes
<1> QED  BY <1>2, <1>3, <1>4 DEF Goes

\* What is left of a stream of packets is one.
LEMMA ShapedRest ==
    ASSUME NEW S \in Seq(Byte), NEW T \in Seq(Byte), NEW d \in Nat, IsRest(T, S, d),
           NEW sent \in Nat, NEW all \in Nat, Shaped(S, sent, all)
    PROVE  Shaped(T, sent, all)
<1>1. SUFFICES ASSUME NEW k \in 1..Len(T), Begins(T[k])  PROVE PacketAt(T, k, sent, all)
  BY DEF Shaped
<1>2. T[k] = S[k + d] /\ Len(T) = Len(S) - d
  BY DEF IsRest
<1>3. k + d \in 1..Len(S) /\ k + d > d /\ (k + d) - d = k /\ k + d \in Int
  BY <1>2
<1>4. PacketAt(S, k + d, sent, all)
  BY <1>1, <1>2, <1>3 DEF Shaped
<1>5. HeaderAt(T, k)
  <2>1. HeaderAt(S, k + d)
    BY <1>4 DEF PacketAt
  <2>2. HeaderAt(T, (k + d) - d)
    BY <1>3, <2>1, HeaderRest
  <2> QED  BY <1>3, <2>2
<1>6. CASE Good(T[k])
  <2> DEFINE n == PayloadLen(S, k + d)
             q == Before(S, k + d)
  <2>1. /\ k + d + HeaderBytes \in 1..Len(S)
        /\ n \in Nat /\ n > 0 /\ q \in Int
    BY <1>2, <1>3, <1>4, <1>6, PayloadBegins
  <2>2. /\ Carries(S, k + d + HeaderBytes, n, q)
        /\ q + n <= all /\ q + n <= sent
        /\ Goes(S, k + d + HeaderBytes + n, q + n, sent, all)
    BY <1>2, <1>4, <1>6 DEF PacketAt
  <2>3. k + HeaderBytes \in 1..Len(T) /\ (k + HeaderBytes) + d = k + d + HeaderBytes
    BY <1>2, <2>1, Sizes
  <2>4. T[k + HeaderBytes] = S[k + d + HeaderBytes]
    BY <2>3 DEF IsRest
  <2>5. PayloadLen(T, k) = n /\ Before(T, k) = q
    BY <1>2, <2>4 DEF PayloadLen, Before
  <2> HIDE DEF n, q
  <2>6. Carries(T, k + HeaderBytes, n, q)
    <3>1. Carries(T, (k + d + HeaderBytes) - d, n, q)
      BY <2>1, <2>2, <2>3, CarriesRest
    <3>2. (k + d + HeaderBytes) - d = k + HeaderBytes
      BY Sizes
    <3> QED  BY <3>1, <3>2
  <2>7. Goes(T, k + HeaderBytes + n, q + n, sent, all)
    <3>1. /\ k + d + HeaderBytes + n \in Int /\ q + n \in Int
          /\ k + d + HeaderBytes + n > d
          /\ (k + d + HeaderBytes + n) - d = k + HeaderBytes + n
      BY <2>1, Sizes
    <3>2. Goes(T, (k + d + HeaderBytes + n) - d, q + n, sent, all)
      BY <2>2, <3>1, GoesRest
    <3> QED  BY <3>1, <3>2
  <2> QED  BY <1>5, <2>1, <2>2, <2>5, <2>6, <2>7 DEF PacketAt
<1> QED  BY <1>5, <1>6 DEF PacketAt

\* T is S with more bytes, after which sent2 bytes of the TLS stream are in it.
Longer(T, S, sent, sent2, all) ==
    /\ BeginsWith(T, S) /\ sent <= sent2
    /\ Goes(T, Len(S) + 1, sent, sent2, all)
    /\ \A k \in Len(S) + 1..Len(T) : Begins(T[k]) => PacketAt(T, k, sent2, all)

LEMMA GoesOn ==
    ASSUME NEW S \in Seq(Byte), NEW T \in Seq(Byte), NEW all \in Nat,
           NEW sent \in Nat, NEW sent2 \in Nat, Longer(T, S, sent, sent2, all),
           Shaped(S, sent, all),
           NEW p \in Int, NEW q \in Int, p >= 1, Goes(S, p, q, sent, all)
    PROVE  Goes(T, p, q, sent2, all)
<1>1. BeginsWith(T, S) /\ Goes(T, Len(S) + 1, sent, sent2, all) /\ Len(S) <= Len(T)
  BY DEF Longer, BeginsWith
<1>2. CASE p = Len(S) + 1 /\ q = sent
  BY <1>1, <1>2
<1>3. CASE /\ p <= Len(S) /\ q >= all
           /\ Carries(S, p, Len(S) + 1 - p, q)
           /\ q + (Len(S) + 1 - p) = sent
  <2>1. \/ Len(S) + 1 = Len(T) + 1 /\ sent = sent2
        \/ /\ Carries(T, Len(S) + 1, Len(T) + 1 - (Len(S) + 1), sent)
           /\ sent + (Len(T) + 1 - (Len(S) + 1)) = sent2
    BY <1>1, <1>3 DEF Goes
  <2>2. q + (Len(T) + 1 - p) = sent2 /\ p <= Len(T)
    BY <1>1, <1>3, <2>1
  <2>3. ASSUME NEW j \in 0..(Len(T) + 1 - p) - 1  PROVE T[p + j] = Tls(q + 1 + j)
    <3>1. CASE p + j <= Len(S)
      <4>1. j \in 0..(Len(S) + 1 - p) - 1 /\ p + j \in 1..Len(S)
        BY <3>1
      <4>2. S[p + j] = Tls(q + 1 + j)
        BY <1>3, <4>1 DEF Carries
      <4> QED  BY <1>1, <4>1, <4>2 DEF BeginsWith
    <3>2. CASE p + j > Len(S)
      <4> DEFINE i == p + j - (Len(S) + 1)
      <4>1. Len(S) # Len(T)
        BY <1>1, <2>2, <3>2
      <4>2. Carries(T, Len(S) + 1, Len(T) + 1 - (Len(S) + 1), sent)
        BY <2>1, <4>1
      <4>3. i \in 0..(Len(T) + 1 - (Len(S) + 1)) - 1 /\ (Len(S) + 1) + i = p + j /\ sent + 1 + i = q + 1 + j
        BY <1>1, <1>3, <2>2, <3>2
      <4> HIDE DEF i
      <4>4. T[(Len(S) + 1) + i] = Tls(sent + 1 + i)
        BY <4>2, <4>3 DEF Carries
      <4> QED  BY <4>3, <4>4
    <3> QED  BY <3>1, <3>2
  <2>4. Carries(T, p, Len(T) + 1 - p, q)
    BY <2>3 DEF Carries
  <2> QED  BY <1>3, <2>2, <2>4 DEF Goes
<1>4. CASE /\ p <= Len(S) /\ q < all
           /\ Begins(S[p])
           /\ Good(S[p]) => S[p + HeaderBytes].pos = q + 1
  <2>1. p <= Len(T) /\ p \in 1..Len(S)
    BY <1>1, <1>4
  <2>2. T[p] = S[p]
    BY <1>1, <2>1 DEF BeginsWith
  <2>3. ASSUME Good(S[p])  PROVE T[p + HeaderBytes] = S[p + HeaderBytes]
    <3>1. PacketAt(S, p, sent, all)
      BY <1>4, <2>1 DEF Shaped
    <3>2. p + HeaderBytes \in 1..Len(S)
      BY <2>1, <2>3, <3>1, PayloadBegins
    <3> QED  BY <1>1, <3>2 DEF BeginsWith
  <2> QED  BY <1>4, <2>1, <2>2, <2>3 DEF Goes
<1> QED  BY <1>2, <1>3, <1>4 DEF Goes

\* A stream that is added to goes on as before.
LEMMA ExpectsOn ==
    ASSUME NEW S \in Seq(Byte), NEW T \in Seq(Byte), NEW all \in Nat,
           NEW sent \in Nat, NEW sent2 \in Nat, Longer(T, S, sent, sent2, all),
           NEW r \in Nat, NEW g \in Nat, Expects(S, r, g, sent, all)
    PROVE  Expects(T, r, g, sent2, all)
<1>1. BeginsWith(T, S) /\ sent <= sent2 /\ Shaped(S, sent, all)
  BY DEF Longer, Expects
<1>2. Carries(T, 1, r, g)
  <2>1. Carries(S, 1, r, g)
    BY DEF Expects
  <2> QED  BY <1>1, <2>1, CarriesOn
<1>3. Goes(T, r + 1, g + r, sent2, all)
  <2>1. Goes(S, r + 1, g + r, sent, all)
    BY DEF Expects
  <2>2. r + 1 \in Int /\ g + r \in Int /\ r + 1 >= 1
    OBVIOUS
  <2> QED  BY <1>1, <2>1, <2>2, GoesOn
<1>4. ASSUME NEW k \in 1..Len(T), Begins(T[k])  PROVE PacketAt(T, k, sent2, all)
  <2>1. CASE k > Len(S)
    BY <1>4, <2>1 DEF Longer
  <2>2. CASE k <= Len(S)
    <3>1. k \in 1..Len(S) /\ k >= 1 /\ k \in Int
      BY <2>2
    <3>2. T[k] = S[k]
      BY <1>1, <3>1 DEF BeginsWith
    <3>3. PacketAt(S, k, sent, all)
      BY <1>1, <1>4, <3>1, <3>2 DEF Shaped
    <3>4. HeaderAt(T, k)
      <4>1. HeaderAt(S, k)
        BY <3>3 DEF PacketAt
      <4> QED  BY <1>1, <3>1, <4>1, HeaderOn
    <3>5. CASE Good(S[k])
      <4> DEFINE n == PayloadLen(S, k)
                 q == Before(S, k)
      <4>1. k + HeaderBytes \in 1..Len(S) /\ n \in Nat /\ n > 0 /\ q \in Int
        BY <3>1, <3>3, <3>5, PayloadBegins
      <4>2. /\ Carries(S, k + HeaderBytes, n, q)
            /\ q + n <= all /\ q + n <= sent
            /\ Goes(S, k + HeaderBytes + n, q + n, sent, all)
        BY <3>3, <3>5 DEF PacketAt
      <4>3. T[k + HeaderBytes] = S[k + HeaderBytes]
        BY <1>1, <4>1 DEF BeginsWith
      <4>4. PayloadLen(T, k) = n /\ Before(T, k) = q
        BY <3>2, <4>3 DEF PayloadLen, Before
      <4> HIDE DEF n, q
      <4>5. Carries(T, k + HeaderBytes, n, q)
        BY <1>1, <4>1, <4>2, CarriesOn
      <4>6. k + HeaderBytes + n \in Int /\ q + n \in Int /\ k + HeaderBytes + n >= 1
        BY <4>1
      <4>7. Goes(T, k + HeaderBytes + n, q + n, sent2, all)
        BY <1>1, <4>2, <4>6, GoesOn
      <4>8. q + n <= sent2
        BY <1>1, <4>1, <4>2
      <4> QED  BY <3>4, <4>1, <4>2, <4>4, <4>5, <4>7, <4>8 DEF PacketAt
    <3> QED  BY <3>2, <3>4, <3>5 DEF PacketAt
  <2> QED  BY <2>1, <2>2
<1>5. (r > 0 => g + r <= all) /\ g + r <= sent
  BY DEF Expects
<1>6. g + r <= sent2
  BY <1>1, <1>5
<1> QED  BY <1>2, <1>3, <1>4, <1>5, <1>6 DEF Expects, Shaped

-----------------------------------------------------------------------------
(* What is put at the end of a stream                                       *)

LEMMA TlsByte ==
    ASSUME NEW i \in Nat
    PROVE  Tls(i) \in Byte /\ ~Begins(Tls(i)) /\ Tls(i).pos = i
BY DEF Tls, Byte, Begins

\* A packet with the next n bytes.
LEMMA LongerPacket ==
    ASSUME NEW S \in Seq(Byte), NEW T \in Seq(Byte), NEW all \in Nat, NEW sent \in Nat,
           NEW n \in Nat, n > 0, sent + n <= all, BeginsWith(T, S),
           Len(T) = Len(S) + HeaderBytes + n,
           \A j \in 1..HeaderBytes :
               T[Len(S) + j] = [kind |-> "hdr", pos |-> j, len |-> HeaderBytes + n],
           \A j \in 1..n : T[Len(S) + HeaderBytes + j] = Tls(sent + j)
    PROVE  /\ Longer(T, S, sent, sent + n, all)
           /\ AllGood(S) => AllGood(T)
<1> DEFINE k == Len(S) + 1
<1>1. /\ k \in 1..Len(T) /\ k \in Int /\ k >= 1
      /\ k + HeaderBytes \in 1..Len(T)
      /\ k + HeaderBytes + n = Len(T) + 1
  BY Sizes
<1>2. T[k] = [kind |-> "hdr", pos |-> 1, len |-> HeaderBytes + n]
  <2>1. 1 \in 1..HeaderBytes
    BY Sizes
  <2> QED  BY <2>1
<1>3. T[k].kind = "hdr" /\ T[k].pos = 1 /\ T[k].len = HeaderBytes + n
  BY <1>2
<1>4. Begins(T[k]) /\ Good(T[k]) /\ PayloadLen(T, k) = n
  BY <1>3, Sizes DEF Begins, Good, PayloadLen
<1>5. T[k + HeaderBytes] = Tls(sent + 1)
  <2>1. 1 \in 1..n /\ Len(S) + HeaderBytes + 1 = k + HeaderBytes
    BY Sizes
  <2>2. T[Len(S) + HeaderBytes + 1] = Tls(sent + 1)
    BY <2>1
  <2> QED  BY <2>1, <2>2
<1>6. Before(T, k) = sent /\ T[k + HeaderBytes].pos = sent + 1
  <2>1. Tls(sent + 1).pos = sent + 1
    BY TlsByte
  <2>2. T[k + HeaderBytes].pos = sent + 1
    BY <1>5, <2>1
  <2> QED  BY <2>2 DEF Before
<1>7. Carries(T, k + HeaderBytes, n, sent)
  <2>1. ASSUME NEW j \in 0..n - 1  PROVE T[k + HeaderBytes + j] = Tls(sent + 1 + j)
    <3>1. j + 1 \in 1..n /\ Len(S) + HeaderBytes + (j + 1) = k + HeaderBytes + j
                /\ sent + (j + 1) = sent + 1 + j
      <4>1. j + 1 \in 1..n
        OBVIOUS
      <4>2. Len(S) + HeaderBytes + (j + 1) = k + HeaderBytes + j
        BY Sizes
      <4>3. sent + (j + 1) = sent + 1 + j
        OBVIOUS
      <4> QED  BY <4>1, <4>2, <4>3
    <3>2. T[Len(S) + HeaderBytes + (j + 1)] = Tls(sent + (j + 1))
      BY <3>1
    <3> QED  BY <3>1, <3>2
  <2>2. k + HeaderBytes + n <= Len(T) + 1
    BY <1>1
  <2> HIDE DEF k
  <2> QED  BY <2>1, <2>2 DEF Carries
<1>8. HeaderAt(T, k)
  <2>1. ASSUME NEW j \in 0..HeaderBytes - 1
        PROVE  T[k + j] = [kind |-> T[k].kind, pos |-> j + 1, len |-> T[k].len]
    <3>1. j + 1 \in 1..HeaderBytes /\ Len(S) + (j + 1) = k + j
      BY Sizes
    <3>2. T[Len(S) + (j + 1)] = [kind |-> "hdr", pos |-> j + 1, len |-> HeaderBytes + n]
      BY <3>1
    <3> QED  BY <1>3, <3>1, <3>2
  <2>2. k + HeaderBytes <= Len(T) + 1
    BY <1>1
  <2> HIDE DEF k
  <2> QED  BY <2>1, <2>2 DEF HeaderAt
<1>9. PacketAt(T, k, sent + n, all)
  <2>1. Goes(T, k + HeaderBytes + n, sent + n, sent + n, all)
    BY <1>1 DEF Goes
  <2>2. sent + n <= sent + n
    OBVIOUS
  <2> HIDE DEF k
  <2> QED  BY <1>4, <1>6, <1>7, <1>8, <2>1, <2>2 DEF PacketAt
<1>10. Goes(T, k, sent, sent + n, all)
  <2>1. k <= Len(T) /\ sent < all
    BY <1>1
  <2> HIDE DEF k
  <2> QED  BY <1>4, <1>6, <2>1 DEF Goes
<1>11. ASSUME NEW j \in Len(S) + 1..Len(T), Begins(T[j])  PROVE j = k
  <2>1. CASE j <= Len(S) + HeaderBytes
    <3>1. j - Len(S) \in 1..HeaderBytes /\ Len(S) + (j - Len(S)) = j
      BY <2>1, Sizes
    <3>2. T[Len(S) + (j - Len(S))] = [kind |-> "hdr", pos |-> j - Len(S), len |-> HeaderBytes + n]
      BY <3>1
    <3>3. T[j].pos = j - Len(S)
      BY <3>1, <3>2
    <3>4. T[j].pos = 1
      BY <1>11 DEF Begins
    <3> QED  BY <3>3, <3>4
  <2>2. CASE j > Len(S) + HeaderBytes
    <3> DEFINE i == j - (Len(S) + HeaderBytes)
    <3>1. i \in 1..n /\ Len(S) + HeaderBytes + i = j /\ sent + i \in Nat
      BY <2>2, Sizes
    <3> HIDE DEF i
    <3>2. T[Len(S) + HeaderBytes + i] = Tls(sent + i)
      BY <3>1
    <3>3. ~Begins(T[j])
      BY <3>1, <3>2, TlsByte
    <3> QED  BY <1>11, <3>3
  <2> QED  BY <2>1, <2>2, Sizes
<1>12. Longer(T, S, sent, sent + n, all)
  <2>1. sent <= sent + n
    OBVIOUS
  <2> QED  BY <1>9, <1>10, <1>11, <2>1 DEF Longer
<1>13. ASSUME AllGood(S)  PROVE AllGood(T)
  <2>1. SUFFICES ASSUME NEW j \in 1..Len(T), Begins(T[j])  PROVE Good(T[j])
    BY DEF AllGood
  <2>2. CASE j <= Len(S)
    <3>1. j \in 1..Len(S)
      BY <2>2
    <3>2. T[j] = S[j]
      BY <3>1 DEF BeginsWith
    <3> QED  BY <1>13, <2>1, <3>1, <3>2 DEF AllGood
  <2>3. CASE j > Len(S)
    <3>1. j \in Len(S) + 1..Len(T)
      BY <2>3
    <3> QED  BY <1>4, <1>11, <2>1, <3>1
  <2> QED  BY <2>2, <2>3
<1> QED  BY <1>12, <1>13

\* A header that is no prelogin packet's.
LEMMA LongerBad ==
    ASSUME NEW S \in Seq(Byte), NEW T \in Seq(Byte), NEW all \in Nat, NEW sent \in Nat,
           sent < all, BeginsWith(T, S), Len(T) = Len(S) + HeaderBytes,
           NEW kind \in {"hdr", "bad"}, NEW len \in Nat, kind = "hdr" => len <= HeaderBytes,
           \A j \in 1..HeaderBytes : T[Len(S) + j] = [kind |-> kind, pos |-> j, len |-> len]
    PROVE  Longer(T, S, sent, sent, all)
<1> DEFINE k == Len(S) + 1
<1>1. k \in 1..Len(T) /\ k \in Int /\ k + HeaderBytes = Len(T) + 1
  BY Sizes
<1>2. T[k].kind = kind /\ T[k].pos = 1 /\ T[k].len = len
  <2>1. 1 \in 1..HeaderBytes
    BY Sizes
  <2>2. T[k] = [kind |-> kind, pos |-> 1, len |-> len]
    BY <2>1
  <2> QED  BY <2>2
<1>3. Begins(T[k]) /\ ~Good(T[k])
  BY <1>2, Sizes DEF Begins, Good
<1>4. HeaderAt(T, k)
  <2>1. ASSUME NEW j \in 0..HeaderBytes - 1
        PROVE  T[k + j] = [kind |-> T[k].kind, pos |-> j + 1, len |-> T[k].len]
    <3>1. j + 1 \in 1..HeaderBytes /\ Len(S) + (j + 1) = k + j
      BY Sizes
    <3>2. T[Len(S) + (j + 1)] = [kind |-> kind, pos |-> j + 1, len |-> len]
      BY <3>1
    <3> QED  BY <1>2, <3>1, <3>2
  <2>2. k + HeaderBytes <= Len(T) + 1
    BY <1>1
  <2> HIDE DEF k
  <2> QED  BY <2>1, <2>2 DEF HeaderAt
<1>5. PacketAt(T, k, sent, all)
  BY <1>3, <1>4 DEF PacketAt
<1>6. Goes(T, k, sent, sent, all)
  <2>1. k <= Len(T)
    BY <1>1
  <2> HIDE DEF k
  <2> QED  BY <1>3, <2>1 DEF Goes
<1>7. ASSUME NEW j \in Len(S) + 1..Len(T), Begins(T[j])  PROVE j = k
  <2>1. j - Len(S) \in 1..HeaderBytes /\ Len(S) + (j - Len(S)) = j
    BY Sizes
  <2>2. T[Len(S) + (j - Len(S))] = [kind |-> kind, pos |-> j - Len(S), len |-> len]
    BY <2>1
  <2>3. T[j].pos = j - Len(S)
    BY <2>1, <2>2
  <2>4. T[j].pos = 1
    BY <1>7 DEF Begins
  <2> QED  BY <2>3, <2>4
<1>8. sent <= sent
  OBVIOUS
<1> QED  BY <1>5, <1>6, <1>7, <1>8 DEF Longer

\* The next n bytes, after the handshake.
LEMMA LongerRaw ==
    ASSUME NEW S \in Seq(Byte), NEW T \in Seq(Byte), NEW all \in Nat, NEW sent \in Nat,
           NEW n \in Nat, n > 0, sent >= all, BeginsWith(T, S), Len(T) = Len(S) + n,
           \A j \in 1..n : T[Len(S) + j] = Tls(sent + j)
    PROVE  /\ Longer(T, S, sent, sent + n, all)
           /\ AllGood(S) => AllGood(T)
<1> DEFINE k == Len(S) + 1
<1>1. Carries(T, k, Len(T) + 1 - k, sent)
  <2>1. Len(T) + 1 - k = n /\ k + n <= Len(T) + 1
    OBVIOUS
  <2>2. ASSUME NEW j \in 0..n - 1  PROVE T[k + j] = Tls(sent + 1 + j)
    <3>1. j + 1 \in 1..n /\ Len(S) + (j + 1) = k + j /\ sent + (j + 1) = sent + 1 + j
      OBVIOUS
    <3>2. T[Len(S) + (j + 1)] = Tls(sent + (j + 1))
      BY <3>1
    <3> QED  BY <3>1, <3>2
  <2> HIDE DEF k
  <2> QED  BY <2>1, <2>2 DEF Carries
<1>2. Goes(T, k, sent, sent + n, all)
  <2>1. k <= Len(T) /\ sent + (Len(T) + 1 - k) = sent + n
    OBVIOUS
  <2> HIDE DEF k
  <2> QED  BY <1>1, <2>1 DEF Goes
<1>3. ASSUME NEW j \in Len(S) + 1..Len(T)  PROVE ~Begins(T[j])
  <2> DEFINE i == j - Len(S)
  <2>1. i \in 1..n /\ Len(S) + i = j /\ sent + i \in Nat
    OBVIOUS
  <2> HIDE DEF i
  <2>2. T[Len(S) + i] = Tls(sent + i)
    BY <2>1
  <2> QED  BY <2>1, <2>2, TlsByte
<1>4. Longer(T, S, sent, sent + n, all)
  <2>1. sent <= sent + n
    OBVIOUS
  <2> QED  BY <1>2, <1>3, <2>1 DEF Longer
<1>5. ASSUME AllGood(S)  PROVE AllGood(T)
  <2>1. SUFFICES ASSUME NEW j \in 1..Len(T), Begins(T[j])  PROVE Good(T[j])
    BY DEF AllGood
  <2>2. j \in 1..Len(S)
    BY <1>3, <2>1
  <2>3. T[j] = S[j]
    BY <2>2 DEF BeginsWith
  <2> QED  BY <1>5, <2>1, <2>2, <2>3 DEF AllGood
<1> QED  BY <1>4, <1>5

-----------------------------------------------------------------------------
(* What is taken off the front of a stream                                  *)

LEMMA AllGoodRest ==
    ASSUME NEW S \in Seq(Byte), NEW T \in Seq(Byte), NEW d \in Nat, IsRest(T, S, d), AllGood(S)
    PROVE  AllGood(T)
<1>1. SUFFICES ASSUME NEW k \in 1..Len(T), Begins(T[k])  PROVE Good(T[k])
  BY DEF AllGood
<1>2. T[k] = S[k + d] /\ Len(T) = Len(S) - d
  BY DEF IsRest
<1>3. k + d \in 1..Len(S)
  BY <1>2
<1> QED  BY <1>1, <1>2, <1>3 DEF AllGood

\* The header of a packet.
LEMMA TakeHeader ==
    ASSUME NEW S \in Seq(Byte), NEW sent \in Nat, NEW all \in Nat, NEW g \in Nat,
           Expects(S, 0, g, sent, all), g < all, Len(S) > 0
    PROVE  /\ HeaderAt(S, 1) /\ Begins(S[1])
           /\ Good(S[1]) =>
                /\ S[1].len - HeaderBytes \in Nat /\ S[1].len - HeaderBytes > 0
                /\ \A T \in Seq(Byte) : IsRest(T, S, HeaderBytes) =>
                       Expects(T, S[1].len - HeaderBytes, g, sent, all)
<1>1. Goes(S, 1, g, sent, all) /\ Shaped(S, sent, all)
  <2>1. Goes(S, 0 + 1, g + 0, sent, all) /\ Shaped(S, sent, all)
    BY DEF Expects
  <2>2. 0 + 1 = 1 /\ g + 0 = g
    OBVIOUS
  <2> QED  BY <2>1, <2>2
<1>2. Begins(S[1]) /\ (Good(S[1]) => S[1 + HeaderBytes].pos = g + 1)
  BY <1>1 DEF Goes
<1>3. 1 \in 1..Len(S)
  OBVIOUS
<1>4. PacketAt(S, 1, sent, all)
  BY <1>1, <1>2, <1>3 DEF Shaped
<1>5. HeaderAt(S, 1)
  BY <1>4 DEF PacketAt
<1>6. ASSUME Good(S[1])
      PROVE  /\ S[1].len - HeaderBytes \in Nat /\ S[1].len - HeaderBytes > 0
             /\ \A T \in Seq(Byte) : IsRest(T, S, HeaderBytes) =>
                    Expects(T, S[1].len - HeaderBytes, g, sent, all)
  <2> DEFINE n == PayloadLen(S, 1)
  <2>1. n \in Nat /\ n > 0 /\ 1 + HeaderBytes \in 1..Len(S) /\ n = S[1].len - HeaderBytes
    <3>1. n \in Nat /\ n > 0 /\ 1 + HeaderBytes \in 1..Len(S)
      BY <1>3, <1>4, <1>6, PayloadBegins
    <3> QED  BY <3>1 DEF PayloadLen
  <2>2. Before(S, 1) = g
    BY <1>2, <1>6 DEF Before
  <2>3. /\ Carries(S, 1 + HeaderBytes, n, g)
        /\ g + n <= all /\ g + n <= sent
        /\ Goes(S, 1 + HeaderBytes + n, g + n, sent, all)
    BY <1>4, <1>6, <2>2 DEF PacketAt
  <2> HIDE DEF n
  <2>4. ASSUME NEW T \in Seq(Byte), IsRest(T, S, HeaderBytes)
        PROVE  Expects(T, n, g, sent, all)
    <3>0. HeaderBytes \in Nat
      BY Sizes
    <3>1. Shaped(T, sent, all)
      BY <1>1, <2>4, <3>0, ShapedRest
    <3>2. Carries(T, 1, n, g)
      <4>1. 1 + HeaderBytes \in Int /\ 1 + HeaderBytes > HeaderBytes /\ (1 + HeaderBytes) - HeaderBytes = 1
        BY <3>0
      <4>2. Carries(T, (1 + HeaderBytes) - HeaderBytes, n, g)
        BY <2>1, <2>3, <2>4, <3>0, <4>1, CarriesRest
      <4> QED  BY <4>1, <4>2
    <3>3. Goes(T, n + 1, g + n, sent, all)
      <4>1. /\ 1 + HeaderBytes + n \in Int /\ 1 + HeaderBytes + n > HeaderBytes
            /\ (1 + HeaderBytes + n) - HeaderBytes = n + 1
            /\ g + n \in Int
        BY <2>1, <3>0
      <4>2. Goes(T, (1 + HeaderBytes + n) - HeaderBytes, g + n, sent, all)
        BY <1>1, <2>3, <2>4, <3>0, <4>1, GoesRest
      <4> QED  BY <4>1, <4>2
    <3> QED  BY <2>3, <3>1, <3>2, <3>3 DEF Expects
  <2> QED  BY <2>1, <2>4
<1> QED  BY <1>2, <1>5, <1>6

\* n bytes of a payload.
LEMMA TakePayload ==
    ASSUME NEW S \in Seq(Byte), NEW sent \in Nat, NEW all \in Nat, NEW g \in Nat,
           NEW r \in Nat, NEW n \in Nat, n <= r, Expects(S, r, g, sent, all)
    PROVE  /\ n <= Len(S)
           /\ \A j \in 1..n : S[j] = Tls(g + j)
           /\ \A T \in Seq(Byte) : IsRest(T, S, n) => Expects(T, r - n, g + n, sent, all)
<1>1. /\ Shaped(S, sent, all) /\ Carries(S, 1, r, g) /\ (r > 0 => g + r <= all) /\ g + r <= sent
      /\ Goes(S, r + 1, g + r, sent, all)
  BY DEF Expects
<1>2. n <= Len(S)
  BY <1>1 DEF Carries
<1>3. ASSUME NEW j \in 1..n  PROVE S[j] = Tls(g + j)
  <2>1. j - 1 \in 0..r - 1 /\ 1 + (j - 1) = j /\ g + 1 + (j - 1) = g + j
    OBVIOUS
  <2>2. S[1 + (j - 1)] = Tls(g + 1 + (j - 1))
    BY <1>1, <2>1 DEF Carries
  <2> QED  BY <2>1, <2>2
<1>4. ASSUME NEW T \in Seq(Byte), IsRest(T, S, n)
      PROVE  Expects(T, r - n, g + n, sent, all)
  <2>1. Shaped(T, sent, all)
    BY <1>1, <1>4, ShapedRest
  <2>2. Carries(T, 1, r - n, g + n)
    <3>1. ASSUME NEW j \in 0..(r - n) - 1  PROVE T[1 + j] = Tls((g + n) + 1 + j)
      <4>1. n + j \in 0..r - 1 /\ 1 + (n + j) = (1 + j) + n /\ g + 1 + (n + j) = (g + n) + 1 + j
        OBVIOUS
      <4>2. S[1 + (n + j)] = Tls(g + 1 + (n + j))
        BY <1>1, <4>1 DEF Carries
      <4>3. 1 + j \in 1..Len(T)
        BY <1>1, <1>4 DEF Carries, IsRest
      <4>4. T[1 + j] = S[(1 + j) + n]
        BY <1>4, <4>3 DEF IsRest
      <4> QED  BY <4>1, <4>2, <4>4
    <3>2. 1 + (r - n) <= Len(T) + 1
      BY <1>1, <1>4 DEF Carries, IsRest
    <3> QED  BY <3>1, <3>2 DEF Carries
  <2>3. Goes(T, (r - n) + 1, (g + n) + (r - n), sent, all)
    <3>1. r + 1 \in Int /\ r + 1 > n /\ (r + 1) - n = (r - n) + 1 /\ (g + n) + (r - n) = g + r /\ g + r \in Int
      OBVIOUS
    <3>2. Goes(T, (r + 1) - n, g + r, sent, all)
      BY <1>1, <1>4, <3>1, GoesRest
    <3> QED  BY <3>1, <3>2
  <2>4. (r - n > 0 => (g + n) + (r - n) <= all) /\ (g + n) + (r - n) <= sent
    BY <1>1
  <2> QED  BY <2>1, <2>2, <2>3, <2>4 DEF Expects
<1> QED  BY <1>2, <1>3, <1>4

\* n bytes after the handshake.
LEMMA TakeRaw ==
    ASSUME NEW S \in Seq(Byte), NEW sent \in Nat, NEW all \in Nat, NEW g \in Nat,
           NEW n \in Nat, n <= Len(S), g >= all, Expects(S, 0, g, sent, all)
    PROVE  /\ \A j \in 1..n : S[j] = Tls(g + j)
           /\ \A T \in Seq(Byte) : IsRest(T, S, n) => Expects(T, 0, g + n, sent, all)
<1>1. Goes(S, 1, g, sent, all) /\ Shaped(S, sent, all)
  <2>1. Goes(S, 0 + 1, g + 0, sent, all) /\ Shaped(S, sent, all)
    BY DEF Expects
  <2>2. 0 + 1 = 1 /\ g + 0 = g
    OBVIOUS
  <2> QED  BY <2>1, <2>2
<1>2. g + Len(S) = sent /\ Carries(S, 1, Len(S), g)
  <2>1. CASE 1 = Len(S) + 1 /\ g = sent
    <3>1. Len(S) = 0 /\ 0..Len(S) - 1 = {} /\ 1 + Len(S) <= Len(S) + 1
      BY <2>1
    <3> QED  BY <2>1, <3>1 DEF Carries
  <2>2. CASE Carries(S, 1, Len(S) + 1 - 1, g) /\ g + (Len(S) + 1 - 1) = sent
    <3>1. Len(S) + 1 - 1 = Len(S)
      OBVIOUS
    <3> QED  BY <2>2, <3>1
  <2> QED  BY <1>1, <2>1, <2>2 DEF Goes
<1>3. ASSUME NEW j \in 1..Len(S)  PROVE S[j] = Tls(g + j)
  <2>1. j - 1 \in 0..Len(S) - 1 /\ 1 + (j - 1) = j /\ g + 1 + (j - 1) = g + j
    OBVIOUS
  <2>2. S[1 + (j - 1)] = Tls(g + 1 + (j - 1))
    BY <1>2, <2>1 DEF Carries
  <2> QED  BY <2>1, <2>2
<1>4. ASSUME NEW T \in Seq(Byte), IsRest(T, S, n)
      PROVE  Expects(T, 0, g + n, sent, all)
  <2>0. Len(T) = Len(S) - n
    BY <1>4 DEF IsRest
  <2>1. Shaped(T, sent, all)
    BY <1>1, <1>4, ShapedRest
  <2>2. Carries(T, 1, 0, g + n)
    <3>1. 0..0 - 1 = {} /\ 1 + 0 <= Len(T) + 1
      OBVIOUS
    <3> QED  BY <3>1 DEF Carries
  <2>3. Carries(T, 1, Len(T), g + n)
    <3>1. ASSUME NEW j \in 0..Len(T) - 1  PROVE T[1 + j] = Tls((g + n) + 1 + j)
      <4>1. 1 + j \in 1..Len(T) /\ (1 + j) + n \in 1..Len(S) /\ g + ((1 + j) + n) = (g + n) + 1 + j
        BY <2>0
      <4>2. T[1 + j] = S[(1 + j) + n]
        BY <1>4, <4>1 DEF IsRest
      <4>3. S[(1 + j) + n] = Tls(g + ((1 + j) + n))
        BY <1>3, <4>1
      <4> QED  BY <4>1, <4>2, <4>3
    <3>2. 1 + Len(T) <= Len(T) + 1
      OBVIOUS
    <3> QED  BY <3>1, <3>2 DEF Carries
  <2>4. Goes(T, 0 + 1, (g + n) + 0, sent, all)
    <3>1. 0 + 1 = 1 /\ (g + n) + 0 = g + n /\ Len(T) + 1 - 1 = Len(T) /\ (g + n) + Len(T) = sent /\ g + n >= all
      BY <1>2, <2>0
    <3>2. Goes(T, 1, g + n, sent, all)
      <4>1. CASE Len(T) = 0
        BY <3>1, <4>1 DEF Goes
      <4>2. CASE Len(T) > 0
        <5>1. 1 <= Len(T)
          BY <4>2
        <5> QED  BY <2>3, <3>1, <5>1 DEF Goes
      <4> QED  BY <4>1, <4>2
    <3> QED  BY <3>1, <3>2
  <2>5. (g + n) + 0 <= sent
    BY <1>2
  <2> QED  BY <2>1, <2>2, <2>4, <2>5 DEF Expects
<1>5. \A j \in 1..n : S[j] = Tls(g + j)
  BY <1>3
<1> QED  BY <1>4, <1>5

-----------------------------------------------------------------------------
(* The sequences the actions build                                          *)

LEMMA SameBytes ==
    ASSUME NEW s \in Seq(Byte), NEW t \in Seq(Byte), Len(s) = Len(t),
           \A i \in 1..Len(t) : s[i] = t[i]
    PROVE  s = t
OBVIOUS

LEMMA JoinTypes ==
    ASSUME NEW s \in Seq(Byte), NEW t \in Seq(Byte)
    PROVE  /\ Join(s, t) \in Seq(Byte) /\ Len(Join(s, t)) = Len(s) + Len(t)
           /\ \A i \in 1..Len(s) : Join(s, t)[i] = s[i]
           /\ \A i \in 1..Len(t) : Join(s, t)[Len(s) + i] = t[i]
BY DEF Join

LEMMA JoinEmpty ==
    ASSUME NEW s \in Seq(Byte)
    PROVE  Join(s, <<>>) = s /\ Join(<<>>, s) = s
BY DEF Join

LEMMA JoinBegins ==
    ASSUME NEW s \in Seq(Byte), NEW t \in Seq(Byte)
    PROVE  BeginsWith(Join(s, t), s)
<1>1. Len(Join(s, t)) = Len(s) + Len(t) /\ \A i \in 1..Len(s) : Join(s, t)[i] = s[i]
  BY JoinTypes
<1>2. Len(s) \in Nat /\ Len(t) \in Nat
  OBVIOUS
<1> QED  BY <1>1, <1>2 DEF BeginsWith

LEMMA JoinAssociative ==
    ASSUME NEW s \in Seq(Byte), NEW t \in Seq(Byte), NEW u \in Seq(Byte)
    PROVE  Join(Join(s, t), u) = Join(s, Join(t, u))
BY DEF Join

\* The first n bytes of s, and the others.
LEMMA Cut ==
    ASSUME NEW s \in Seq(Byte), NEW n \in Nat, n <= Len(s)
    PROVE  /\ SubSeq(s, 1, n) \in Seq(Byte) /\ Len(SubSeq(s, 1, n)) = n
           /\ \A i \in 1..n : SubSeq(s, 1, n)[i] = s[i]
           /\ SubSeq(s, n + 1, Len(s)) \in Seq(Byte) /\ Len(SubSeq(s, n + 1, Len(s))) = Len(s) - n
           /\ IsRest(SubSeq(s, n + 1, Len(s)), s, n)
<1>1. SubSeq(s, 1, n) \in Seq(Byte) /\ Len(SubSeq(s, 1, n)) = n
  OBVIOUS
<1>2. \A i \in 1..n : SubSeq(s, 1, n)[i] = s[i]
  OBVIOUS
<1>3. SubSeq(s, n + 1, Len(s)) \in Seq(Byte) /\ Len(SubSeq(s, n + 1, Len(s))) = Len(s) - n
  OBVIOUS
<1>4. \A i \in 1..Len(s) - n : SubSeq(s, n + 1, Len(s))[i] = s[i + n]
  OBVIOUS
<1> QED  BY <1>1, <1>2, <1>3, <1>4 DEF IsRest

LEMMA CutJoined ==
    ASSUME NEW s \in Seq(Byte), NEW n \in Nat, n <= Len(s)
    PROVE  Join(SubSeq(s, 1, n), SubSeq(s, n + 1, Len(s))) = s
<1> DEFINE a == SubSeq(s, 1, n)
           b == SubSeq(s, n + 1, Len(s))
           c == Join(a, b)
<1>1. /\ a \in Seq(Byte) /\ Len(a) = n /\ \A i \in 1..n : a[i] = s[i]
      /\ b \in Seq(Byte) /\ Len(b) = Len(s) - n /\ IsRest(b, s, n)
  BY Cut
<1> HIDE DEF a, b
<1>2. /\ c \in Seq(Byte) /\ Len(c) = Len(a) + Len(b)
      /\ \A i \in 1..Len(a) : c[i] = a[i]
      /\ \A i \in 1..Len(b) : c[Len(a) + i] = b[i]
  BY <1>1, JoinTypes
<1> HIDE DEF c
<1>3. Len(c) = Len(s)
  BY <1>1, <1>2
<1>4. ASSUME NEW i \in 1..Len(s)  PROVE c[i] = s[i]
  <2>1. CASE i <= n
    <3>1. i \in 1..n
      BY <2>1
    <3> QED  BY <1>1, <1>2, <3>1
  <2>2. CASE i > n
    <3> DEFINE j == i - n
    <3>1. j \in 1..Len(b) /\ Len(a) + j = i /\ j + n = i
      BY <1>1, <2>2
    <3> HIDE DEF j
    <3>2. c[Len(a) + j] = b[j] /\ b[j] = s[j + n]
      BY <1>1, <1>2, <3>1 DEF IsRest
    <3> QED  BY <3>1, <3>2
  <2> QED  BY <2>1, <2>2
<1>5. c = s
  BY <1>2, <1>3, <1>4, SameBytes
<1> QED  BY <1>5 DEF a, b, c

\* Bytes may be taken off before or after others are put at the end.
LEMMA JoinRest ==
    ASSUME NEW s \in Seq(Byte), NEW t \in Seq(Byte), NEW b \in Seq(Byte), NEW d \in Nat,
           IsRest(t, s, d)
    PROVE  IsRest(Join(t, b), Join(s, b), d)
<1> DEFINE x == Join(s, b)
           y == Join(t, b)
<1>1. /\ x \in Seq(Byte) /\ Len(x) = Len(s) + Len(b)
      /\ \A i \in 1..Len(s) : x[i] = s[i]
      /\ \A i \in 1..Len(b) : x[Len(s) + i] = b[i]
  BY JoinTypes
<1>2. /\ y \in Seq(Byte) /\ Len(y) = Len(t) + Len(b)
      /\ \A i \in 1..Len(t) : y[i] = t[i]
      /\ \A i \in 1..Len(b) : y[Len(t) + i] = b[i]
  BY JoinTypes
<1>3. Len(s) \in Nat /\ Len(t) \in Nat /\ Len(b) \in Nat /\ Len(t) = Len(s) - d
  BY DEF IsRest
<1> HIDE DEF x, y
<1>4. Len(y) = Len(x) - d
  BY <1>1, <1>2, <1>3
<1>5. ASSUME NEW i \in 1..Len(y)  PROVE y[i] = x[i + d]
  <2>1. CASE i <= Len(t)
    <3>1. i \in 1..Len(t) /\ i + d \in 1..Len(s)
      BY <1>3, <2>1
    <3>2. t[i] = s[i + d]
      BY <3>1 DEF IsRest
    <3> QED  BY <1>1, <1>2, <3>1, <3>2
  <2>2. CASE i > Len(t)
    <3> DEFINE j == i - Len(t)
    <3>1. j \in 1..Len(b) /\ Len(t) + j = i /\ Len(s) + j = i + d
      BY <1>2, <1>3, <2>2
    <3> HIDE DEF j
    <3> QED  BY <1>1, <1>2, <3>1
  <2> QED  BY <1>3, <2>1, <2>2
<1>6. IsRest(y, x, d)
  BY <1>4, <1>5 DEF IsRest
<1> QED  BY <1>6 DEF x, y

LEMMA TlsBytesAre ==
    ASSUME NEW from \in Nat, NEW n \in Nat
    PROVE  /\ TlsBytes(from, n) \in Seq(Byte) /\ Len(TlsBytes(from, n)) = n
           /\ \A i \in 1..n : TlsBytes(from, n)[i] = Tls(from + i)
<1>1. \A i \in 1..n : Tls(from + i) \in Byte
  BY TlsByte
<1> QED  BY <1>1 DEF TlsBytes

LEMMA IsStream ==
    ASSUME NEW s \in Seq(Byte), \A i \in 1..Len(s) : s[i] = Tls(i)
    PROVE  s = Stream(Len(s))
<1>1. \A i \in 1..Len(s) : 0 + i = i
  OBVIOUS
<1> QED  BY <1>1 DEF Stream, TlsBytes

LEMMA HeaderIs ==
    ASSUME NEW kind \in {"hdr", "bad"}, NEW len \in Nat
    PROVE  /\ Header(kind, len) \in Seq(Byte) /\ Len(Header(kind, len)) = HeaderBytes
           /\ \A i \in 1..HeaderBytes :
                  Header(kind, len)[i] = [kind |-> kind, pos |-> i, len |-> len]
<1>1. HeaderBytes \in Nat
  BY Sizes
<1>2. \A i \in 1..HeaderBytes : [kind |-> kind, pos |-> i, len |-> len] \in Byte
  BY <1>1 DEF Byte
<1> QED  BY <1>1, <1>2 DEF Header

LEMMA ZerosAre == Zeros \in Seq(Byte) /\ Len(Zeros) = HeaderBytes
<1>1. HeaderBytes \in Nat
  BY Sizes
<1>2. \A i \in 1..HeaderBytes : [kind |-> "zero", pos |-> i, len |-> 0] \in Byte
  BY <1>1 DEF Byte
<1> QED  BY <1>1, <1>2 DEF Zeros

\* The flights of the handshake.
LEMMA FlightsAre ==
    /\ Len(Flights) \in Nat /\ Len(Flights) > 0
    /\ \A i \in 0..Len(Flights) : ClientBytes(i) \in Nat /\ ServerBytes(i) \in Nat
    /\ AllClient \in Nat /\ AllServer \in Nat
    /\ AllClient = ClientBytes(Len(Flights)) /\ AllServer = ServerBytes(Len(Flights))
<1>1. Len(Flights) \in Nat /\ Len(Flights) > 0 /\ Flights \in Seq([c : Nat, s : Nat])
  BY WrapperAssumption
<1>2. ASSUME NEW i \in 0..Len(Flights)  PROVE ClientBytes(i) \in Nat /\ ServerBytes(i) \in Nat
  <2>1. CASE i = 0
    BY <2>1 DEF ClientBytes, ServerBytes
  <2>2. CASE i # 0
    <3>1. i \in 1..Len(Flights)
      BY <1>1, <2>2
    <3>2. Flights[i] \in [c : Nat, s : Nat]
      <4>1. \A R : \A F \in Seq(R) : \A k \in 1..Len(F) : F[k] \in R
        OBVIOUS
      <4> QED  BY <1>1, <3>1, <4>1, Zenon
    <3> QED  BY <2>2, <3>2 DEF ClientBytes, ServerBytes
  <2> QED  BY <2>1, <2>2
<1>3. Len(Flights) \in 0..Len(Flights)
  BY <1>1
<1> QED  BY <1>1, <1>2, <1>3 DEF AllClient, AllServer

LEMMA FlightsGrow ==
    ASSUME NEW i \in 0..Len(Flights), NEW j \in 0..Len(Flights), i <= j
    PROVE  ClientBytes(i) <= ClientBytes(j) /\ ServerBytes(i) <= ServerBytes(j)
<1>1. CASE i = j
  BY <1>1, FlightsAre
<1>2. CASE i < j
  BY <1>2, FlightAssumption, FlightsAre
<1> QED  BY <1>1, <1>2

-----------------------------------------------------------------------------
(* The invariant holds at the beginning                                     *)

LEMMA NothingExpected ==
    ASSUME NEW all \in Nat
    PROVE  Expects(<<>>, 0, 0, 0, all) /\ AllGood(<<>>)
<1>1. Len(<<>>) = 0 /\ 1..0 = {} /\ 0..0 - 1 = {} /\ 0 + 1 = 1 /\ 0 + 0 = 0 /\ 1 + 0 <= 0 + 1
  OBVIOUS
<1>2. Shaped(<<>>, 0, all) /\ AllGood(<<>>)
  BY <1>1 DEF Shaped, AllGood
<1>3. Carries(<<>>, 1, 0, 0)
  BY <1>1 DEF Carries
<1>4. Goes(<<>>, 0 + 1, 0 + 0, 0, all)
  BY <1>1 DEF Goes
<1> QED  BY <1>2, <1>3, <1>4 DEF Expects

LEMMA WrapperBegins == WrapperInit => WrapperInv
<1> SUFFICES ASSUME WrapperInit  PROVE WrapperInv
  OBVIOUS
<1> USE DEF WrapperInit, Fresh
<1>0. <<>> \in Seq(Byte) /\ Len(<<>>) = 0
  OBVIOUS
<1>1. WrapperTypes
  <2>1. 1 \in 1..Len(Flights)
    BY FlightsAre
  <2> QED  BY <1>0, <2>1, ZerosAre DEF WrapperTypes
<1>2. Progress
  <2>1. ClientBytes(0) = 0 /\ ServerBytes(0) = 0 /\ 1 - 1 = 0 /\ 1 \in 0..Len(Flights)
    BY FlightsAre DEF ClientBytes, ServerBytes
  <2>2. 0 <= ClientBytes(1)
    BY <2>1, FlightsAre
  <2> QED  BY <1>0, <2>1, <2>2 DEF Progress
<1>3. Buffered
  <2>1. Len(wrBuf) = HeaderBytes /\ HeaderBytes \in Nat /\ HeaderBytes + 1..HeaderBytes = {}
    BY ZerosAre, Sizes
  <2>2. HeaderBytes - HeaderBytes <= 0
    BY Sizes
  <2> QED  BY <2>1, <2>2 DEF Buffered
<1>4. Answers
  <2>1. ASSUME NEW i \in 1..Len(Flights)  PROVE 0 <= ServerBytes(i - 1)
    <3>1. i - 1 \in 0..Len(Flights)
      BY FlightsAre
    <3> QED  BY <3>1, FlightsAre
  <2> QED  BY <2>1 DEF Answers
<1>5. InboundInv
  <2>1. Inbound = <<>>
    BY <1>0, JoinEmpty DEF Inbound
  <2>2. Expects(<<>>, 0, 0, 0, AllServer)
    BY FlightsAre, NothingExpected
  <2>3. 1..0 = {}
    OBVIOUS
  <2> QED  BY <1>0, <2>1, <2>2, <2>3, Sizes DEF InboundInv
<1>6. OutboundInv
  <2>1. Outbound = <<>>
    BY <1>0, JoinEmpty DEF Outbound
  <2>2. Expects(<<>>, 0, 0, 0, AllClient) /\ AllGood(<<>>)
    BY FlightsAre, NothingExpected
  <2>3. 1..0 = {} /\ Packed = 0
    BY ZerosAre, Sizes DEF Packed
  <2> QED  BY <1>0, <2>1, <2>2, <2>3 DEF OutboundInv
<1> QED  BY <1>1, <1>2, <1>3, <1>4, <1>5, <1>6 DEF WrapperInv

-----------------------------------------------------------------------------
(* What a step leaves alone                                                 *)

LEMMA InboundFrame ==
    ASSUME InboundInv, UNCHANGED <<hdrBuf, remaining, got, incoming, srvSent>>, Reads' => Reads
    PROVE  InboundInv'
<1>1. Inbound' = Inbound
  BY DEF Inbound
<1> QED  BY <1>1 DEF InboundInv

LEMMA OutboundFrame ==
    ASSUME OutboundInv, UNCHANGED <<wrBuf, hdrWritten, wrote, outgoing, srvGot, srvLeft>>
    PROVE  OutboundInv'
<1>1. Outbound' = Outbound /\ Packed' = Packed
  BY DEF Outbound, Packed
<1> QED  BY <1>1 DEF OutboundInv

\* A round has a flight.
LEMMA RoundIs ==
    ASSUME WrapperTypes
    PROVE  /\ round \in 0..Len(Flights) /\ round - 1 \in 0..Len(Flights) /\ round >= 1
           /\ ClientBytes(round) \in Nat /\ ClientBytes(round - 1) \in Nat
           /\ ServerBytes(round) \in Nat /\ ServerBytes(round - 1) \in Nat
           /\ ClientBytes(round) <= AllClient /\ ServerBytes(round) <= AllServer
<1>1. round \in 0..Len(Flights) /\ round - 1 \in 0..Len(Flights) /\ round >= 1
  BY FlightsAre DEF WrapperTypes
<1>2. Len(Flights) \in 0..Len(Flights) /\ round <= Len(Flights)
  BY <1>1, FlightsAre
<1>3. ClientBytes(round) <= AllClient /\ ServerBytes(round) <= AllServer
  BY <1>1, <1>2, FlightsGrow, FlightsAre
<1>4. /\ ClientBytes(round) \in Nat /\ ClientBytes(round - 1) \in Nat
      /\ ServerBytes(round) \in Nat /\ ServerBytes(round - 1) \in Nat
  BY <1>1, FlightsAre
<1> QED  BY <1>1, <1>3, <1>4

\* What is packed is a number of bytes.
LEMMA PackedIs ==
    ASSUME WrapperTypes, Buffered
    PROVE  Packed \in Nat /\ Packed <= wrote
<1>1. Len(wrBuf) \in Nat /\ wrote \in Nat /\ HeaderBytes \in Nat
  BY Sizes DEF WrapperTypes
<1>2. CASE hdrWritten
  BY <1>1, <1>2 DEF Packed
<1>3. CASE ~hdrWritten
  <2>1. Len(wrBuf) >= HeaderBytes /\ Len(wrBuf) - HeaderBytes <= wrote
    BY <1>3 DEF Buffered
  <2> QED  BY <1>1, <1>3, <2>1 DEF Packed
<1> QED  BY <1>2, <1>3

-----------------------------------------------------------------------------
(* poll_write and poll_flush                                                *)

LEMMA PollWriteStep ==
    ASSUME WrapperInv, NEW n \in 1..AllClient, PollWrite(n)
    PROVE  WrapperInv'
<1> DEFINE b == TlsBytes(wrote, n)
<1>0. /\ WrapperTypes /\ Progress /\ Buffered /\ Answers /\ InboundInv /\ OutboundInv
  BY DEF WrapperInv
<1>1. n \in Nat /\ n > 0 /\ wrote \in Nat /\ wrBuf \in Seq(Byte) /\ Len(wrBuf) \in Nat
  BY <1>0, FlightsAre DEF WrapperTypes
<1>2. b \in Seq(Byte) /\ Len(b) = n /\ \A i \in 1..n : b[i] = Tls(wrote + i)
  BY <1>1, TlsBytesAre
<1>3. tls = "write" /\ tls' = tls /\ ~hdrWritten /\ hdrWritten' = hdrWritten
  BY <1>0 DEF PollWrite, Buffered
<1>4. wrBuf' = Join(wrBuf, b) /\ wrote' = wrote + n
  BY DEF PollWrite, Join
<1> HIDE DEF b
<1>5. /\ wrBuf' \in Seq(Byte) /\ Len(wrBuf') = Len(wrBuf) + n
      /\ \A i \in 1..Len(wrBuf) : wrBuf'[i] = wrBuf[i]
      /\ \A i \in 1..n : wrBuf'[Len(wrBuf) + i] = b[i]
  BY <1>1, <1>2, <1>4, JoinTypes
<1>6. WrapperTypes'
  <2>1. wrote' \in Nat
    BY <1>1, <1>4
  <2> QED  BY <1>0, <1>5, <2>1 DEF WrapperTypes, PollWrite, srvVars
<1>7. Progress'
  <2>1. ClientBytes(round - 1) <= wrote /\ ClientBytes(round - 1) \in Nat
    BY <1>0, <1>3, RoundIs DEF Progress
  <2>2. ClientBytes(round - 1) <= wrote' /\ wrote' <= ClientBytes(round)
    BY <1>1, <1>4, <2>1 DEF PollWrite
  <2> QED  BY <1>0, <1>3, <2>2 DEF Progress, PollWrite
<1>8. Buffered'
  <2>1. /\ Len(wrBuf) >= HeaderBytes /\ Len(wrBuf) - HeaderBytes <= wrote /\ HeaderBytes \in Nat
        /\ \A j \in 1..HeaderBytes : wrBuf[j] = Zeros[j]
        /\ \A j \in HeaderBytes + 1..Len(wrBuf) : wrBuf[j] = Tls(wrote - Len(wrBuf) + j)
    BY <1>0, <1>3, Sizes DEF Buffered
  <2>2. Len(wrBuf') >= HeaderBytes /\ Len(wrBuf') - HeaderBytes <= wrote'
    BY <1>1, <1>4, <1>5, <2>1
  <2>3. ASSUME NEW j \in 1..HeaderBytes  PROVE wrBuf'[j] = Zeros[j]
    <3>1. j \in 1..Len(wrBuf)
      BY <1>1, <2>1
    <3> QED  BY <1>5, <2>1, <3>1
  <2>4. ASSUME NEW j \in HeaderBytes + 1..Len(wrBuf')  PROVE wrBuf'[j] = Tls(wrote' - Len(wrBuf') + j)
    <3>0. wrote' - Len(wrBuf') + j = wrote - Len(wrBuf) + j
      BY <1>1, <1>4, <1>5, <2>1
    <3>1. CASE j <= Len(wrBuf)
      <4>1. j \in HeaderBytes + 1..Len(wrBuf) /\ j \in 1..Len(wrBuf)
        BY <1>1, <2>1, <3>1
      <4> QED  BY <1>5, <2>1, <3>0, <4>1
    <3>2. CASE j > Len(wrBuf)
      <4> DEFINE i == j - Len(wrBuf)
      <4>1. i \in 1..n /\ Len(wrBuf) + i = j /\ wrote + i = wrote - Len(wrBuf) + j
        BY <1>1, <1>5, <2>1, <3>2
      <4> HIDE DEF i
      <4>2. wrBuf'[Len(wrBuf) + i] = Tls(wrote + i)
        BY <1>2, <1>5, <4>1
      <4> QED  BY <3>0, <4>1, <4>2
    <3> QED  BY <1>1, <2>1, <3>1, <3>2
  <2> QED  BY <1>3, <2>2, <2>3, <2>4 DEF Buffered
<1>9. InboundInv'
  BY <1>0, <1>3, InboundFrame DEF PollWrite, srvVars, Reads
<1>10. OutboundInv'
  <2>1. Packed' = Packed
    BY <1>1, <1>3, <1>4, <1>5, Sizes DEF Packed
  <2>2. Outbound' = Outbound
    BY <1>3 DEF Outbound, PollWrite
  <2> QED  BY <1>0, <2>1, <2>2 DEF OutboundInv, PollWrite, srvVars
<1>11. Answers'
  BY <1>0 DEF Answers, PollWrite, srvVars
<1> QED  BY <1>6, <1>7, <1>8, <1>9, <1>10, <1>11 DEF WrapperInv

LEMMA TlsFlushStep ==
    ASSUME WrapperInv, TlsFlush \/ FlushPanics
    PROVE  WrapperInv'
<1>0. /\ WrapperTypes /\ Progress /\ Buffered /\ Answers /\ InboundInv /\ OutboundInv
  BY DEF WrapperInv
<1>1. /\ UNCHANGED <<pending, hdrBuf, remaining, wrBuf, hdrWritten, round, wrote, got, outgoing, incoming,
                     srvGot, srvLeft, srvSent, srvState>>
      /\ \/ tls = "write" /\ tls' = "flush"
         \/ tls = "flush" /\ tls' = "failed"
  BY DEF TlsFlush, FlushPanics, wrapVars, srvVars
<1>2. WrapperTypes'
  BY <1>0, <1>1 DEF WrapperTypes
<1>3. Progress'
  BY <1>0, <1>1 DEF Progress
<1>4. Buffered'
  BY <1>0, <1>1 DEF Buffered
<1>5. InboundInv'
  BY <1>0, <1>1, InboundFrame DEF Reads
<1>6. OutboundInv'
  BY <1>0, <1>1, OutboundFrame
<1>7. Answers'
  BY <1>0, <1>1 DEF Answers
<1> QED  BY <1>2, <1>3, <1>4, <1>5, <1>6, <1>7 DEF WrapperInv

\* The buffer is a packet, or the rest of one, when its header is there.
LEMMA FlushedBytes ==
    ASSUME WrapperInv, tls = "flush", ToFlush
    PROVE  /\ WithHeader \in Seq(Byte) /\ Len(WithHeader) = Len(wrBuf)
           /\ Expects(Join(outgoing, WithHeader), srvLeft, Len(srvGot), wrote, AllClient)
           /\ AllGood(Join(outgoing, WithHeader))
<1>0. /\ WrapperTypes /\ Progress /\ Buffered /\ OutboundInv
  BY DEF WrapperInv
<1>1. /\ wrote \in Nat /\ wrBuf \in Seq(Byte) /\ Len(wrBuf) \in Nat /\ outgoing \in Seq(Byte)
      /\ srvLeft \in Nat /\ Len(srvGot) \in Nat /\ AllClient \in Nat
      /\ HeaderBytes \in Nat /\ Len(wrBuf) > HeaderBytes
  BY <1>0, FlightsAre, Sizes DEF WrapperTypes, ToFlush
<1>2. Expects(Outbound, srvLeft, Len(srvGot), Packed, AllClient) /\ AllGood(Outbound)
  BY <1>0 DEF OutboundInv
<1>3. CASE hdrWritten
  <2>1. WithHeader = wrBuf /\ Outbound = Join(outgoing, wrBuf) /\ Packed = wrote
    BY <1>3 DEF WithHeader, Outbound, Packed
  <2> QED  BY <1>1, <1>2, <2>1
<1>4. CASE ~hdrWritten
  <2> DEFINE h == Header("hdr", Len(wrBuf))
             p == SubSeq(wrBuf, HeaderBytes + 1, Len(wrBuf))
             w == Join(h, p)
             n == Len(wrBuf) - HeaderBytes
             T == Join(outgoing, w)
  <2>1. WithHeader = w /\ Outbound = outgoing /\ Packed = wrote - n
    BY <1>1, <1>4, JoinEmpty DEF WithHeader, Outbound, Packed, Join
  <2>2. /\ h \in Seq(Byte) /\ Len(h) = HeaderBytes
        /\ \A i \in 1..HeaderBytes : h[i] = [kind |-> "hdr", pos |-> i, len |-> Len(wrBuf)]
    BY <1>1, HeaderIs
  <2>3. p \in Seq(Byte) /\ Len(p) = n /\ IsRest(p, wrBuf, HeaderBytes)
    BY <1>1, Cut
  <2>4. n \in Nat /\ n > 0 /\ n <= wrote /\ Len(wrBuf) = HeaderBytes + n
    BY <1>0, <1>1, <1>4 DEF Buffered
  <2>5. wrote <= AllClient
    BY <1>0, <1>1, RoundIs DEF Progress
  <2> HIDE DEF h, p, n
  <2>6. /\ w \in Seq(Byte) /\ Len(w) = HeaderBytes + n
        /\ \A i \in 1..HeaderBytes : w[i] = h[i]
        /\ \A i \in 1..n : w[HeaderBytes + i] = p[i]
    BY <2>2, <2>3, JoinTypes
  <2> HIDE DEF w
  <2>7. /\ T \in Seq(Byte) /\ Len(T) = Len(outgoing) + Len(w) /\ BeginsWith(T, outgoing)
        /\ \A i \in 1..Len(w) : T[Len(outgoing) + i] = w[i]
    BY <1>1, <2>6, JoinTypes, JoinBegins
  <2> HIDE DEF T
  <2>8. Len(T) = Len(outgoing) + HeaderBytes + n
    BY <1>1, <2>4, <2>6, <2>7
  <2>9. ASSUME NEW j \in 1..HeaderBytes
        PROVE  T[Len(outgoing) + j] = [kind |-> "hdr", pos |-> j, len |-> HeaderBytes + n]
    <3>1. j \in 1..Len(w)
      BY <1>1, <2>4, <2>6
    <3> QED  BY <2>2, <2>4, <2>6, <2>7, <3>1
  <2>10. ASSUME NEW j \in 1..n
         PROVE  T[Len(outgoing) + HeaderBytes + j] = Tls((wrote - n) + j)
    <3>1. HeaderBytes + j \in 1..Len(w) /\ Len(outgoing) + (HeaderBytes + j) = Len(outgoing) + HeaderBytes + j
      BY <1>1, <2>4, <2>6
    <3>2. T[Len(outgoing) + (HeaderBytes + j)] = p[j]
      BY <2>6, <2>7, <3>1
    <3>3. p[j] = wrBuf[j + HeaderBytes]
      BY <2>3 DEF IsRest
    <3>4. j + HeaderBytes \in HeaderBytes + 1..Len(wrBuf)
          /\ wrote - Len(wrBuf) + (j + HeaderBytes) = (wrote - n) + j
      BY <1>1, <2>4
    <3>5. wrBuf[j + HeaderBytes] = Tls(wrote - Len(wrBuf) + (j + HeaderBytes))
      BY <1>0, <1>4, <3>4 DEF Buffered
    <3> QED  BY <3>1, <3>2, <3>3, <3>4, <3>5
  <2>11. wrote - n \in Nat /\ (wrote - n) + n = wrote /\ (wrote - n) + n <= AllClient
    BY <1>1, <2>4, <2>5
  <2>12. Longer(T, outgoing, wrote - n, (wrote - n) + n, AllClient) /\ (AllGood(outgoing) => AllGood(T))
    BY <1>1, <2>4, <2>7, <2>8, <2>9, <2>10, <2>11, LongerPacket
  <2>13. Expects(T, srvLeft, Len(srvGot), wrote, AllClient)
    <3>1. Expects(outgoing, srvLeft, Len(srvGot), wrote - n, AllClient)
      BY <1>2, <2>1
    <3>2. Longer(T, outgoing, wrote - n, wrote, AllClient)
      BY <2>11, <2>12
    <3> QED  BY <1>1, <2>7, <2>11, <3>1, <3>2, ExpectsOn
  <2>14. AllGood(T)
    BY <1>2, <2>1, <2>12
  <2> QED  BY <2>1, <2>4, <2>6, <2>13, <2>14 DEF T
<1> QED  BY <1>3, <1>4

LEMMA FlushPendingStep ==
    ASSUME "tail" \notin Faults, WrapperInv, NEW n \in 0..Len(wrBuf), FlushPending(n)
    PROVE  WrapperInv'
<1> DEFINE w == WithHeader
           a == SubSeq(w, 1, n)
           b == SubSeq(w, n + 1, Len(w))
<1>0. /\ WrapperTypes /\ Progress /\ Buffered /\ Answers /\ InboundInv /\ OutboundInv
  BY DEF WrapperInv
<1>1. tls = "flush" /\ ToFlush /\ tls' = tls
  BY DEF FlushPending, tlsVars
<1>2. /\ w \in Seq(Byte) /\ Len(w) = Len(wrBuf)
      /\ Expects(Join(outgoing, w), srvLeft, Len(srvGot), wrote, AllClient)
      /\ AllGood(Join(outgoing, w))
  BY <1>1, FlushedBytes
<1>3. n \in Nat /\ n <= Len(w) /\ Len(w) \in Nat /\ HeaderBytes \in Nat /\ outgoing \in Seq(Byte)
  BY <1>0, <1>2, Sizes DEF WrapperTypes
<1>4. /\ outgoing' = Join(outgoing, a) /\ wrBuf' = b /\ hdrWritten' = TRUE
      /\ UNCHANGED <<pending, hdrBuf, remaining, tls, round, wrote, got, incoming,
                     srvGot, srvLeft, srvSent, srvState>>
  BY <1>2 DEF FlushPending, Join, tlsVars, srvVars
<1>5. Len(wrBuf) - n > HeaderBytes
  BY DEF FlushPending, ShortWriteLeaves
<1> HIDE DEF w
<1>6. a \in Seq(Byte) /\ b \in Seq(Byte) /\ Len(b) = Len(w) - n /\ Join(a, b) = w
  BY <1>2, <1>3, Cut, CutJoined
<1> HIDE DEF a, b
<1>7. outgoing' \in Seq(Byte)
  BY <1>3, <1>4, <1>6, JoinTypes
<1>8. WrapperTypes'
  BY <1>0, <1>4, <1>6, <1>7 DEF WrapperTypes
<1>9. Progress'
  BY <1>0, <1>4 DEF Progress
<1>10. Buffered'
  <2>1. Len(wrBuf') > HeaderBytes
    BY <1>2, <1>4, <1>5, <1>6
  <2>2. tls' = "flush"
    BY <1>1
  <2> QED  BY <1>4, <2>1, <2>2 DEF Buffered
<1>11. InboundInv'
  BY <1>0, <1>4, InboundFrame DEF Reads
<1>12. OutboundInv'
  <2>1. Outbound' = Join(Join(outgoing, a), b)
    BY <1>4 DEF Outbound
  <2>2. Outbound' = Join(outgoing, w)
    BY <1>3, <1>6, <2>1, JoinAssociative
  <2>3. Packed' = wrote
    BY <1>4 DEF Packed
  <2> QED  BY <1>0, <1>2, <1>4, <2>2, <2>3 DEF OutboundInv
<1>13. Answers'
  BY <1>0, <1>4 DEF Answers
<1> QED  BY <1>8, <1>9, <1>10, <1>11, <1>12, <1>13 DEF WrapperInv

\* The buffer of a new packet.
LEMMA FreshBuffer ==
    ASSUME WrapperTypes, wrBuf' = Zeros, hdrWritten' = FALSE, wrote' = wrote
    PROVE  wrBuf' \in Seq(Byte) /\ Buffered' /\ Packed' = wrote
<1>1. wrBuf' \in Seq(Byte) /\ Len(wrBuf') = HeaderBytes /\ HeaderBytes \in Nat /\ wrote \in Nat
  BY ZerosAre, Sizes DEF WrapperTypes
<1>2. HeaderBytes + 1..HeaderBytes = {} /\ HeaderBytes - HeaderBytes <= wrote /\ wrote - (HeaderBytes - HeaderBytes) = wrote
  BY <1>1
<1>3. Packed' = wrote
  BY <1>1, <1>2 DEF Packed
<1>4. Buffered'
  <2>1. Len(wrBuf') >= HeaderBytes /\ Len(wrBuf') - HeaderBytes <= wrote'
    BY <1>1, <1>2
  <2>2. \A j \in HeaderBytes + 1..Len(wrBuf') : wrBuf'[j] = Tls(wrote' - Len(wrBuf') + j)
    BY <1>1, <1>2
  <2> QED  BY <2>1, <2>2 DEF Buffered
<1> QED  BY <1>1, <1>3, <1>4

\* Where the TLS library goes on after a flush.
LEMMA AfterFlushProgress ==
    ASSUME WrapperTypes, Progress, tls = "flush", AfterFlush,
           UNCHANGED <<pending, hdrBuf, remaining, round, wrote, got>>
    PROVE  Progress' /\ tls' \in {"write", "read", "done"}
<1> DEFINE r == round
<1>1. /\ ClientBytes(r - 1) <= wrote /\ wrote <= ClientBytes(r) /\ Len(got) = ServerBytes(r - 1)
      /\ pending /\ hdrBuf = <<>> /\ remaining = 0
  BY DEF Progress
<1>2. /\ r \in 0..Len(Flights) /\ r - 1 \in 0..Len(Flights) /\ r >= 1
      /\ ClientBytes(r) \in Nat /\ ServerBytes(r) \in Nat /\ ServerBytes(r - 1) \in Nat
      /\ wrote \in Nat
  BY RoundIs DEF WrapperTypes
<1>3. CASE tls' = "write"
  BY <1>1, <1>3 DEF Progress
<1>4. CASE tls' = "read"
  <2>1. wrote = ClientBytes(r) /\ ServerBytes(r) > ServerBytes(r - 1)
    BY <1>1, <1>2, <1>4 DEF AfterFlush
  <2>2. ServerBytes(r - 1) <= Len(got) /\ Len(got) < ServerBytes(r)
    BY <1>1, <1>2, <2>1
  <2> QED  BY <1>1, <1>4, <2>1, <2>2 DEF Progress
<1>5. CASE tls' = "done"
  <2>1. wrote = ClientBytes(r) /\ ~(ServerBytes(r) > ServerBytes(r - 1))
    BY <1>1, <1>2, <1>5 DEF AfterFlush
  <2>2. r = Len(Flights)
    <3>1. r - 1 < r /\ Len(Flights) \in Nat
      BY <1>2, FlightsAre
    <3>2. r < Len(Flights) => ServerBytes(r - 1) < ServerBytes(r)
      BY <1>2, <3>1, FlightAssumption
    <3> QED  BY <1>2, <2>1, <3>1, <3>2
  <2>3. wrote = AllClient /\ Len(got) >= AllServer
    <3>1. AllClient = ClientBytes(r) /\ AllServer = ServerBytes(r)
      BY <2>2, FlightsAre
    <3> QED  BY <1>1, <1>2, <2>1, <3>1
  <2>4. wrote' = AllClient /\ Len(got') >= AllServer /\ wrote' >= AllClient
    BY <2>3, FlightsAre
  <2> QED  BY <1>1, <1>5, <2>4 DEF Progress
<1>6. tls' \in {"write", "read", "done"}
  BY DEF AfterFlush
<1> QED  BY <1>3, <1>4, <1>5, <1>6

LEMMA FlushReadyStep ==
    ASSUME WrapperInv, FlushReady
    PROVE  WrapperInv'
<1> DEFINE w == WithHeader
<1>0. /\ WrapperTypes /\ Progress /\ Buffered /\ Answers /\ InboundInv /\ OutboundInv
  BY DEF WrapperInv
<1>1. /\ tls = "flush" /\ ToFlush /\ AfterFlush
      /\ outgoing' = Join(outgoing, w) /\ wrBuf' = Zeros /\ hdrWritten' = FALSE
      /\ UNCHANGED <<pending, hdrBuf, remaining, round, wrote, got, incoming, srvGot, srvLeft, srvSent, srvState>>
  BY DEF FlushReady, Join, srvVars
<1>2. /\ w \in Seq(Byte) /\ outgoing \in Seq(Byte)
      /\ Expects(Join(outgoing, w), srvLeft, Len(srvGot), wrote, AllClient)
      /\ AllGood(Join(outgoing, w))
  BY <1>0, <1>1, FlushedBytes DEF WrapperTypes
<1> HIDE DEF w
<1>3. Progress' /\ tls' \in {"write", "read", "done"}
  BY <1>0, <1>1, AfterFlushProgress
<1>4. wrBuf' \in Seq(Byte) /\ Buffered' /\ Packed' = wrote
  BY <1>0, <1>1, FreshBuffer
<1>5. outgoing' \in Seq(Byte)
  BY <1>1, <1>2, JoinTypes
<1>6. WrapperTypes'
  BY <1>0, <1>1, <1>3, <1>4, <1>5 DEF WrapperTypes
<1>7. InboundInv'
  BY <1>0, <1>1, InboundFrame DEF Reads
<1>8. OutboundInv'
  <2>1. Outbound' = Join(outgoing', <<>>)
    BY <1>1 DEF Outbound
  <2>2. Outbound' = Join(outgoing, w)
    BY <1>1, <1>5, <2>1, JoinEmpty
  <2> QED  BY <1>0, <1>1, <1>2, <1>4, <2>2 DEF OutboundInv
<1>9. Answers'
  BY <1>0, <1>1, <1>3 DEF Answers
<1> QED  BY <1>3, <1>4, <1>6, <1>7, <1>8, <1>9 DEF WrapperInv

\* Nothing to write means that nothing is left of an earlier packet.
LEMMA FlushNothingStep ==
    ASSUME WrapperInv, FlushNothing
    PROVE  WrapperInv'
<1>0. /\ WrapperTypes /\ Progress /\ Buffered /\ Answers /\ InboundInv /\ OutboundInv
  BY DEF WrapperInv
<1>1. /\ tls = "flush" /\ ~ToFlush /\ AfterFlush
      /\ UNCHANGED <<pending, hdrBuf, remaining, wrBuf, hdrWritten, round, wrote, got, outgoing, incoming,
                     srvGot, srvLeft, srvSent, srvState>>
  BY DEF FlushNothing, wrapVars, srvVars
<1>2. Progress' /\ tls' \in {"write", "read", "done"}
  BY <1>0, <1>1, AfterFlushProgress
<1>3. wrBuf = Zeros /\ ~hdrWritten
  <2>1. pending /\ wrBuf \in Seq(Byte) /\ Len(wrBuf) \in Nat /\ HeaderBytes \in Nat
    BY <1>0, <1>1, Sizes DEF Progress, WrapperTypes
  <2>2. ~(Len(wrBuf) > HeaderBytes)
    BY <1>1, <2>1 DEF ToFlush
  <2>3. ~hdrWritten
    BY <1>0, <2>2 DEF Buffered
  <2>4. Len(wrBuf) = HeaderBytes /\ \A j \in 1..HeaderBytes : wrBuf[j] = Zeros[j]
    BY <1>0, <2>1, <2>2, <2>3 DEF Buffered
  <2>5. wrBuf = Zeros
    BY <2>1, <2>4, ZerosAre, SameBytes
  <2> QED  BY <2>3, <2>5
<1>4. Buffered'
  <2>1. hdrWritten = FALSE
    BY <1>0, <1>3 DEF WrapperTypes
  <2>2. hdrWritten' = FALSE /\ wrBuf' = Zeros /\ wrote' = wrote
    BY <1>1, <1>3, <2>1
  <2> QED  BY <1>0, <2>2, FreshBuffer
<1>5. WrapperTypes'
  BY <1>0, <1>1, <1>2 DEF WrapperTypes
<1>6. InboundInv'
  BY <1>0, <1>1, InboundFrame DEF Reads
<1>7. OutboundInv'
  BY <1>0, <1>1, OutboundFrame
<1>8. Answers'
  BY <1>0, <1>1, <1>2 DEF Answers
<1> QED  BY <1>2, <1>4, <1>5, <1>6, <1>7, <1>8 DEF WrapperInv

-----------------------------------------------------------------------------
(* poll_read                                                                *)

LEMMA JoinIsRest ==
    ASSUME NEW s \in Seq(Byte), NEW t \in Seq(Byte)
    PROVE  IsRest(t, Join(s, t), Len(s))
<1>1. /\ Len(Join(s, t)) = Len(s) + Len(t)
      /\ \A i \in 1..Len(t) : Join(s, t)[Len(s) + i] = t[i]
  BY JoinTypes
<1>2. Len(t) = Len(Join(s, t)) - Len(s)
  BY <1>1
<1>3. ASSUME NEW i \in 1..Len(t)  PROVE t[i] = Join(s, t)[i + Len(s)]
  <2>1. i + Len(s) = Len(s) + i
    OBVIOUS
  <2> QED  BY <1>1, <2>1
<1> QED  BY <1>2, <1>3 DEF IsRest

LEMMA MinOf ==
    ASSUME NEW x \in Int, NEW y \in Int
    PROVE  Min({x, y}) \in Int /\ Min({x, y}) <= x /\ Min({x, y}) <= y
<1>1. \E z \in {x, y} : \A w \in {x, y} : z <= w
  OBVIOUS
<1>2. Min({x, y}) \in {x, y} /\ \A w \in {x, y} : Min({x, y}) <= w
  BY <1>1 DEF Min
<1> QED  BY <1>2

\* What poll_read leaves to the other direction.
LEMMA ReadFrame ==
    ASSUME WrapperTypes, Buffered, Answers, OutboundInv, tls = "read",
           UNCHANGED <<pending, wrBuf, hdrWritten, wrote, outgoing, srvGot, srvLeft, srvSent, srvState>>,
           tls' \in {"read", "write", "done", "failed", "eof"},
           round' \in 1..Len(Flights), remaining' \in Nat, hdrBuf' \in Seq(Byte),
           incoming' \in Seq(Byte), got' \in Seq(Byte)
    PROVE  WrapperTypes' /\ Buffered' /\ Answers' /\ OutboundInv'
<1>1. WrapperTypes'
  BY DEF WrapperTypes
<1>2. Buffered'
  <2>1. ~hdrWritten /\ wrBuf = Zeros
    BY DEF Buffered
  <2> QED  BY <2>1 DEF Buffered
<1>3. Answers'
  BY DEF Answers
<1>4. OutboundInv'
  BY OutboundFrame
<1> QED  BY <1>1, <1>2, <1>3, <1>4

\* The header and what follows it, when poll_read has the header.
LEMMA AtPayload ==
    ASSUME WrapperTypes, Progress, InboundInv, tls = "read", NEW a \in 0..Len(incoming), Complete(a)
    PROVE  LET P == SubSeq(incoming, HeaderLeft + 1, Len(incoming)) IN
           /\ HeaderLeft \in Nat /\ HeaderLeft <= a
           /\ NextHeader \in Seq(Byte) /\ Len(NextHeader) = HeaderBytes
           /\ P \in Seq(Byte) /\ Len(P) = Len(incoming) - HeaderLeft /\ IsRest(P, incoming, HeaderLeft)
           /\ (HeaderLeft > 0 => GoodHeader) =>
                /\ LeftInPacket \in Nat
                /\ LeftInPacket > 0 => Expects(P, LeftInPacket, Len(got), srvSent, AllServer)
<1> DEFINE l == HeaderLeft
           A == SubSeq(incoming, 1, l)
           P == SubSeq(incoming, l + 1, Len(incoming))
<1>1. /\ incoming \in Seq(Byte) /\ Len(incoming) \in Nat /\ hdrBuf \in Seq(Byte) /\ Len(hdrBuf) \in Nat
      /\ Len(got) \in Nat /\ srvSent \in Nat /\ AllServer \in Nat /\ HeaderBytes \in Nat
      /\ remaining \in Nat
  BY FlightsAre, Sizes DEF WrapperTypes
<1>2. /\ IF remaining > 0 THEN Len(hdrBuf) = HeaderBytes ELSE Len(hdrBuf) < HeaderBytes
      /\ Expects(Inbound, remaining, Len(got), srvSent, AllServer)
  BY DEF InboundInv, Reads
<1>3. Len(got) < AllServer
  BY <1>1, RoundIs DEF Progress
<1>4. l \in Nat /\ l <= a /\ l <= Len(incoming) /\ l = HeaderBytes - Len(hdrBuf)
  BY <1>1, <1>2 DEF HeaderLeft, Complete
<1>5. NextHeader = Join(hdrBuf, A)
  BY DEF NextHeader, Join
<1>6. HeaderLeft = l
  OBVIOUS
<1> HIDE DEF l
<1>7. /\ A \in Seq(Byte) /\ Len(A) = l
      /\ P \in Seq(Byte) /\ Len(P) = Len(incoming) - l /\ IsRest(P, incoming, l)
      /\ Join(A, P) = incoming
  BY <1>1, <1>4, Cut, CutJoined
<1> HIDE DEF A, P
<1>8. NextHeader \in Seq(Byte) /\ Len(NextHeader) = HeaderBytes
  BY <1>1, <1>4, <1>5, <1>7, JoinTypes
<1>9. ASSUME HeaderLeft > 0 => GoodHeader
      PROVE  /\ LeftInPacket \in Nat
             /\ LeftInPacket > 0 => Expects(P, LeftInPacket, Len(got), srvSent, AllServer)
  <2>1. CASE remaining > 0
    <3>1. l = 0 /\ Inbound = incoming /\ LeftInPacket = remaining
      BY <1>1, <1>2, <1>4, <1>6, <2>1 DEF Inbound, LeftInPacket
    <3>2. A = <<>> /\ P = incoming
      <4>1. A = <<>>
        BY <1>7, <3>1
      <4> QED  BY <1>7, <4>1, JoinEmpty
    <3> QED  BY <1>1, <1>2, <2>1, <3>1, <3>2
  <2>2. CASE remaining = 0
    <3> DEFINE V == Inbound
               h == NextHeader
    <3>1. V = Join(hdrBuf, incoming) /\ l > 0
      BY <1>1, <1>2, <1>4, <2>2 DEF Inbound
    <3>2. V = Join(h, P)
      <4>1. Join(Join(hdrBuf, A), P) = Join(hdrBuf, Join(A, P))
        BY <1>1, <1>7, JoinAssociative
      <4> QED  BY <1>5, <1>7, <3>1, <4>1
    <3>3. V \in Seq(Byte) /\ Len(V) = HeaderBytes + Len(P) /\ \A i \in 1..Len(h) : V[i] = h[i]
      BY <1>7, <1>8, <3>2, JoinTypes
    <3>4. IsRest(P, V, HeaderBytes)
      BY <1>7, <1>8, <3>2, JoinIsRest
    <3>5. V[1] = NextHeader[1] /\ Len(V) > 0
      <4>1. 1 \in 1..Len(h) /\ Len(P) \in Nat
        BY <1>7, <1>8, Sizes
      <4>2. Len(V) > 0
        BY <3>3, <4>1, Sizes
      <4> QED  BY <3>3, <4>1, <4>2
    <3>6. V[1].len \in Nat /\ V[1].len >= HeaderBytes /\ (V[1].len > HeaderBytes => Good(V[1]))
      <4>1. V[1] \in Byte
        BY <3>3, <3>5, ByteAt
      <4> QED  BY <1>6, <1>9, <3>1, <3>5, <4>1 DEF GoodHeader, Good, Byte
    <3>7. Expects(V, 0, Len(got), srvSent, AllServer)
      BY <1>2, <2>2
    <3> HIDE DEF V, h
    <3>8. Good(V[1]) =>
            \A T \in Seq(Byte) : IsRest(T, V, HeaderBytes) =>
                Expects(T, V[1].len - HeaderBytes, Len(got), srvSent, AllServer)
      BY <1>1, <1>3, <3>3, <3>5, <3>7, TakeHeader
    <3>9. LeftInPacket = V[1].len - HeaderBytes
      BY <1>4, <1>6, <3>1, <3>5 DEF LeftInPacket
    <3>10. LeftInPacket \in Nat /\ (LeftInPacket > 0 => Good(V[1]))
      BY <1>1, <3>6, <3>9
    <3> QED  BY <1>7, <3>4, <3>8, <3>9, <3>10
  <2> QED  BY <1>1, <2>1, <2>2
<1> QED  BY <1>4, <1>6, <1>7, <1>8, <1>9 DEF P

LEMMA ReadHeaderPartStep ==
    ASSUME WrapperInv, NEW a \in 0..Len(incoming), ReadHeaderPart(a)
    PROVE  WrapperInv'
<1> DEFINE A == SubSeq(incoming, 1, a)
           P == SubSeq(incoming, a + 1, Len(incoming))
<1>0. /\ WrapperTypes /\ Progress /\ Buffered /\ Answers /\ InboundInv /\ OutboundInv
  BY DEF WrapperInv
<1>1. /\ incoming \in Seq(Byte) /\ Len(incoming) \in Nat /\ hdrBuf \in Seq(Byte) /\ Len(hdrBuf) \in Nat
      /\ HeaderBytes \in Nat /\ remaining \in Nat /\ a \in Nat /\ a <= Len(incoming)
      /\ got \in Seq(Byte) /\ round \in 1..Len(Flights)
  BY <1>0, Sizes DEF WrapperTypes
<1>2. /\ tls = "read" /\ ~Complete(a) /\ hdrBuf' = Join(hdrBuf, A) /\ incoming' = P
      /\ tls' = IF AtEnd(a) THEN "eof" ELSE "read"
      /\ UNCHANGED <<pending, remaining, wrBuf, hdrWritten, round, wrote, got, outgoing,
                     srvGot, srvLeft, srvSent, srvState>>
  BY DEF ReadHeaderPart, Join, srvVars
<1>3. A \in Seq(Byte) /\ Len(A) = a /\ P \in Seq(Byte) /\ Join(A, P) = incoming
  BY <1>1, Cut, CutJoined
<1> HIDE DEF A, P
<1>4. hdrBuf' \in Seq(Byte) /\ Len(hdrBuf') = Len(hdrBuf) + a
  BY <1>1, <1>2, <1>3, JoinTypes
<1>5. Len(hdrBuf) + a < HeaderBytes
  BY <1>1, <1>2 DEF Complete, HeaderLeft
<1>6. remaining = 0
  BY <1>0, <1>1, <1>2, <1>5 DEF InboundInv, Reads
<1>7. WrapperTypes' /\ Buffered' /\ Answers' /\ OutboundInv'
  <2>1. tls' \in {"read", "eof"}
    BY <1>2
  <2>2. remaining' \in Nat /\ got' \in Seq(Byte) /\ round' \in 1..Len(Flights)
    BY <1>1, <1>2
  <2> QED  BY <1>0, <1>2, <1>3, <1>4, <2>1, <2>2, ReadFrame
<1>8. Progress'
  BY <1>0, <1>2 DEF Progress
<1>9. InboundInv'
  <2>1. Inbound = Join(hdrBuf, incoming) /\ Inbound' = Join(Join(hdrBuf, A), P)
    BY <1>2, <1>6 DEF Inbound
  <2>2. Inbound' = Inbound
    BY <1>1, <1>3, <2>1, JoinAssociative
  <2>3. Len(hdrBuf') < HeaderBytes
    BY <1>4, <1>5
  <2>4. Expects(Inbound, remaining, Len(got), srvSent, AllServer) /\ \A j \in 1..Len(got) : got[j] = Tls(j)
    BY <1>0, <1>2 DEF InboundInv, Reads
  <2> QED  BY <1>2, <1>6, <2>2, <2>3, <2>4 DEF InboundInv
<1> QED  BY <1>7, <1>8, <1>9 DEF WrapperInv

LEMMA ReadBadHeaderStep ==
    ASSUME WrapperInv, NEW a \in 0..Len(incoming), ReadBadHeader(a)
    PROVE  WrapperInv'
<1>0. /\ WrapperTypes /\ Progress /\ Buffered /\ Answers /\ InboundInv /\ OutboundInv
  BY DEF WrapperInv
<1>1. /\ tls = "read" /\ Complete(a) /\ tls' = "failed"
      /\ hdrBuf' = NextHeader /\ incoming' = SubSeq(incoming, HeaderLeft + 1, Len(incoming))
      /\ UNCHANGED <<pending, remaining, wrBuf, hdrWritten, round, wrote, got, outgoing,
                     srvGot, srvLeft, srvSent, srvState>>
  BY DEF ReadBadHeader, srvVars
<1>2. hdrBuf' \in Seq(Byte) /\ incoming' \in Seq(Byte)
  BY <1>0, <1>1, AtPayload
<1>3. remaining' \in Nat /\ got' \in Seq(Byte) /\ round' \in 1..Len(Flights)
  BY <1>0, <1>1 DEF WrapperTypes
<1>4. WrapperTypes' /\ Buffered' /\ Answers' /\ OutboundInv'
  BY <1>0, <1>1, <1>2, <1>3, ReadFrame
<1>5. Progress'
  BY <1>1 DEF Progress
<1>6. InboundInv'
  BY <1>0, <1>1 DEF InboundInv, Reads
<1> QED  BY <1>4, <1>5, <1>6 DEF WrapperInv

LEMMA ReadHeaderStep ==
    ASSUME WrapperInv, NEW a \in 0..Len(incoming), ReadHeader(a)
    PROVE  WrapperInv'
<1> DEFINE P == SubSeq(incoming, HeaderLeft + 1, Len(incoming))
<1>0. /\ WrapperTypes /\ Progress /\ Buffered /\ Answers /\ InboundInv /\ OutboundInv
  BY DEF WrapperInv
<1>1. /\ tls = "read" /\ Complete(a) /\ (HeaderLeft > 0 => GoodHeader) /\ LeftInPacket > 0
      /\ hdrBuf' = NextHeader /\ remaining' = LeftInPacket /\ incoming' = P
      /\ tls' = IF AtEnd(a) THEN "eof" ELSE "read"
      /\ UNCHANGED <<pending, wrBuf, hdrWritten, round, wrote, got, outgoing,
                     srvGot, srvLeft, srvSent, srvState>>
  BY DEF ReadHeader, srvVars
<1>2. /\ NextHeader \in Seq(Byte) /\ Len(NextHeader) = HeaderBytes
      /\ P \in Seq(Byte)
      /\ LeftInPacket \in Nat /\ LeftInPacket > 0
      /\ Expects(P, LeftInPacket, Len(got), srvSent, AllServer)
  BY <1>0, <1>1, AtPayload
<1> HIDE DEF P
<1>3. remaining' \in Nat /\ got' \in Seq(Byte) /\ round' \in 1..Len(Flights)
      /\ hdrBuf' \in Seq(Byte) /\ incoming' \in Seq(Byte)
  BY <1>0, <1>1, <1>2 DEF WrapperTypes
<1>4. tls' \in {"read", "eof"}
  BY <1>1
<1>5. WrapperTypes' /\ Buffered' /\ Answers' /\ OutboundInv'
  BY <1>0, <1>1, <1>3, <1>4, ReadFrame
<1>6. Progress'
  BY <1>0, <1>1, <1>4 DEF Progress
<1>7. InboundInv'
  <2>1. Inbound' = P /\ remaining' > 0 /\ Len(hdrBuf') = HeaderBytes
    BY <1>1, <1>2 DEF Inbound
  <2>2. Expects(Inbound', remaining', Len(got'), srvSent', AllServer)
    BY <1>1, <1>2, <2>1
  <2>3. \A j \in 1..Len(got) : got[j] = Tls(j)
    BY <1>0 DEF InboundInv
  <2> QED  BY <1>1, <2>1, <2>2, <2>3 DEF InboundInv
<1> QED  BY <1>5, <1>6, <1>7 DEF WrapperInv

\* The server has not sent more than it may.
LEMMA GotIsSent ==
    ASSUME WrapperInv
    PROVE  Len(srvGot) \in Nat /\ Len(srvGot) <= wrote
<1>0. WrapperTypes /\ Buffered /\ OutboundInv
  BY DEF WrapperInv
<1>1. Len(srvGot) + srvLeft <= Packed
  BY <1>0 DEF OutboundInv, Expects
<1>2. Len(srvGot) \in Nat /\ srvLeft \in Nat /\ wrote \in Nat
  BY <1>0 DEF WrapperTypes
<1>3. Packed \in Nat /\ Packed <= wrote
  BY <1>0, PackedIs
<1> QED  BY <1>1, <1>2, <1>3

\* Where the TLS library goes on after a read; it has the bytes of the server as
\* far as n, and l are left in the packet.
LEMMA AfterReadProgress ==
    ASSUME WrapperInv, tls = "read", NEW n \in Nat, NEW l \in Nat, AfterRead(n),
           n > Len(got), n + l <= srvSent, l > 0 => n + l <= AllServer,
           UNCHANGED <<pending, wrote>>, Len(got') = n, remaining' = l,
           l = 0 => hdrBuf' = <<>>
    PROVE  Progress' /\ tls' \in {"read", "write", "done"} /\ round' \in 1..Len(Flights)
<1> DEFINE r == round
<1>0. WrapperTypes /\ Progress /\ Answers
  BY DEF WrapperInv
<1>1. /\ r \in 0..Len(Flights) /\ r - 1 \in 0..Len(Flights) /\ r >= 1
      /\ ClientBytes(r) \in Nat /\ ServerBytes(r) \in Nat /\ ServerBytes(r - 1) \in Nat
      /\ Len(Flights) \in Nat /\ AllServer \in Nat /\ srvSent \in Nat
      /\ r \in 1..Len(Flights)
  BY <1>0, RoundIs, FlightsAre DEF WrapperTypes
<1>2. pending /\ wrote = ClientBytes(r) /\ ServerBytes(r - 1) <= Len(got) /\ Len(got) \in Nat
  BY <1>0 DEF Progress, WrapperTypes
<1>3. CASE n < ServerBytes(r)
  <2>1. tls' = "read" /\ round' = r
    BY <1>1, <1>3 DEF AfterRead
  <2>2. ServerBytes(r - 1) <= n
    BY <1>1, <1>2
  <2> QED  BY <1>1, <1>2, <1>3, <2>1, <2>2 DEF Progress
<1>4. CASE n >= ServerBytes(r) /\ r < Len(Flights)
  <2>1. tls' = "write" /\ round' = r + 1
    BY <1>1, <1>4 DEF AfterRead
  <2>2. /\ r + 1 \in 0..Len(Flights) /\ r + 1 \in 1..Len(Flights) /\ (r + 1) - 1 = r
        /\ r < r + 1
    BY <1>1, <1>4
  <2>3. ClientBytes(r) < ClientBytes(r + 1) /\ ClientBytes(r + 1) \in Nat
    BY <1>1, <2>2, FlightAssumption, FlightsAre
  <2>4. Len(srvGot) < ClientBytes(r + 1)
    <3>1. Len(srvGot) \in Nat /\ Len(srvGot) <= wrote
      BY GotIsSent
    <3> QED  BY <1>1, <1>2, <2>3, <3>1
  <2>5. srvSent <= ServerBytes(r)
    BY <1>0, <2>2, <2>4 DEF Answers
  <2>6. l = 0 /\ n = ServerBytes(r)
    BY <1>1, <1>4, <2>5
  <2>7. ClientBytes(round' - 1) <= wrote' /\ wrote' <= ClientBytes(round') /\ Len(got') = ServerBytes(round' - 1)
    BY <1>1, <1>2, <2>1, <2>2, <2>3, <2>6
  <2> QED  BY <1>2, <2>1, <2>2, <2>6, <2>7 DEF Progress
<1>5. CASE n >= ServerBytes(r) /\ ~(r < Len(Flights))
  <2>1. tls' = "done" /\ round' = r
    BY <1>1, <1>5 DEF AfterRead
  <2>2. r = Len(Flights)
    BY <1>1, <1>5
  <2>3. AllClient = ClientBytes(r) /\ AllServer = ServerBytes(r)
    BY <2>2, FlightsAre
  <2>4. l = 0
    BY <1>1, <1>5, <2>3
  <2>5. wrote' = AllClient /\ wrote' >= AllClient /\ Len(got') >= AllServer
    BY <1>1, <1>2, <1>5, <2>3
  <2> QED  BY <1>1, <1>2, <2>1, <2>4, <2>5 DEF Progress
<1> QED  BY <1>1, <1>3, <1>4, <1>5

\* Bytes handed to the TLS library are the next ones of the server's stream.
LEMMA GotMore ==
    ASSUME NEW g \in Seq(Byte), NEW b \in Seq(Byte), NEW n \in Nat, Len(b) = n,
           \A j \in 1..Len(g) : g[j] = Tls(j),
           \A j \in 1..n : b[j] = Tls(Len(g) + j)
    PROVE  /\ Join(g, b) \in Seq(Byte) /\ Len(Join(g, b)) = Len(g) + n
           /\ \A j \in 1..Len(Join(g, b)) : Join(g, b)[j] = Tls(j)
<1> DEFINE c == Join(g, b)
<1>1. /\ c \in Seq(Byte) /\ Len(c) = Len(g) + n
      /\ \A i \in 1..Len(g) : c[i] = g[i]
      /\ \A i \in 1..n : c[Len(g) + i] = b[i]
  BY JoinTypes
<1> HIDE DEF c
<1>2. ASSUME NEW j \in 1..Len(c)  PROVE c[j] = Tls(j)
  <2>1. CASE j <= Len(g)
    <3>1. j \in 1..Len(g)
      BY <2>1
    <3> QED  BY <1>1, <3>1
  <2>2. CASE j > Len(g)
    <3> DEFINE i == j - Len(g)
    <3>1. i \in 1..n /\ Len(g) + i = j
      BY <1>1, <2>2
    <3> HIDE DEF i
    <3> QED  BY <1>1, <3>1
  <2> QED  BY <2>1, <2>2
<1> QED  BY <1>1, <1>2 DEF c

\* A packet without payload.
LEMMA ReadEmptyStep ==
    ASSUME WrapperInv, NEW a \in 0..Len(incoming), NEW n \in 0..Len(incoming), ReadPayload(a, n),
           LeftInPacket = 0
    PROVE  WrapperInv'
<1>0. /\ WrapperTypes /\ Progress /\ Buffered /\ Answers /\ InboundInv /\ OutboundInv
  BY DEF WrapperInv
<1>1. n = 0
  BY DEF ReadPayload, ReadSizes
<1>2. /\ tls = "read" /\ Complete(a) /\ tls' = "eof" /\ UNCHANGED round
      /\ remaining' = 0 /\ hdrBuf' = <<>>
      /\ got' = Join(got, SubSeq(incoming, HeaderLeft + 1, HeaderLeft + 0))
      /\ incoming' = SubSeq(incoming, HeaderLeft + 0 + 1, Len(incoming))
      /\ UNCHANGED <<pending, wrBuf, hdrWritten, wrote, outgoing, srvGot, srvLeft, srvSent, srvState>>
  BY <1>1 DEF ReadPayload, HeaderAfter, Join, srvVars
<1>3. HeaderLeft \in Nat /\ SubSeq(incoming, HeaderLeft + 1, Len(incoming)) \in Seq(Byte)
  BY <1>0, <1>2, AtPayload
<1>4. HeaderLeft + 0 = HeaderLeft
  BY <1>3
<1>5. incoming' \in Seq(Byte)
  BY <1>2, <1>3, <1>4
<1>6. got' = got
  <2>1. SubSeq(incoming, HeaderLeft + 1, HeaderLeft) = <<>>
    <3> DEFINE l == HeaderLeft
    <3>1. l \in Nat /\ incoming \in Seq(Byte)
      BY <1>0, <1>3 DEF WrapperTypes
    <3> HIDE DEF l
    <3>2. SubSeq(incoming, l + 1, l) = <<>>
      BY <3>1
    <3> QED  BY <3>2 DEF l
  <2>2. got \in Seq(Byte)
    BY <1>0 DEF WrapperTypes
  <2> QED  BY <1>2, <1>4, <2>1, <2>2, JoinEmpty
<1>7. /\ remaining' \in Nat /\ hdrBuf' \in Seq(Byte) /\ got' \in Seq(Byte)
      /\ round' \in 1..Len(Flights)
  BY <1>0, <1>2, <1>6 DEF WrapperTypes
<1>8. WrapperTypes' /\ Buffered' /\ Answers' /\ OutboundInv'
  BY <1>0, <1>2, <1>5, <1>7, ReadFrame
<1>9. Progress'
  BY <1>2 DEF Progress
<1>10. InboundInv'
  BY <1>0, <1>2, <1>6 DEF InboundInv, Reads
<1> QED  BY <1>8, <1>9, <1>10 DEF WrapperInv

LEMMA ReadPayloadStep ==
    ASSUME WrapperInv, NEW a \in 0..Len(incoming), NEW n \in 0..Len(incoming), ReadPayload(a, n)
    PROVE  WrapperInv'
<1>e. SUFFICES ASSUME LeftInPacket # 0  PROVE WrapperInv'
  BY ReadEmptyStep
<1> DEFINE l == HeaderLeft
           L == LeftInPacket
           P == SubSeq(incoming, l + 1, Len(incoming))
           b == SubSeq(incoming, l + 1, l + n)
           Q == SubSeq(incoming, l + n + 1, Len(incoming))
<1>0. /\ WrapperTypes /\ Progress /\ Buffered /\ Answers /\ InboundInv /\ OutboundInv
  BY DEF WrapperInv
<1>1. /\ tls = "read" /\ Complete(a) /\ (HeaderLeft > 0 => GoodHeader)
      /\ n \in ReadSizes(a)
      /\ remaining' = L - n /\ hdrBuf' = HeaderAfter(L - n)
      /\ got' = Join(got, b) /\ incoming' = Q
      /\ IF n = 0 THEN tls' = "eof" /\ UNCHANGED round ELSE AfterRead(Len(got) + n)
      /\ UNCHANGED <<pending, wrBuf, hdrWritten, wrote, outgoing, srvGot, srvLeft, srvSent, srvState>>
  BY DEF ReadPayload, Join, srvVars
<1>2. /\ l \in Nat /\ l <= a
      /\ NextHeader \in Seq(Byte) /\ Len(NextHeader) = HeaderBytes
      /\ P \in Seq(Byte) /\ Len(P) = Len(incoming) - l /\ IsRest(P, incoming, l)
      /\ L \in Nat /\ L > 0
      /\ Expects(P, L, Len(got), srvSent, AllServer)
  <2>1. /\ l \in Nat /\ l <= a
        /\ NextHeader \in Seq(Byte) /\ Len(NextHeader) = HeaderBytes
        /\ P \in Seq(Byte) /\ Len(P) = Len(incoming) - l /\ IsRest(P, incoming, l)
        /\ L \in Nat
        /\ L > 0 => Expects(P, L, Len(got), srvSent, AllServer)
    BY <1>0, <1>1, AtPayload
  <2> HIDE DEF l, L, P
  <2>2. L > 0
    BY <1>e, <2>1 DEF L
  <2> QED  BY <2>1, <2>2
<1>3. incoming \in Seq(Byte) /\ Len(incoming) \in Nat /\ got \in Seq(Byte) /\ Len(got) \in Nat
      /\ srvSent \in Nat /\ AllServer \in Nat /\ n \in Nat /\ a \in Nat /\ a <= Len(incoming)
  BY <1>0, FlightsAre DEF WrapperTypes
<1>4. n > 0 /\ n <= L /\ l + n <= Len(incoming)
  <2>1. n \in 1..Min({L, a - l})
    BY <1>1, <1>2 DEF ReadSizes
  <2> HIDE DEF l, L
  <2>2. L \in Int /\ a - l \in Int
    BY <1>2, <1>3
  <2>3. Min({L, a - l}) \in Int /\ Min({L, a - l}) <= L /\ Min({L, a - l}) <= a - l
    BY <2>2, MinOf
  <2>4. n <= L /\ n <= a - l /\ n > 0
    BY <1>3, <2>1, <2>2, <2>3
  <2> QED  BY <1>2, <1>3, <2>4
<1> HIDE DEF l, L, P
<1>5. Q \in Seq(Byte) /\ Len(Q) = Len(incoming) - (l + n) /\ IsRest(Q, incoming, l + n)
  <2>1. l + n \in Nat
    BY <1>2, <1>3
  <2> QED  BY <1>3, <1>4, <2>1, Cut
<1>6. b \in Seq(Byte) /\ Len(b) = n /\ \A j \in 1..n : b[j] = incoming[j + l]
  <2>1. b \in Seq(Byte)
    BY <1>2, <1>3, <1>4
  <2>2. Len(b) = n
    BY <1>2, <1>3, <1>4
  <2>3. \A j \in 1..n : b[j] = incoming[j + l]
    BY <1>2, <1>3, <1>4
  <2> QED  BY <2>1, <2>2, <2>3
<1> HIDE DEF b, Q
<1>7. IsRest(Q, P, n)
  <2>1. Len(Q) = Len(P) - n
    BY <1>2, <1>3, <1>5
  <2>2. ASSUME NEW i \in 1..Len(Q)  PROVE Q[i] = P[i + n]
    <3>1. i + n \in 1..Len(P) /\ (i + n) + l = i + (l + n)
      BY <1>2, <1>3, <2>1
    <3>2. P[i + n] = incoming[(i + n) + l]
      BY <1>2, <3>1 DEF IsRest
    <3>3. Q[i] = incoming[i + (l + n)]
      BY <1>5 DEF IsRest
    <3> QED  BY <3>1, <3>2, <3>3
  <2> QED  BY <2>1, <2>2 DEF IsRest
<1>8. /\ n <= Len(P)
      /\ \A j \in 1..n : P[j] = Tls(Len(got) + j)
      /\ Expects(Q, L - n, Len(got) + n, srvSent, AllServer)
  <2>1. P \in Seq(Byte) /\ srvSent \in Nat /\ AllServer \in Nat /\ Len(got) \in Nat /\ L \in Nat
        /\ n \in Nat /\ n <= L /\ Expects(P, L, Len(got), srvSent, AllServer)
    BY <1>2, <1>3, <1>4
  <2>2. /\ n <= Len(P)
        /\ \A j \in 1..n : P[j] = Tls(Len(got) + j)
        /\ \A T \in Seq(Byte) : IsRest(T, P, n) => Expects(T, L - n, Len(got) + n, srvSent, AllServer)
    BY <2>1, TakePayload
  <2>3. Expects(Q, L - n, Len(got) + n, srvSent, AllServer)
    BY <1>5, <1>7, <2>2
  <2> QED  BY <2>2, <2>3
<1>9. ASSUME NEW j \in 1..n  PROVE b[j] = Tls(Len(got) + j)
  <2>1. j \in 1..Len(P)
    BY <1>2, <1>3, <1>8
  <2>2. P[j] = incoming[j + l]
    BY <1>2, <2>1 DEF IsRest
  <2> QED  BY <1>6, <1>8, <2>2
<1>10. /\ got' \in Seq(Byte) /\ Len(got') = Len(got) + n
       /\ \A j \in 1..Len(got') : got'[j] = Tls(j)
  <2>1. \A j \in 1..Len(got) : got[j] = Tls(j)
    BY <1>0 DEF InboundInv
  <2> QED  BY <1>1, <1>3, <1>6, <1>9, <2>1, GotMore
<1>11. L - n \in Nat /\ Len(got) + n \in Nat /\ Len(got) + n > Len(got)
  BY <1>2, <1>3, <1>4
<1>12. /\ L - n = 0 => hdrBuf' = <<>>
       /\ L - n > 0 => hdrBuf' = NextHeader
  BY <1>1 DEF HeaderAfter
<1>13. hdrBuf' \in Seq(Byte) /\ incoming' \in Seq(Byte) /\ remaining' \in Nat
  <2>1. <<>> \in Seq(Byte)
    OBVIOUS
  <2>2. hdrBuf' \in Seq(Byte)
    <3>1. L - n = 0 \/ L - n > 0
      BY <1>11
    <3>2. NextHeader \in Seq(Byte)
      BY <1>2
    <3> QED  BY <1>12, <2>1, <3>1, <3>2
  <2> QED  BY <1>1, <1>5, <1>11, <2>2
<1>14. Progress' /\ tls' \in {"read", "write", "done"} /\ round' \in 1..Len(Flights)
  <2>1. /\ Len(got) + n + (L - n) <= srvSent
        /\ L - n > 0 => Len(got) + n + (L - n) <= AllServer
    BY <1>8 DEF Expects
  <2>2. AfterRead(Len(got) + n)
    BY <1>1, <1>4
  <2> QED  BY <1>1, <1>10, <1>11, <1>12, <2>1, <2>2, AfterReadProgress
<1>15. WrapperTypes' /\ Buffered' /\ Answers' /\ OutboundInv'
  BY <1>0, <1>1, <1>10, <1>13, <1>14, ReadFrame
<1>16. InboundInv'
  <2>1. Inbound' = Q
    <3>1. CASE L - n > 0
      BY <1>1, <3>1 DEF Inbound
    <3>2. CASE L - n = 0
      <4>1. Inbound' = Join(<<>>, Q)
        BY <1>1, <1>12, <3>2 DEF Inbound
      <4> QED  BY <1>5, <4>1, JoinEmpty
    <3> QED  BY <1>11, <3>1, <3>2
  <2>2. Expects(Inbound', remaining', Len(got'), srvSent', AllServer)
    BY <1>1, <1>8, <1>10, <2>1
  <2>3. IF remaining' > 0 THEN Len(hdrBuf') = HeaderBytes ELSE Len(hdrBuf') < HeaderBytes
    <3>1. CASE L - n > 0
      BY <1>1, <1>2, <1>12, <3>1
    <3>2. CASE L - n = 0
      <4>1. Len(hdrBuf') = 0 /\ remaining' = 0
        BY <1>1, <1>12, <3>2
      <4> QED  BY <4>1, Sizes
    <3> QED  BY <1>11, <3>1, <3>2
  <2> QED  BY <1>10, <2>2, <2>3 DEF InboundInv
<1> QED  BY <1>14, <1>15, <1>16 DEF WrapperInv

-----------------------------------------------------------------------------
(* The end of the handshake, and after it                                   *)

LEMMA HandshakeCompleteStep ==
    ASSUME WrapperInv, HandshakeComplete
    PROVE  WrapperInv'
<1>0. /\ WrapperTypes /\ Progress /\ Buffered /\ Answers /\ InboundInv /\ OutboundInv
  BY DEF WrapperInv
<1>1. /\ tls = "done" /\ pending' = FALSE
      /\ UNCHANGED <<hdrBuf, remaining, wrBuf, hdrWritten, tls, round, wrote, got, outgoing, incoming,
                     srvGot, srvLeft, srvSent, srvState>>
  BY DEF HandshakeComplete, tlsVars, srvVars
<1>2. WrapperTypes'
  BY <1>0, <1>1 DEF WrapperTypes
<1>3. Progress'
  BY <1>0, <1>1 DEF Progress
<1>4. Buffered'
  BY <1>0, <1>1 DEF Buffered
<1>5. InboundInv'
  BY <1>0, <1>1, InboundFrame DEF Reads
<1>6. OutboundInv'
  BY <1>0, <1>1, OutboundFrame
<1>7. Answers'
  BY <1>0, <1>1 DEF Answers
<1> QED  BY <1>2, <1>3, <1>4, <1>5, <1>6, <1>7 DEF WrapperInv

LEMMA RawWriteStep ==
    ASSUME WrapperInv, NEW n \in 1..RawBytes, RawWrite(n)
    PROVE  WrapperInv'
<1> DEFINE b == TlsBytes(wrote, n)
<1>0. /\ WrapperTypes /\ Progress /\ Buffered /\ Answers /\ InboundInv /\ OutboundInv
  BY DEF WrapperInv
<1>1. /\ n \in Nat /\ n > 0 /\ wrote \in Nat /\ outgoing \in Seq(Byte) /\ AllClient \in Nat
      /\ Len(srvGot) \in Nat /\ srvLeft \in Nat
  BY <1>0, WrapperAssumption, FlightsAre DEF WrapperTypes
<1>2. /\ tls = "done" /\ ~pending /\ outgoing' = Join(outgoing, b) /\ wrote' = wrote + n
      /\ UNCHANGED <<pending, hdrBuf, remaining, wrBuf, hdrWritten, tls, round, got, incoming,
                     srvGot, srvLeft, srvSent, srvState>>
  BY DEF RawWrite, Join, wrapVars, srvVars
<1>3. b \in Seq(Byte) /\ Len(b) = n /\ \A i \in 1..n : b[i] = Tls(wrote + i)
  BY <1>1, TlsBytesAre
<1> HIDE DEF b
<1>4. /\ outgoing' \in Seq(Byte) /\ Len(outgoing') = Len(outgoing) + n /\ BeginsWith(outgoing', outgoing)
      /\ \A i \in 1..n : outgoing'[Len(outgoing) + i] = Tls(wrote + i)
  BY <1>1, <1>2, <1>3, JoinTypes, JoinBegins
<1>5. wrote >= AllClient /\ wrBuf = Zeros /\ ~hdrWritten
  BY <1>0, <1>2 DEF Progress, Buffered
<1>6. Outbound = outgoing /\ Outbound' = outgoing' /\ Packed = wrote /\ Packed' = wrote + n
  <2>1. Outbound = Join(outgoing, <<>>) /\ Outbound' = Join(outgoing', <<>>)
    BY <1>2, <1>5 DEF Outbound
  <2>2. Len(wrBuf) - HeaderBytes = 0
    BY <1>5, ZerosAre, Sizes
  <2>3. Packed = wrote /\ Packed' = wrote + n
    BY <1>1, <1>2, <1>5, <2>2 DEF Packed
  <2> QED  BY <1>1, <1>4, <2>1, <2>3, JoinEmpty
<1>7. OutboundInv'
  <2>1. Expects(outgoing, srvLeft, Len(srvGot), wrote, AllClient) /\ AllGood(outgoing)
    BY <1>0, <1>6 DEF OutboundInv
  <2>2. Longer(outgoing', outgoing, wrote, wrote + n, AllClient) /\ (AllGood(outgoing) => AllGood(outgoing'))
    BY <1>1, <1>4, <1>5, LongerRaw
  <2>3. Expects(outgoing', srvLeft, Len(srvGot), wrote + n, AllClient)
    <3>1. wrote + n \in Nat
      BY <1>1
    <3> QED  BY <1>1, <1>4, <2>1, <2>2, <3>1, ExpectsOn
  <2> QED  BY <1>0, <1>2, <1>6, <2>1, <2>2, <2>3 DEF OutboundInv
<1>8. WrapperTypes'
  <2>1. wrote' \in Nat
    BY <1>1, <1>2
  <2> QED  BY <1>0, <1>2, <1>4, <2>1 DEF WrapperTypes
<1>9. Progress'
  <2>1. wrote' >= AllClient
    BY <1>1, <1>2, <1>5
  <2> QED  BY <1>0, <1>2, <2>1 DEF Progress
<1>10. Buffered'
  <2>1. ~hdrWritten' /\ wrBuf' = Zeros /\ HeaderBytes \in Nat
    BY <1>2, <1>5, Sizes
  <2>2. Len(wrBuf') >= HeaderBytes /\ Len(wrBuf') - HeaderBytes <= wrote'
    BY <1>1, <1>2, <2>1, ZerosAre
  <2>3. \A j \in HeaderBytes + 1..Len(wrBuf') : wrBuf'[j] = Tls(wrote' - Len(wrBuf') + j)
    <3>1. HeaderBytes + 1..Len(wrBuf') = {}
      BY <2>1, ZerosAre
    <3> QED  BY <3>1
  <2> QED  BY <2>1, <2>2, <2>3 DEF Buffered
<1>11. InboundInv'
  BY <1>0, <1>2, InboundFrame DEF Reads
<1>12. Answers'
  BY <1>0, <1>2 DEF Answers
<1> QED  BY <1>7, <1>8, <1>9, <1>10, <1>11, <1>12 DEF WrapperInv

LEMMA RawReadStep ==
    ASSUME WrapperInv, NEW n \in 1..RawBytes, RawRead(n)
    PROVE  WrapperInv'
<1> DEFINE b == SubSeq(incoming, 1, n)
           Q == SubSeq(incoming, n + 1, Len(incoming))
<1>0. /\ WrapperTypes /\ Progress /\ Buffered /\ Answers /\ InboundInv /\ OutboundInv
  BY DEF WrapperInv
<1>1. /\ n \in Nat /\ n > 0 /\ incoming \in Seq(Byte) /\ AllServer \in Nat /\ n <= Len(incoming)
      /\ got \in Seq(Byte) /\ Len(got) \in Nat /\ srvSent \in Nat
  BY <1>0, WrapperAssumption, FlightsAre DEF WrapperTypes, RawRead
<1>2. /\ tls = "done" /\ got' = Join(got, b) /\ incoming' = Q
      /\ UNCHANGED <<pending, hdrBuf, remaining, wrBuf, hdrWritten, tls, round, wrote, outgoing,
                     srvGot, srvLeft, srvSent, srvState>>
  BY DEF RawRead, Join, wrapVars, srvVars
<1>3. /\ b \in Seq(Byte) /\ Len(b) = n /\ \A j \in 1..n : b[j] = incoming[j]
      /\ Q \in Seq(Byte) /\ IsRest(Q, incoming, n)
  BY <1>1, Cut
<1> HIDE DEF b, Q
<1>4. Len(got) >= AllServer /\ hdrBuf = <<>> /\ remaining = 0
  BY <1>0, <1>2 DEF Progress
<1>5. Inbound = incoming /\ Inbound' = Q
  <2>1. Inbound = Join(<<>>, incoming) /\ Inbound' = Join(<<>>, Q)
    BY <1>2, <1>4 DEF Inbound
  <2> QED  BY <1>1, <1>3, <2>1, JoinEmpty
<1>6. Expects(incoming, 0, Len(got), srvSent, AllServer) /\ \A j \in 1..Len(got) : got[j] = Tls(j)
  BY <1>0, <1>2, <1>4, <1>5 DEF InboundInv, Reads
<1>7. /\ \A j \in 1..n : incoming[j] = Tls(Len(got) + j)
      /\ \A T \in Seq(Byte) : IsRest(T, incoming, n) => Expects(T, 0, Len(got) + n, srvSent, AllServer)
  BY <1>1, <1>4, <1>6, TakeRaw
<1>8. /\ got' \in Seq(Byte) /\ Len(got') = Len(got) + n
      /\ \A j \in 1..Len(got') : got'[j] = Tls(j)
  <2>1. \A j \in 1..n : b[j] = Tls(Len(got) + j)
    BY <1>3, <1>7
  <2> QED  BY <1>1, <1>2, <1>3, <1>6, <2>1, GotMore
<1>9. InboundInv'
  <2>1. Expects(Q, 0, Len(got) + n, srvSent, AllServer)
    BY <1>3, <1>7
  <2>2. Expects(Inbound', remaining', Len(got'), srvSent', AllServer)
    BY <1>2, <1>4, <1>5, <1>8, <2>1
  <2>3. Len(hdrBuf') < HeaderBytes /\ remaining' = 0
    BY <1>2, <1>4, Sizes
  <2> QED  BY <1>8, <2>2, <2>3 DEF InboundInv
<1>10. WrapperTypes'
  BY <1>0, <1>2, <1>3, <1>8 DEF WrapperTypes
<1>11. Progress'
  <2>1. Len(got') >= AllServer
    BY <1>1, <1>4, <1>8
  <2> QED  BY <1>0, <1>2, <2>1 DEF Progress
<1>12. Buffered'
  BY <1>0, <1>2 DEF Buffered
<1>13. OutboundInv'
  BY <1>0, <1>2, OutboundFrame
<1>14. Answers'
  BY <1>0, <1>2 DEF Answers
<1> QED  BY <1>9, <1>10, <1>11, <1>12, <1>13, <1>14 DEF WrapperInv

-----------------------------------------------------------------------------
(* The server                                                               *)

\* What the server leaves to the client when it reads.
LEMMA ServerReadFrame ==
    ASSUME WrapperInv,
           UNCHANGED <<pending, hdrBuf, remaining, wrBuf, hdrWritten, tls, round, wrote, got, incoming,
                       srvSent, srvState>>,
           outgoing' \in Seq(Byte), srvGot' \in Seq(Byte), srvLeft' \in Nat, Len(srvGot') >= Len(srvGot),
           OutboundInv'
    PROVE  WrapperInv'
<1>0. /\ WrapperTypes /\ Progress /\ Buffered /\ Answers /\ InboundInv /\ OutboundInv
  BY DEF WrapperInv
<1>1. WrapperTypes'
  BY <1>0 DEF WrapperTypes
<1>2. Progress'
  BY <1>0 DEF Progress
<1>3. Buffered'
  BY <1>0 DEF Buffered
<1>4. InboundInv'
  BY <1>0, InboundFrame DEF Reads
<1>5. Answers'
  <2>1. ASSUME NEW i \in 1..Len(Flights), Len(srvGot') < ClientBytes(i)
        PROVE  srvSent <= ServerBytes(i - 1)
    <3>1. Len(srvGot) \in Nat /\ Len(srvGot') \in Nat /\ ClientBytes(i) \in Nat
      BY <1>0, FlightsAre DEF WrapperTypes
    <3>2. Len(srvGot) < ClientBytes(i)
      BY <2>1, <3>1
    <3> QED  BY <1>0, <3>2 DEF Answers
  <2> QED  BY <2>1 DEF Answers
<1> QED  BY <1>1, <1>2, <1>3, <1>4, <1>5 DEF WrapperInv

\* Bytes taken off the socket are taken off the stream.
LEMMA OutboundRest ==
    ASSUME WrapperTypes, UNCHANGED <<wrBuf, hdrWritten>>, NEW d \in Nat,
           outgoing' \in Seq(Byte), IsRest(outgoing', outgoing, d)
    PROVE  /\ Outbound \in Seq(Byte) /\ Outbound' \in Seq(Byte) /\ IsRest(Outbound', Outbound, d)
           /\ \A i \in 1..Len(outgoing) : Outbound[i] = outgoing[i]
           /\ Len(outgoing) <= Len(Outbound)
<1> DEFINE R == IF hdrWritten THEN wrBuf ELSE <<>>
<1>1. R \in Seq(Byte) /\ outgoing \in Seq(Byte)
  BY DEF WrapperTypes
<1>2. Outbound = Join(outgoing, R) /\ Outbound' = Join(outgoing', R)
  BY DEF Outbound
<1> HIDE DEF R
<1>3. Outbound \in Seq(Byte) /\ Outbound' \in Seq(Byte) /\ \A i \in 1..Len(outgoing) : Outbound[i] = outgoing[i]
  BY <1>1, <1>2, JoinTypes
<1>4. IsRest(Outbound', Outbound, d)
  BY <1>1, <1>2, JoinRest
<1>5. Len(outgoing) <= Len(Outbound)
  <2>1. Len(Outbound) = Len(outgoing) + Len(R)
    BY <1>1, <1>2, JoinTypes
  <2> QED  BY <1>1, <2>1
<1> QED  BY <1>3, <1>4, <1>5

LEMMA SrvHeaderStep ==
    ASSUME WrapperInv, SrvHeader
    PROVE  WrapperInv'
<1> DEFINE h == SubSeq(outgoing, 1, HeaderBytes)
           len == h[1].len
           S == Outbound
<1>0. WrapperTypes /\ OutboundInv /\ Buffered
  BY DEF WrapperInv
<1>1. /\ outgoing \in Seq(Byte) /\ HeaderBytes \in Nat /\ HeaderBytes > 0 /\ HeaderBytes <= Len(outgoing)
      /\ Len(srvGot) \in Nat /\ AllClient \in Nat /\ Len(srvGot) < AllClient /\ srvLeft = 0
      /\ srvGot \in Seq(Byte) /\ Len(outgoing) \in Nat
  BY <1>0, Sizes, FlightsAre DEF WrapperTypes, SrvHeader
<1>2. /\ outgoing' = SubSeq(outgoing, HeaderBytes + 1, Len(outgoing))
      /\ UNCHANGED <<pending, hdrBuf, remaining, wrBuf, hdrWritten, tls, round, wrote, got, incoming,
                     srvGot, srvSent>>
  BY DEF SrvHeader, wrapVars, tlsVars
<1>3. /\ h \in Seq(Byte) /\ Len(h) = HeaderBytes /\ \A i \in 1..HeaderBytes : h[i] = outgoing[i]
      /\ outgoing' \in Seq(Byte) /\ IsRest(outgoing', outgoing, HeaderBytes)
  BY <1>1, <1>2, Cut
<1>4. /\ S \in Seq(Byte) /\ S' \in Seq(Byte) /\ IsRest(S', S, HeaderBytes)
      /\ \A i \in 1..Len(outgoing) : S[i] = outgoing[i]
      /\ Len(outgoing) <= Len(S)
  BY <1>0, <1>1, <1>2, <1>3, OutboundRest
<1>5. Expects(S, 0, Len(srvGot), Packed, AllClient) /\ AllGood(S) /\ Packed \in Nat
  BY <1>0, <1>1, PackedIs DEF OutboundInv
<1>6. Len(S) > 0 /\ 1 \in 1..Len(S) /\ 1 \in 1..Len(outgoing) /\ 1 \in 1..HeaderBytes
  BY <1>1, <1>4
<1>7. /\ HeaderAt(S, 1) /\ Begins(S[1])
      /\ Good(S[1]) =>
            /\ S[1].len - HeaderBytes \in Nat
            /\ \A T \in Seq(Byte) : IsRest(T, S, HeaderBytes) =>
                   Expects(T, S[1].len - HeaderBytes, Len(srvGot), Packed, AllClient)
  BY <1>1, <1>4, <1>5, <1>6, TakeHeader
<1>8. Good(S[1])
  BY <1>5, <1>6, <1>7 DEF AllGood
<1>9. h[1] = S[1]
  BY <1>3, <1>4, <1>6
<1>10. h[1].kind = "hdr" /\ len \in Nat
  BY <1>3, <1>6, <1>8, <1>9, ByteAt DEF Good
<1>11. h = Header("hdr", len)
  <2>1. /\ Header("hdr", len) \in Seq(Byte) /\ Len(Header("hdr", len)) = HeaderBytes
        /\ \A i \in 1..HeaderBytes : Header("hdr", len)[i] = [kind |-> "hdr", pos |-> i, len |-> len]
    BY <1>10, HeaderIs
  <2>2. ASSUME NEW i \in 1..HeaderBytes  PROVE h[i] = Header("hdr", len)[i]
    <3>1. i - 1 \in 0..HeaderBytes - 1 /\ 1 + (i - 1) = i /\ (i - 1) + 1 = i /\ i \in 1..Len(outgoing)
      BY <1>1
    <3>2. S[1 + (i - 1)] = [kind |-> S[1].kind, pos |-> (i - 1) + 1, len |-> S[1].len]
      BY <1>7, <3>1 DEF HeaderAt
    <3>3. S[i] = [kind |-> "hdr", pos |-> i, len |-> len]
      BY <1>9, <1>10, <3>1, <3>2
    <3>4. h[i] = S[i]
      BY <1>3, <1>4, <3>1
    <3> QED  BY <2>1, <3>3, <3>4
  <2> HIDE DEF h, len
  <2> QED  BY <1>3, <2>1, <2>2, SameBytes
<1>12. srvLeft' = len - HeaderBytes /\ UNCHANGED srvState
  BY <1>10, <1>11 DEF SrvHeader
<1> HIDE DEF h
<1>13. Expects(S', srvLeft', Len(srvGot'), Packed', AllClient) /\ srvLeft' \in Nat
  <2>1. Packed' = Packed
    BY <1>2 DEF Packed
  <2>2. srvLeft' = S[1].len - HeaderBytes
    BY <1>9, <1>12
  <2> HIDE DEF S, len
  <2>3. Expects(S', S[1].len - HeaderBytes, Len(srvGot), Packed, AllClient)
    BY <1>4, <1>7, <1>8
  <2> QED  BY <1>2, <1>7, <1>8, <2>1, <2>2, <2>3
<1>14. AllGood(S')
  BY <1>1, <1>4, <1>5, AllGoodRest
<1>15. OutboundInv'
  BY <1>0, <1>2, <1>13, <1>14 DEF OutboundInv
<1>16. srvGot' \in Seq(Byte) /\ Len(srvGot') >= Len(srvGot)
  BY <1>1, <1>2
<1> QED  BY <1>2, <1>3, <1>12, <1>13, <1>15, <1>16, ServerReadFrame

LEMMA SrvReadStep ==
    ASSUME WrapperInv, SrvRead
    PROVE  WrapperInv'
<1> DEFINE S == Outbound
           b == <<Head(outgoing)>>
           g == Len(srvGot)
<1>0. WrapperTypes /\ OutboundInv /\ Buffered
  BY DEF WrapperInv
<1>1. /\ outgoing \in Seq(Byte) /\ Len(outgoing) \in Nat /\ Len(outgoing) > 0
      /\ g \in Nat /\ AllClient \in Nat /\ srvLeft \in Nat /\ srvGot \in Seq(Byte)
      /\ srvLeft > 0 \/ g >= AllClient
  BY <1>0, FlightsAre DEF WrapperTypes, SrvRead
<1>2. /\ outgoing' = Tail(outgoing) /\ srvGot' = Append(srvGot, Head(outgoing))
      /\ srvLeft' = IF srvLeft > 0 THEN srvLeft - 1 ELSE 0
      /\ UNCHANGED <<pending, hdrBuf, remaining, wrBuf, hdrWritten, tls, round, wrote, got, incoming,
                     srvSent, srvState>>
  BY DEF SrvRead, wrapVars, tlsVars
<1>3. outgoing' \in Seq(Byte) /\ IsRest(outgoing', outgoing, 1)
  <2>1. Tail(outgoing) \in Seq(Byte) /\ Len(Tail(outgoing)) = Len(outgoing) - 1
    BY <1>1
  <2>2. \A i \in 1..Len(outgoing) - 1 : Tail(outgoing)[i] = outgoing[i + 1]
    BY <1>1
  <2> QED  BY <1>2, <2>1, <2>2 DEF IsRest
<1>4. /\ S \in Seq(Byte) /\ S' \in Seq(Byte) /\ IsRest(S', S, 1)
      /\ \A i \in 1..Len(outgoing) : S[i] = outgoing[i]
      /\ Len(outgoing) <= Len(S)
  BY <1>0, <1>1, <1>2, <1>3, OutboundRest
<1>5. Expects(S, srvLeft, g, Packed, AllClient) /\ AllGood(S) /\ Packed \in Nat
  BY <1>0, PackedIs DEF OutboundInv
<1>6. Packed' = Packed
  BY <1>2 DEF Packed
<1>7. 1 \in 1..1 /\ 1 \in Nat /\ 1 <= Len(S) /\ 1 \in 1..Len(outgoing)
  BY <1>1, <1>4
<1>8. S[1] = Tls(g + 1) /\ Expects(S', srvLeft', g + 1, Packed, AllClient) /\ srvLeft' \in Nat
  <2> HIDE DEF S, g
  <2>1. CASE srvLeft > 0
    <3>1. 1 <= srvLeft /\ srvLeft' = srvLeft - 1 /\ srvLeft' \in Nat
      BY <1>1, <1>2, <2>1
    <3>2. /\ \A j \in 1..1 : S[j] = Tls(g + j)
          /\ \A T \in Seq(Byte) : IsRest(T, S, 1) => Expects(T, srvLeft - 1, g + 1, Packed, AllClient)
      <4>1. /\ S \in Seq(Byte) /\ Packed \in Nat /\ AllClient \in Nat /\ g \in Nat /\ srvLeft \in Nat
            /\ 1 \in Nat /\ 1 <= srvLeft /\ Expects(S, srvLeft, g, Packed, AllClient)
        BY <1>1, <1>4, <1>5, <1>7, <3>1
      <4>2. /\ 1 <= Len(S)
            /\ \A j \in 1..1 : S[j] = Tls(g + j)
            /\ \A T \in Seq(Byte) : IsRest(T, S, 1) => Expects(T, srvLeft - 1, g + 1, Packed, AllClient)
        BY ONLY <4>1, TakePayload
      <4> QED  BY <4>2
    <3> QED  BY <1>4, <1>7, <3>1, <3>2
  <2>2. CASE ~(srvLeft > 0)
    <3>1. srvLeft = 0 /\ g >= AllClient /\ srvLeft' = 0
      BY <1>1, <1>2, <2>2
    <3>2. /\ \A j \in 1..1 : S[j] = Tls(g + j)
          /\ \A T \in Seq(Byte) : IsRest(T, S, 1) => Expects(T, 0, g + 1, Packed, AllClient)
      <4>1. /\ S \in Seq(Byte) /\ Packed \in Nat /\ AllClient \in Nat /\ g \in Nat
            /\ 1 \in Nat /\ 1 <= Len(S) /\ g >= AllClient /\ Expects(S, 0, g, Packed, AllClient)
        BY <1>1, <1>4, <1>5, <1>7, <3>1
      <4> QED  BY ONLY <4>1, TakeRaw
    <3> QED  BY <1>4, <1>7, <3>1, <3>2
  <2> QED  BY <2>1, <2>2
<1>9. b \in Seq(Byte) /\ Len(b) = 1 /\ b[1] = outgoing[1] /\ srvGot' = Join(srvGot, b)
  <2>1. Head(outgoing) = outgoing[1] /\ outgoing[1] \in Byte
    BY <1>1, <1>7
  <2>2. Append(srvGot, Head(outgoing)) = srvGot \o <<Head(outgoing)>>
    BY <1>1, <2>1
  <2> QED  BY <1>2, <2>1, <2>2 DEF Join
<1> HIDE DEF b
<1>10. /\ srvGot' \in Seq(Byte) /\ Len(srvGot') = g + 1
       /\ \A j \in 1..Len(srvGot') : srvGot'[j] = Tls(j)
  <2>1. \A j \in 1..1 : b[j] = Tls(Len(srvGot) + j)
    BY <1>4, <1>7, <1>8, <1>9
  <2>2. \A j \in 1..Len(srvGot) : srvGot[j] = Tls(j)
    BY <1>0 DEF OutboundInv
  <2> QED  BY <1>1, <1>7, <1>9, <2>1, <2>2, GotMore
<1>11. AllGood(S')
  BY <1>4, <1>5, <1>7, AllGoodRest
<1>12. OutboundInv'
  BY <1>6, <1>8, <1>10, <1>11 DEF OutboundInv
<1>13. Len(srvGot') >= Len(srvGot)
  BY <1>1, <1>10
<1> QED  BY <1>2, <1>3, <1>8, <1>10, <1>12, <1>13, ServerReadFrame

\* What the server puts into the socket comes at the end of the stream.
LEMMA InboundJoin ==
    ASSUME WrapperTypes, UNCHANGED <<hdrBuf, remaining>>, NEW x \in Seq(Byte), incoming' = Join(incoming, x)
    PROVE  Inbound \in Seq(Byte) /\ Inbound' = Join(Inbound, x) /\ incoming' \in Seq(Byte)
<1>1. incoming \in Seq(Byte) /\ hdrBuf \in Seq(Byte)
  BY DEF WrapperTypes
<1>2. Join(hdrBuf, Join(incoming, x)) = Join(Join(hdrBuf, incoming), x)
  BY <1>1, JoinAssociative
<1>3. Inbound' = Join(Inbound, x)
  BY <1>2 DEF Inbound
<1>4. Inbound \in Seq(Byte) /\ incoming' \in Seq(Byte)
  BY <1>1, JoinTypes DEF Inbound
<1> QED  BY <1>3, <1>4

\* What the server leaves alone when it sends.
LEMMA ServerSendFrame ==
    ASSUME WrapperInv,
           UNCHANGED <<pending, hdrBuf, remaining, wrBuf, hdrWritten, tls, round, wrote, got, outgoing,
                       srvGot, srvLeft>>,
           incoming' \in Seq(Byte), srvSent' \in Nat,
           srvState' = srvState \/ srvState' = "closed", Answers',
           Reads => Expects(Inbound', remaining, Len(got), srvSent', AllServer)
    PROVE  WrapperInv'
<1>0. /\ WrapperTypes /\ Progress /\ Buffered /\ InboundInv /\ OutboundInv
  BY DEF WrapperInv
<1>1. WrapperTypes'
  BY <1>0 DEF WrapperTypes
<1>2. Progress'
  BY <1>0 DEF Progress
<1>3. Buffered'
  BY <1>0 DEF Buffered
<1>4. OutboundInv'
  BY <1>0, OutboundFrame
<1>5. InboundInv'
  BY <1>0 DEF InboundInv, Reads
<1> QED  BY <1>1, <1>2, <1>3, <1>4, <1>5 DEF WrapperInv

LEMMA SrvSendStep ==
    ASSUME WrapperInv, NEW n \in 1..AllServer, SrvSend(n)
    PROVE  WrapperInv'
<1> DEFINE h == Header("hdr", HeaderBytes + n)
           b == TlsBytes(srvSent, n)
           x == Join(h, b)
           S == Inbound
           T == Join(S, x)
<1>0. WrapperTypes /\ Answers /\ InboundInv
  BY DEF WrapperInv
<1>1. /\ n \in Nat /\ n > 0 /\ srvSent \in Nat /\ HeaderBytes \in Nat /\ HeaderBytes + n \in Nat
      /\ AllServer \in Nat /\ incoming \in Seq(Byte) /\ remaining \in Nat /\ Len(got) \in Nat
  BY <1>0, FlightsAre, Sizes DEF WrapperTypes
<1>2. PICK i \in 1..Len(Flights) :
          Len(srvGot) >= ClientBytes(i) /\ srvSent + n <= ServerBytes(i)
  BY DEF SrvSend
<1>3. /\ incoming' = Join(Join(incoming, h), b) /\ srvSent' = srvSent + n
      /\ UNCHANGED <<pending, hdrBuf, remaining, wrBuf, hdrWritten, tls, round, wrote, got, outgoing,
                     srvGot, srvLeft, srvState>>
  BY DEF SrvSend, Join, wrapVars, tlsVars
<1>4. /\ h \in Seq(Byte) /\ Len(h) = HeaderBytes
      /\ \A j \in 1..HeaderBytes : h[j] = [kind |-> "hdr", pos |-> j, len |-> HeaderBytes + n]
  BY <1>1, HeaderIs
<1>5. b \in Seq(Byte) /\ Len(b) = n /\ \A j \in 1..n : b[j] = Tls(srvSent + j)
  BY <1>1, TlsBytesAre
<1> HIDE DEF h, b
<1>6. incoming' = Join(incoming, x)
  BY <1>1, <1>3, <1>4, <1>5, JoinAssociative
<1>7. /\ x \in Seq(Byte) /\ Len(x) = HeaderBytes + n
      /\ \A j \in 1..HeaderBytes : x[j] = h[j]
      /\ \A j \in 1..n : x[HeaderBytes + j] = b[j]
  BY <1>4, <1>5, JoinTypes
<1> HIDE DEF x
<1>8. S \in Seq(Byte) /\ S' = T /\ incoming' \in Seq(Byte)
  BY <1>0, <1>3, <1>6, <1>7, InboundJoin
<1>9. srvSent + n <= AllServer
  <2>1. i \in 0..Len(Flights) /\ Len(Flights) \in 0..Len(Flights) /\ i <= Len(Flights)
    BY FlightsAre
  <2>2. ServerBytes(i) <= AllServer /\ ServerBytes(i) \in Nat
    BY <2>1, FlightsGrow, FlightsAre
  <2> QED  BY <1>1, <1>2, <2>2
<1>10. Longer(T, S, srvSent, srvSent + n, AllServer) /\ T \in Seq(Byte)
  <2> HIDE DEF S
  <2>1. /\ T \in Seq(Byte) /\ Len(T) = Len(S) + Len(x) /\ BeginsWith(T, S)
        /\ \A j \in 1..Len(x) : T[Len(S) + j] = x[j]
    BY <1>7, <1>8, JoinTypes, JoinBegins
  <2> HIDE DEF T
  <2>2. Len(T) = Len(S) + HeaderBytes + n
    BY <1>1, <1>7, <1>8, <2>1
  <2>3. ASSUME NEW j \in 1..HeaderBytes
        PROVE  T[Len(S) + j] = [kind |-> "hdr", pos |-> j, len |-> HeaderBytes + n]
    <3>1. j \in 1..Len(x)
      BY <1>1, <1>7
    <3> QED  BY <1>4, <1>7, <2>1, <3>1
  <2>4. ASSUME NEW j \in 1..n  PROVE T[Len(S) + HeaderBytes + j] = Tls(srvSent + j)
    <3>1. HeaderBytes + j \in 1..Len(x) /\ Len(S) + (HeaderBytes + j) = Len(S) + HeaderBytes + j
      BY <1>1, <1>7, <1>8
    <3>2. T[Len(S) + (HeaderBytes + j)] = Tls(srvSent + j)
      BY <1>5, <1>7, <2>1, <3>1
    <3> QED  BY <3>1, <3>2
  <2> QED  BY <1>1, <1>8, <1>9, <2>1, <2>2, <2>3, <2>4, LongerPacket
<1>11. ASSUME Reads  PROVE Expects(S', remaining, Len(got), srvSent', AllServer)
  <2>1. Expects(S, remaining, Len(got), srvSent, AllServer)
    BY <1>0, <1>11 DEF InboundInv
  <2>2. srvSent + n \in Nat
    BY <1>1
  <2> HIDE DEF S, T
  <2>3. Expects(T, remaining, Len(got), srvSent + n, AllServer)
    BY <1>1, <1>8, <1>10, <2>1, <2>2, ExpectsOn
  <2> QED  BY <1>3, <1>8, <2>3
<1>12. Answers'
  <2>1. ASSUME NEW k \in 1..Len(Flights), Len(srvGot) < ClientBytes(k)
        PROVE  srvSent + n <= ServerBytes(k - 1)
    <3>1. /\ i \in 0..Len(Flights) /\ k \in 0..Len(Flights) /\ k - 1 \in 0..Len(Flights)
          /\ Len(srvGot) \in Nat
      BY <1>0, FlightsAre DEF WrapperTypes
    <3>2. /\ ClientBytes(i) \in Nat /\ ClientBytes(k) \in Nat
          /\ ServerBytes(i) \in Nat /\ ServerBytes(k - 1) \in Nat
      BY <3>1, FlightsAre
    <3>3. i < k
      <4>1. k <= i => ClientBytes(k) <= ClientBytes(i)
        BY <3>1, FlightsGrow
      <4> QED  BY <1>2, <2>1, <3>1, <3>2, <4>1
    <3>4. ServerBytes(i) <= ServerBytes(k - 1)
      <4>1. i <= k - 1
        BY <3>1, <3>3
      <4> QED  BY <3>1, <4>1, FlightsGrow
    <3> QED  BY <1>1, <1>2, <3>2, <3>4
  <2> QED  BY <1>3, <2>1 DEF Answers
<1>13. srvSent' \in Nat
  BY <1>1, <1>3
<1> QED  BY <1>3, <1>8, <1>11, <1>12, <1>13, ServerSendFrame

LEMMA SrvSendRawStep ==
    ASSUME WrapperInv, NEW n \in 1..RawBytes, SrvSendRaw(n)
    PROVE  WrapperInv'
<1> DEFINE x == TlsBytes(srvSent, n)
           S == Inbound
           T == Join(S, x)
<1>0. WrapperTypes /\ Answers /\ InboundInv
  BY DEF WrapperInv
<1>1. /\ n \in Nat /\ n > 0 /\ srvSent \in Nat /\ AllServer \in Nat /\ AllClient \in Nat
      /\ incoming \in Seq(Byte) /\ remaining \in Nat /\ Len(got) \in Nat /\ Len(srvGot) \in Nat
  BY <1>0, WrapperAssumption, FlightsAre DEF WrapperTypes
<1>2. /\ incoming' = Join(incoming, x) /\ srvSent' = srvSent + n
      /\ Len(srvGot) >= AllClient /\ srvSent >= AllServer
      /\ UNCHANGED <<pending, hdrBuf, remaining, wrBuf, hdrWritten, tls, round, wrote, got, outgoing,
                     srvGot, srvLeft, srvState>>
  BY DEF SrvSendRaw, Join, wrapVars, tlsVars
<1>3. x \in Seq(Byte) /\ Len(x) = n /\ \A j \in 1..n : x[j] = Tls(srvSent + j)
  BY <1>1, TlsBytesAre
<1> HIDE DEF x
<1>4. S \in Seq(Byte) /\ S' = T /\ incoming' \in Seq(Byte)
  BY <1>0, <1>2, <1>3, InboundJoin
<1>5. Longer(T, S, srvSent, srvSent + n, AllServer) /\ T \in Seq(Byte)
  <2> HIDE DEF S
  <2>1. /\ T \in Seq(Byte) /\ Len(T) = Len(S) + n /\ BeginsWith(T, S)
        /\ \A j \in 1..n : T[Len(S) + j] = x[j]
    BY <1>3, <1>4, JoinTypes, JoinBegins
  <2> HIDE DEF T
  <2>2. \A j \in 1..n : T[Len(S) + j] = Tls(srvSent + j)
    BY <1>3, <2>1
  <2> QED  BY <1>1, <1>2, <1>4, <2>1, <2>2, LongerRaw
<1>6. ASSUME Reads  PROVE Expects(S', remaining, Len(got), srvSent', AllServer)
  <2>1. Expects(S, remaining, Len(got), srvSent, AllServer)
    BY <1>0, <1>6 DEF InboundInv
  <2>2. srvSent + n \in Nat
    BY <1>1
  <2> HIDE DEF S, T
  <2>3. Expects(T, remaining, Len(got), srvSent + n, AllServer)
    BY <1>1, <1>4, <1>5, <2>1, <2>2, ExpectsOn
  <2> QED  BY <1>2, <1>4, <2>3
<1>7. Answers'
  <2>1. ASSUME NEW k \in 1..Len(Flights), Len(srvGot) < ClientBytes(k)  PROVE FALSE
    <3>1. k \in 0..Len(Flights) /\ Len(Flights) \in 0..Len(Flights) /\ k <= Len(Flights)
      BY FlightsAre
    <3>2. ClientBytes(k) <= AllClient /\ ClientBytes(k) \in Nat
      BY <3>1, FlightsGrow, FlightsAre
    <3> QED  BY <1>1, <1>2, <2>1, <3>2
  <2> QED  BY <1>2, <2>1 DEF Answers
<1>8. srvSent' \in Nat
  BY <1>1, <1>2
<1> QED  BY <1>2, <1>4, <1>6, <1>7, <1>8, ServerSendFrame

\* A header that promises no payload is sent.
LEMMA BareHeaderStep ==
    ASSUME WrapperInv, srvSent < AllServer,
           UNCHANGED <<pending, hdrBuf, remaining, wrBuf, hdrWritten, tls, round, wrote, got, outgoing,
                       srvGot, srvLeft, srvSent>>,
           srvState' = srvState \/ srvState' = "closed",
           NEW kind \in {"hdr", "bad"}, NEW len \in Nat, kind = "hdr" => len <= HeaderBytes,
           incoming' = Join(incoming, Header(kind, len))
    PROVE  WrapperInv'
<1> DEFINE S == Inbound
           x == Header(kind, len)
           T == Join(S, x)
<1>0. WrapperTypes /\ Answers /\ InboundInv
  BY DEF WrapperInv
<1>1. /\ srvSent \in Nat /\ AllServer \in Nat /\ HeaderBytes \in Nat /\ HeaderBytes > 0
      /\ incoming \in Seq(Byte) /\ remaining \in Nat /\ Len(got) \in Nat
  BY <1>0, FlightsAre, Sizes DEF WrapperTypes
<1>4. /\ x \in Seq(Byte) /\ Len(x) = HeaderBytes
      /\ \A j \in 1..HeaderBytes : x[j] = [kind |-> kind, pos |-> j, len |-> len]
  BY HeaderIs
<1>5. incoming' = Join(incoming, x)
  OBVIOUS
<1> HIDE DEF x
<1>6. S \in Seq(Byte) /\ S' = T /\ incoming' \in Seq(Byte)
  BY <1>0, <1>4, <1>5, InboundJoin
<1>7. Longer(T, S, srvSent, srvSent, AllServer) /\ T \in Seq(Byte)
  <2> HIDE DEF S
  <2>1. /\ T \in Seq(Byte) /\ Len(T) = Len(S) + HeaderBytes /\ BeginsWith(T, S)
        /\ \A j \in 1..HeaderBytes : T[Len(S) + j] = x[j]
    BY <1>4, <1>6, JoinTypes, JoinBegins
  <2> HIDE DEF T
  <2>2. \A j \in 1..HeaderBytes : T[Len(S) + j] = [kind |-> kind, pos |-> j, len |-> len]
    BY <1>4, <2>1
  <2> QED  BY <1>1, <1>6, <2>1, <2>2, LongerBad
<1>8. ASSUME Reads  PROVE Expects(S', remaining, Len(got), srvSent', AllServer)
  <2>1. Expects(S, remaining, Len(got), srvSent, AllServer)
    BY <1>0, <1>8 DEF InboundInv
  <2> HIDE DEF S, T
  <2>2. Expects(T, remaining, Len(got), srvSent, AllServer)
    BY <1>1, <1>6, <1>7, <2>1, ExpectsOn
  <2> QED  BY <1>6, <2>2
<1>9. Answers' /\ srvSent' \in Nat
  BY <1>0, <1>1 DEF Answers
<1> QED  BY <1>6, <1>8, <1>9, ServerSendFrame

LEMMA SrvBadHeaderStep ==
    ASSUME WrapperInv, SrvBadHeader
    PROVE  WrapperInv'
<1>1. /\ srvSent < AllServer /\ srvState' = "closed"
      /\ UNCHANGED <<pending, hdrBuf, remaining, wrBuf, hdrWritten, tls, round, wrote, got, outgoing,
                     srvGot, srvLeft, srvSent>>
  BY DEF SrvBadHeader, wrapVars, tlsVars
<1>2. HeaderBytes + 1 \in Nat /\ HeaderBytes - 1 \in Nat /\ HeaderBytes - 1 <= HeaderBytes
  BY Sizes
<1>3. \/ incoming' = Join(incoming, Header("bad", HeaderBytes + 1))
      \/ incoming' = Join(incoming, Header("hdr", HeaderBytes - 1))
  BY DEF SrvBadHeader, Join
<1>4. CASE incoming' = Join(incoming, Header("bad", HeaderBytes + 1))
  BY <1>1, <1>2, <1>4, BareHeaderStep
<1>5. CASE incoming' = Join(incoming, Header("hdr", HeaderBytes - 1))
  BY <1>1, <1>2, <1>5, BareHeaderStep
<1> QED  BY <1>3, <1>4, <1>5

LEMMA SrvEmptyStep ==
    ASSUME WrapperInv, SrvEmpty
    PROVE  WrapperInv'
<1>1. /\ srvSent < AllServer /\ srvState' = srvState
      /\ incoming' = Join(incoming, Header("hdr", HeaderBytes))
      /\ UNCHANGED <<pending, hdrBuf, remaining, wrBuf, hdrWritten, tls, round, wrote, got, outgoing,
                     srvGot, srvLeft, srvSent>>
  BY DEF SrvEmpty, Join, wrapVars, tlsVars, srvVars
<1>2. HeaderBytes \in Nat /\ HeaderBytes <= HeaderBytes
  BY Sizes
<1> QED  BY <1>1, <1>2, BareHeaderStep

LEMMA SrvCloseStep ==
    ASSUME WrapperInv, SrvClose
    PROVE  WrapperInv'
<1>0. WrapperTypes /\ Answers /\ InboundInv
  BY DEF WrapperInv
<1>1. /\ srvState' = "closed"
      /\ UNCHANGED <<pending, hdrBuf, remaining, wrBuf, hdrWritten, tls, round, wrote, got, outgoing, incoming,
                     srvGot, srvLeft, srvSent>>
  BY DEF SrvClose, wrapVars, tlsVars
<1>2. incoming' \in Seq(Byte) /\ srvSent' \in Nat /\ Answers'
  BY <1>0, <1>1 DEF WrapperTypes, Answers
<1>3. Inbound' = Inbound
  BY <1>1 DEF Inbound
<1>4. Reads => Expects(Inbound', remaining, Len(got), srvSent', AllServer)
  BY <1>0, <1>1, <1>3 DEF InboundInv
<1> QED  BY <1>1, <1>2, <1>4, ServerSendFrame

-----------------------------------------------------------------------------
(* The theorems                                                             *)

LEMMA WrapperStep ==
    "tail" \notin Faults /\ WrapperInv /\ [WrapperNext]_wrapperVars => WrapperInv'
<1> SUFFICES ASSUME "tail" \notin Faults, WrapperInv, [WrapperNext]_wrapperVars  PROVE WrapperInv'
  OBVIOUS
<1>1. CASE \E n \in 1..AllClient : PollWrite(n)
  BY <1>1, PollWriteStep
<1>2. CASE TlsFlush \/ FlushPanics
  BY <1>2, TlsFlushStep
<1>3. CASE \E n \in 0..Len(wrBuf) : FlushPending(n)
  BY <1>3, FlushPendingStep
<1>4. CASE FlushReady
  BY <1>4, FlushReadyStep
<1>5. CASE FlushNothing
  BY <1>5, FlushNothingStep
<1>6. CASE \E a \in 0..Len(incoming) : ReadHeaderPart(a)
  BY <1>6, ReadHeaderPartStep
<1>7. CASE \E a \in 0..Len(incoming) : ReadBadHeader(a)
  BY <1>7, ReadBadHeaderStep
<1>8. CASE \E a \in 0..Len(incoming) : ReadHeader(a)
  BY <1>8, ReadHeaderStep
<1>9. CASE \E a \in 0..Len(incoming), n \in 0..Len(incoming) : ReadPayload(a, n)
  BY <1>9, ReadPayloadStep
<1>10. CASE HandshakeComplete
  BY <1>10, HandshakeCompleteStep
<1>11. CASE \E n \in 1..RawBytes : RawWrite(n)
  BY <1>11, RawWriteStep
<1>12. CASE \E n \in 1..RawBytes : RawRead(n)
  BY <1>12, RawReadStep
<1>13. CASE SrvHeader
  BY <1>13, SrvHeaderStep
<1>14. CASE SrvRead
  BY <1>14, SrvReadStep
<1>15. CASE \E n \in 1..AllServer : SrvSend(n)
  BY <1>15, SrvSendStep
<1>16. CASE \E n \in 1..RawBytes : SrvSendRaw(n)
  BY <1>16, SrvSendRawStep
<1>17. CASE SrvBadHeader
  BY <1>17, SrvBadHeaderStep
<1>18. CASE SrvClose
  BY <1>18, SrvCloseStep
<1>23. CASE SrvEmpty
  BY <1>23, SrvEmptyStep
<1>19. CASE UNCHANGED wrapperVars
  <2>1. UNCHANGED <<pending, hdrBuf, remaining, wrBuf, hdrWritten, tls, round, wrote, got, outgoing, incoming,
                    srvGot, srvLeft, srvSent, srvState>>
    BY <1>19 DEF wrapperVars, wrapVars, tlsVars, srvVars
  <2>2. WrapperTypes /\ Answers /\ InboundInv
    BY DEF WrapperInv
  <2>3. incoming' \in Seq(Byte) /\ srvSent' \in Nat /\ Answers'
    BY <2>1, <2>2 DEF WrapperTypes, Answers
  <2>4. Inbound' = Inbound
    BY <2>1 DEF Inbound
  <2>5. Reads => Expects(Inbound', remaining, Len(got), srvSent', AllServer)
    BY <2>1, <2>2, <2>4 DEF InboundInv
  <2> QED  BY <2>1, <2>3, <2>5, ServerSendFrame
<1>20. CASE PollFlush
  BY <1>2, <1>3, <1>4, <1>5, <1>20 DEF PollFlush
<1>21. CASE PollRead
  BY <1>6, <1>7, <1>8, <1>9, <1>21 DEF PollRead
<1>22. CASE SrvStep
  BY <1>13, <1>14, <1>15, <1>16, <1>17, <1>18, <1>22, <1>23 DEF SrvStep
<1> QED
  BY <1>1, <1>2, <1>10, <1>11, <1>12, <1>19, <1>20, <1>21, <1>22 DEF WrapperNext

LEMMA WrapperInvariant ==
    ASSUME "tail" \notin Faults
    PROVE  WrapperSpec => []WrapperInv
<1>1. WrapperInit => WrapperInv
  BY WrapperBegins
<1>2. WrapperInv /\ [WrapperNext]_wrapperVars => WrapperInv'
  BY WrapperStep
<1> QED  BY <1>1, <1>2, PTL DEF WrapperSpec

\* poll_read hands the TLS library the server's TLS stream, from its first byte
\* and without a gap, wherever packets and reads are cut.
THEOREM ReadsTheStream == "tail" \notin Faults => (WrapperSpec => []InboundFaithful)
<1> SUFFICES ASSUME "tail" \notin Faults  PROVE WrapperSpec => []InboundFaithful
  OBVIOUS
<1>1. WrapperInv => InboundFaithful
  <2> SUFFICES ASSUME WrapperInv  PROVE InboundFaithful
    OBVIOUS
  <2>1. got \in Seq(Byte) /\ \A j \in 1..Len(got) : got[j] = Tls(j)
    BY DEF WrapperInv, WrapperTypes, InboundInv
  <2> QED  BY <2>1, IsStream DEF InboundFaithful
<1> QED  BY <1>1, WrapperInvariant, PTL

\* poll_flush writes packets that carry the client's TLS stream: the server
\* meets a header wherever it expects one, and no header inside the stream.
THEOREM WritesTheStream == "tail" \notin Faults => (WrapperSpec => []OutboundFaithful)
<1> SUFFICES ASSUME "tail" \notin Faults  PROVE WrapperSpec => []OutboundFaithful
  OBVIOUS
<1>1. WrapperInv => OutboundFaithful
  <2> SUFFICES ASSUME WrapperInv  PROVE OutboundFaithful
    OBVIOUS
  <2>1. srvGot \in Seq(Byte) /\ \A j \in 1..Len(srvGot) : srvGot[j] = Tls(j)
    BY DEF WrapperInv, WrapperTypes, OutboundInv
  <2>2. srvState \in {"open", "closed"}
    BY DEF WrapperInv, WrapperTypes
  <2> QED  BY <2>1, <2>2, IsStream DEF OutboundFaithful
<1> QED  BY <1>1, WrapperInvariant, PTL

\* A flush that poll_flush reports ready has sent the whole frame.
THEOREM FlushIsComplete == "tail" \notin Faults => (WrapperSpec => []FlushedMeansSent)
<1> SUFFICES ASSUME "tail" \notin Faults  PROVE WrapperSpec => []FlushedMeansSent
  OBVIOUS
<1>1. WrapperInv => FlushedMeansSent
  BY DEF WrapperInv, Buffered, FlushedMeansSent
<1> QED  BY <1>1, WrapperInvariant, PTL

-----------------------------------------------------------------------------
(* The end of the stream, until a packet comes without payload              *)

EmptyFree(S) == \A k \in 1..Len(S) : ~(S[k].kind = "hdr" /\ S[k].len = HeaderBytes)

EofInv ==
    /\ tls = "eof" => srvState = "closed"
    /\ EmptyFree(hdrBuf) /\ EmptyFree(incoming)

LEMMA EmptyFreeJoin ==
    ASSUME NEW S \in Seq(Byte), NEW T \in Seq(Byte), EmptyFree(S), EmptyFree(T)
    PROVE  EmptyFree(Join(S, T))
<1> DEFINE J == Join(S, T)
<1>1. /\ Len(J) = Len(S) + Len(T) /\ \A i \in 1..Len(S) : J[i] = S[i]
      /\ \A i \in 1..Len(T) : J[Len(S) + i] = T[i]
  BY JoinTypes
<1> HIDE DEF J
<1>2. ASSUME NEW k \in 1..Len(J)  PROVE ~(J[k].kind = "hdr" /\ J[k].len = HeaderBytes)
  <2>1. CASE k <= Len(S)
    <3>1. k \in 1..Len(S)
      BY <2>1
    <3> QED  BY <1>1, <3>1 DEF EmptyFree
  <2>2. CASE k > Len(S)
    <3>1. k - Len(S) \in 1..Len(T) /\ Len(S) + (k - Len(S)) = k
      BY <1>1, <2>2
    <3> QED  BY <1>1, <3>1 DEF EmptyFree
  <2> QED  BY <2>1, <2>2
<1> QED  BY <1>2 DEF EmptyFree, J

LEMMA EmptyFreeCut ==
    ASSUME NEW S \in Seq(Byte), EmptyFree(S), NEW m \in Nat, m >= 1, NEW n \in Nat, n <= Len(S)
    PROVE  EmptyFree(SubSeq(S, m, n))
<1> DEFINE C == SubSeq(S, m, n)
<1>1. ASSUME NEW k \in 1..Len(C)  PROVE k + m - 1 \in 1..Len(S) /\ C[k] = S[k + m - 1]
  OBVIOUS
<1> HIDE DEF C
<1> QED  BY <1>1 DEF EmptyFree, C

LEMMA EmptyFreeBytes ==
    ASSUME NEW n \in Nat, NEW q \in Nat
    PROVE  TlsBytes(q, n) \in Seq(Byte) /\ EmptyFree(TlsBytes(q, n))
<1>1. /\ TlsBytes(q, n) \in Seq(Byte) /\ Len(TlsBytes(q, n)) = n
      /\ \A j \in 1..n : TlsBytes(q, n)[j] = Tls(q + j)
  BY TlsBytesAre
<1>2. ASSUME NEW j \in 1..n  PROVE TlsBytes(q, n)[j].kind = "tls"
  BY <1>1 DEF Tls
<1> QED  BY <1>1, <1>2 DEF EmptyFree

LEMMA EmptyFreeHeader ==
    ASSUME NEW kind \in {"hdr", "bad"}, NEW len \in Nat, kind = "hdr" => len # HeaderBytes
    PROVE  Header(kind, len) \in Seq(Byte) /\ EmptyFree(Header(kind, len))
<1> DEFINE h == Header(kind, len)
<1>1. /\ h \in Seq(Byte) /\ Len(h) = HeaderBytes
      /\ \A j \in 1..HeaderBytes : h[j] = [kind |-> kind, pos |-> j, len |-> len]
  BY HeaderIs
<1> HIDE DEF h
<1>2. ASSUME NEW j \in 1..HeaderBytes  PROVE h[j].kind = kind /\ h[j].len = len
  BY <1>1
<1>3. h \in Seq(Byte) /\ EmptyFree(h)
  BY <1>1, <1>2 DEF EmptyFree
<1> QED  BY <1>3 DEF h

\* poll_read hands out nothing only at the end of the stream.
LEMMA NotEmptyRead ==
    ASSUME WrapperInv, EofInv, NEW a \in 0..Len(incoming), NEW n \in 0..Len(incoming), ReadPayload(a, n)
    PROVE  n # 0
<1>0. WrapperTypes /\ Progress /\ InboundInv
  BY DEF WrapperInv
<1>1. tls = "read" /\ Complete(a) /\ (HeaderLeft > 0 => GoodHeader) /\ n \in ReadSizes(a)
  BY DEF ReadPayload
<1>2. /\ HeaderLeft \in Nat /\ HeaderLeft <= a
      /\ NextHeader \in Seq(Byte) /\ Len(NextHeader) = HeaderBytes /\ LeftInPacket \in Nat
  BY <1>0, <1>1, AtPayload
<1>3. /\ incoming \in Seq(Byte) /\ hdrBuf \in Seq(Byte) /\ Len(incoming) \in Nat /\ HeaderBytes \in Nat
      /\ HeaderBytes > 0 /\ remaining \in Nat /\ a \in Nat /\ a <= Len(incoming)
  BY <1>0, Sizes DEF WrapperTypes
<1>4. CASE HeaderLeft = 0
  <2>1. Len(hdrBuf) = HeaderBytes
    BY <1>3, <1>4 DEF HeaderLeft
  <2>2. remaining > 0
    BY <1>0, <1>1, <1>3, <2>1 DEF InboundInv, Reads
  <2>3. LeftInPacket # 0
    BY <1>3, <1>4, <2>2 DEF LeftInPacket
  <2> QED  BY <1>1, <2>3 DEF ReadSizes
<1>5. CASE HeaderLeft > 0
  <2>1. EmptyFree(NextHeader)
    <3> DEFINE l == HeaderLeft
    <3>1. l \in Nat /\ l <= Len(incoming) /\ 1 \in Nat /\ 1 >= 1
      BY <1>2, <1>3
    <3> HIDE DEF l
    <3>2. SubSeq(incoming, 1, l) \in Seq(Byte)
      BY <1>3, <3>1, Cut
    <3>3. EmptyFree(SubSeq(incoming, 1, l))
      BY <1>3, <3>1, EmptyFreeCut DEF EofInv
    <3>4. EmptyFree(Join(hdrBuf, SubSeq(incoming, 1, l)))
      BY <1>3, <3>2, <3>3, EmptyFreeJoin DEF EofInv
    <3> QED  BY <3>4 DEF NextHeader, Join, l
  <2>2. NextHeader[1].kind = "hdr" /\ NextHeader[1].len # HeaderBytes
    <3>1. 1 \in 1..Len(NextHeader)
      BY <1>2, <1>3
    <3> QED  BY <1>1, <1>5, <2>1, <3>1 DEF EmptyFree, GoodHeader
  <2>3. NextHeader[1].len \in Nat
    <3>1. 1 \in 1..Len(NextHeader)
      BY <1>2, <1>3
    <3> QED  BY <1>2, <3>1, ByteAt
  <2>4. LeftInPacket # 0
    BY <1>3, <1>5, <2>2, <2>3 DEF LeftInPacket
  <2> QED  BY <1>1, <2>4 DEF ReadSizes
<1> QED  BY <1>2, <1>4, <1>5

LEMMA EofRead ==
    ASSUME WrapperInv, EofInv, PollRead
    PROVE  EofInv'
<1>0. WrapperTypes /\ Progress /\ InboundInv
  BY DEF WrapperInv
<1>1. /\ incoming \in Seq(Byte) /\ hdrBuf \in Seq(Byte) /\ Len(incoming) \in Nat
      /\ EmptyFree(hdrBuf) /\ EmptyFree(incoming)
  BY <1>0 DEF WrapperTypes, EofInv
<1>2. \A m \in 0..Len(incoming) :
          /\ SubSeq(incoming, 1, m) \in Seq(Byte) /\ EmptyFree(SubSeq(incoming, 1, m))
          /\ EmptyFree(SubSeq(incoming, m + 1, Len(incoming)))
          /\ EmptyFree(Join(hdrBuf, SubSeq(incoming, 1, m)))
  <2> SUFFICES ASSUME NEW m \in 0..Len(incoming)
               PROVE  /\ SubSeq(incoming, 1, m) \in Seq(Byte) /\ EmptyFree(SubSeq(incoming, 1, m))
                      /\ EmptyFree(SubSeq(incoming, m + 1, Len(incoming)))
                      /\ EmptyFree(Join(hdrBuf, SubSeq(incoming, 1, m)))
    OBVIOUS
  <2>1. m \in Nat /\ m <= Len(incoming) /\ m + 1 \in Nat /\ m + 1 >= 1 /\ 1 \in Nat /\ 1 >= 1
    OBVIOUS
  <2>2. SubSeq(incoming, 1, m) \in Seq(Byte)
    BY <1>1, <2>1, Cut
  <2>3. EmptyFree(SubSeq(incoming, 1, m))
    BY <1>1, <2>1, EmptyFreeCut
  <2>4. Len(incoming) <= Len(incoming)
    BY <1>1
  <2>5. EmptyFree(SubSeq(incoming, m + 1, Len(incoming)))
    BY <1>1, <2>1, <2>4, EmptyFreeCut
  <2>6. EmptyFree(Join(hdrBuf, SubSeq(incoming, 1, m)))
    BY <1>1, <2>2, <2>3, EmptyFreeJoin
  <2> QED  BY <2>2, <2>3, <2>5, <2>6
<1>3. EmptyFree(<<>>)
  BY DEF EmptyFree
<1>4. ASSUME NEW a \in 0..Len(incoming), tls = "read", Complete(a)
      PROVE  HeaderLeft \in 0..Len(incoming) /\ EmptyFree(NextHeader)
  <2>1. HeaderLeft \in 0..Len(incoming)
    <3>1. HeaderLeft \in Nat /\ HeaderLeft <= a
      BY <1>0, <1>4, AtPayload
    <3> QED  BY <1>1, <3>1
  <2> QED  BY <1>2, <2>1 DEF NextHeader, Join
<1>5. ASSUME NEW a \in 0..Len(incoming), ReadHeaderPart(a)  PROVE EofInv'
  <2>1. /\ hdrBuf' = Join(hdrBuf, SubSeq(incoming, 1, a)) /\ incoming' = SubSeq(incoming, a + 1, Len(incoming))
        /\ tls' = (IF AtEnd(a) THEN "eof" ELSE "read") /\ srvState' = srvState
    BY <1>5 DEF ReadHeaderPart, Join, srvVars
  <2> QED  BY <1>2, <2>1 DEF EofInv, AtEnd
<1>6. ASSUME NEW a \in 0..Len(incoming), ReadBadHeader(a) \/ ReadHeader(a)  PROVE EofInv'
  <2>1. /\ tls = "read" /\ Complete(a)
        /\ hdrBuf' = NextHeader /\ incoming' = SubSeq(incoming, HeaderLeft + 1, Len(incoming))
        /\ tls' = "eof" => AtEnd(a)
        /\ srvState' = srvState
    BY <1>6 DEF ReadBadHeader, ReadHeader, srvVars
  <2> QED  BY <1>2, <1>4, <2>1 DEF EofInv, AtEnd
<1>7. ASSUME NEW a \in 0..Len(incoming), NEW n \in 0..Len(incoming), ReadPayload(a, n)  PROVE EofInv'
  <2>1. n # 0
    BY <1>7, NotEmptyRead
  <2>2. /\ tls = "read" /\ Complete(a)
        /\ hdrBuf' \in {<<>>, NextHeader} /\ incoming' = SubSeq(incoming, HeaderLeft + n + 1, Len(incoming))
        /\ tls' # "eof"
    BY <1>7, <2>1 DEF ReadPayload, HeaderAfter, AfterRead
  <2>3. EmptyFree(incoming')
    <3> DEFINE m == HeaderLeft + n + 1
    <3>1. m \in Nat /\ m >= 1 /\ Len(incoming) <= Len(incoming)
      <4>1. HeaderLeft \in 0..Len(incoming)
        BY <1>4, <2>2
      <4> QED  BY <1>1, <4>1
    <3> HIDE DEF m
    <3>2. EmptyFree(SubSeq(incoming, m, Len(incoming)))
      BY <1>1, <3>1, EmptyFreeCut
    <3> QED  BY <2>2, <3>2 DEF m
  <2>4. EmptyFree(hdrBuf')
    BY <1>3, <1>4, <2>2
  <2> QED  BY <2>2, <2>3, <2>4 DEF EofInv
<1> QED  BY <1>5, <1>6, <1>7 DEF PollRead

LEMMA EofStep ==
    ASSUME ~srvHollow', WrapperInv, EofInv, [WrapperNext]_wrapperVars
    PROVE  EofInv'
<1>0. /\ incoming \in Seq(Byte) /\ Len(incoming) \in Nat /\ srvSent \in Nat /\ EmptyFree(hdrBuf)
      /\ EmptyFree(incoming) /\ HeaderBytes \in Nat /\ HeaderBytes > 0
  BY Sizes DEF WrapperInv, WrapperTypes, EofInv
<1>2. CASE \E n \in 1..AllClient : PollWrite(n)
  BY <1>2 DEF EofInv, PollWrite, srvVars
<1>3. CASE TlsFlush
  BY <1>3 DEF EofInv, TlsFlush, wrapVars
<1>4. CASE PollFlush
  <2>1. UNCHANGED <<hdrBuf, incoming, srvState>> /\ tls = "flush" /\ tls' # "eof"
    BY <1>4 DEF PollFlush, FlushPanics, FlushPending, FlushReady, FlushNothing, AfterFlush,
                wrapVars, tlsVars, srvVars
  <2> QED  BY <2>1 DEF EofInv
<1>5. CASE PollRead
  BY <1>5, EofRead
<1>6. CASE HandshakeComplete
  BY <1>6 DEF EofInv, HandshakeComplete, tlsVars, srvVars
<1>7. CASE \E n \in 1..RawBytes : RawWrite(n)
  BY <1>7 DEF EofInv, RawWrite, wrapVars, srvVars
<1>8. CASE \E n \in 1..RawBytes : RawRead(n)
  <2>1. PICK n \in 1..RawBytes : RawRead(n)
    BY <1>8
  <2>2. /\ incoming' = SubSeq(incoming, n + 1, Len(incoming)) /\ UNCHANGED <<hdrBuf, tls, srvState>>
    BY <2>1 DEF RawRead, wrapVars, srvVars
  <2>3. n + 1 \in Nat /\ n + 1 >= 1 /\ Len(incoming) <= Len(incoming)
    BY <1>0, WrapperAssumption
  <2>4. EmptyFree(incoming')
    BY <1>0, <2>2, <2>3, EmptyFreeCut
  <2> QED  BY <2>2, <2>4 DEF EofInv
<1>9. ASSUME NEW x \in Seq(Byte), EmptyFree(x), incoming' = Join(incoming, x), UNCHANGED <<hdrBuf, tls>>,
             srvState' = srvState \/ srvState' = "closed"
      PROVE  EofInv'
  <2>1. EmptyFree(incoming')
    BY <1>0, <1>9, EmptyFreeJoin
  <2> QED  BY <1>9, <2>1 DEF EofInv
<1>10. CASE \E n \in 1..AllServer : SrvSend(n)
  <2>1. PICK n \in 1..AllServer : SrvSend(n)
    BY <1>10
  <2> DEFINE h == Header("hdr", HeaderBytes + n)
             b == TlsBytes(srvSent, n)
  <2>2. incoming' = Join(Join(incoming, h), b) /\ UNCHANGED <<hdrBuf, tls, srvState>>
    BY <2>1 DEF SrvSend, Join, wrapVars, tlsVars
  <2>3. n \in Nat /\ n > 0 /\ HeaderBytes + n \in Nat /\ HeaderBytes + n # HeaderBytes
    BY <1>0, FlightsAre
  <2>4. h \in Seq(Byte) /\ EmptyFree(h) /\ b \in Seq(Byte) /\ EmptyFree(b)
    BY <1>0, <2>3, EmptyFreeHeader, EmptyFreeBytes
  <2> HIDE DEF h, b
  <2>5. incoming' = Join(incoming, Join(h, b)) /\ Join(h, b) \in Seq(Byte) /\ EmptyFree(Join(h, b))
    BY <1>0, <2>2, <2>4, JoinAssociative, JoinTypes, EmptyFreeJoin
  <2> QED  BY <1>9, <2>2, <2>5
<1>11. CASE \E n \in 1..RawBytes : SrvSendRaw(n)
  <2>1. PICK n \in 1..RawBytes : SrvSendRaw(n)
    BY <1>11
  <2>2. incoming' = Join(incoming, TlsBytes(srvSent, n)) /\ UNCHANGED <<hdrBuf, tls, srvState>>
    BY <2>1 DEF SrvSendRaw, Join, wrapVars, tlsVars
  <2>3. n \in Nat
    BY WrapperAssumption
  <2> QED  BY <1>0, <1>9, <2>2, <2>3, EmptyFreeBytes
<1>12. CASE SrvBadHeader
  <2>1. /\ srvState' = "closed" /\ UNCHANGED <<hdrBuf, tls>>
        /\ \/ incoming' = Join(incoming, Header("bad", HeaderBytes + 1))
           \/ incoming' = Join(incoming, Header("hdr", HeaderBytes - 1))
    BY <1>12 DEF SrvBadHeader, Join, wrapVars, tlsVars
  <2>2. /\ HeaderBytes + 1 \in Nat /\ HeaderBytes - 1 \in Nat /\ HeaderBytes - 1 # HeaderBytes
    BY <1>0
  <2>3. CASE incoming' = Join(incoming, Header("bad", HeaderBytes + 1))
    BY <1>9, <2>1, <2>2, <2>3, EmptyFreeHeader
  <2>4. CASE incoming' = Join(incoming, Header("hdr", HeaderBytes - 1))
    BY <1>9, <2>1, <2>2, <2>4, EmptyFreeHeader
  <2> QED  BY <2>1, <2>3, <2>4
<1>13. CASE SrvHeader \/ SrvRead
  <2>1. UNCHANGED <<hdrBuf, incoming, tls>> /\ srvState = "open"
    BY <1>13 DEF SrvHeader, SrvRead, wrapVars, tlsVars
  <2> QED  BY <2>1 DEF EofInv
<1>14. CASE SrvClose
  BY <1>14 DEF EofInv, SrvClose, wrapVars, tlsVars
<1>15. CASE SrvEmpty
  BY <1>15 DEF SrvEmpty
<1>16. CASE SrvStep
  BY <1>10, <1>11, <1>12, <1>13, <1>14, <1>15, <1>16 DEF SrvStep
<1>17. CASE UNCHANGED wrapperVars
  BY <1>17 DEF EofInv, wrapperVars, wrapVars, tlsVars, srvVars
<1> QED
  BY <1>2, <1>3, <1>4, <1>5, <1>6, <1>7, <1>8, <1>16, <1>17 DEF WrapperNext

LEMMA HollowStays == srvHollow /\ [WrapperNext]_wrapperVars => srvHollow'
<1> SUFFICES ASSUME srvHollow, [WrapperNext]_wrapperVars  PROVE srvHollow'
  OBVIOUS
<1>1. CASE \/ \E n \in 1..AllClient : PollWrite(n)
           \/ TlsFlush \/ HandshakeComplete
           \/ \E n \in 1..RawBytes : RawWrite(n) \/ RawRead(n)
  BY <1>1 DEF PollWrite, TlsFlush, HandshakeComplete, RawWrite, RawRead, srvVars
<1>2. CASE PollFlush
  BY <1>2 DEF PollFlush, FlushPanics, FlushPending, FlushReady, FlushNothing, srvVars
<1>3. CASE PollRead
  BY <1>3 DEF PollRead, ReadHeaderPart, ReadBadHeader, ReadHeader, ReadPayload, srvVars
<1>4. CASE SrvStep
  BY <1>4 DEF SrvStep, SrvHeader, SrvRead, SrvSend, SrvSendRaw, SrvBadHeader, SrvEmpty, SrvClose
<1>5. CASE UNCHANGED wrapperVars
  BY <1>5 DEF wrapperVars, srvVars
<1> QED  BY <1>1, <1>2, <1>3, <1>4, <1>5 DEF WrapperNext

\* poll_read reports the end of the stream only if the server has closed it or
\* has sent a prelogin packet without payload.
THEOREM EofIsReal == "tail" \notin Faults => (WrapperSpec => []NoSpuriousEof)
<1> SUFFICES ASSUME "tail" \notin Faults  PROVE WrapperSpec => []NoSpuriousEof
  OBVIOUS
<1> DEFINE I == srvHollow \/ EofInv
<1>1. WrapperInit => I
  BY DEF WrapperInit, Fresh, EofInv, EmptyFree
<1>2. WrapperInv /\ I /\ [WrapperNext]_wrapperVars => I'
  BY EofStep, HollowStays
<1>3. I => NoSpuriousEof
  BY DEF EofInv, NoSpuriousEof
<1> HIDE DEF I
<1> QED  BY <1>1, <1>2, <1>3, WrapperInvariant, PTL DEF WrapperSpec

==============================================================================
