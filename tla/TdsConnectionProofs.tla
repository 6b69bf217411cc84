------------------------- MODULE TdsConnectionProofs -------------------------
(***************************************************************************)
(* Machine-checked proofs about TdsConnection, for every bound, every      *)
(* table of responses and every set of faults its assumptions allow.       *)
(***************************************************************************)
EXTENDS TdsConnection, SequenceTheorems, TLAPS

\* The first element of a nonempty sequence, and the rest, keep its type.
LEMMA HeadTail ==
    ASSUME NEW S, NEW s \in Seq(S), s # << >>
    PROVE  Head(s) \in S /\ Tail(s) \in Seq(S)
OBVIOUS

\* Putting a packet on the wire keeps its type, server gone or not.
LEMMA PutType ==
    ASSUME TypeOK, NEW p \in ClientPacket
    PROVE  Put(p) \in Seq(ClientPacket)
BY DEF TypeOK, WireTypes, Put

\* Every step of the client and of the server keeps the types of the
\* connection's fields, of the transport and of the server's state.
LEMMA TypeStep == TypeOK /\ [Next]_vars => TypeOK'
<1> SUFFICES ASSUME TypeOK, [Next]_vars PROVE TypeOK'
  OBVIOUS
<1> USE DEF TypeOK
<1>1. ASSUME NEW o \in Calls, Call(o) PROVE TypeOK'
  <2> USE <1>1 DEF Call
  <2>2. FieldTypes'
    BY DEF FieldTypes, connVars, FlushStream
  <2>3. CallTypes'
    BY DEF CallTypes, callVars, FlushStream, Awaiting, Resting, Ops
  <2>4. WireTypes'
    BY DEF WireTypes, wireVars
  <2>5. ServerTypes'
    BY DEF ServerTypes, srvVars
  <2> QED
    BY <2>2, <2>3, <2>4, <2>5
<1>2. CASE CancelRequest
  <2> USE <1>2 DEF CancelRequest
  <2>2. FieldTypes'
    BY DEF FieldTypes, connVars
  <2>3. CallTypes'
    BY ParameterAssumption DEF CallTypes, callVars, Awaiting, Ops
  <2>4. WireTypes'
    BY DEF WireTypes, wireVars
  <2>5. ServerTypes'
    BY DEF ServerTypes, srvVars
  <2> QED
    BY <2>2, <2>3, <2>4, <2>5
<1>3. CASE EncodeFails
  <2> USE <1>3 DEF EncodeFails
  <2>2. FieldTypes'
    BY DEF FieldTypes, connVars
  <2>3. CallTypes'
    BY DEF CallTypes, callVars, Awaiting, Resting
  <2>4. WireTypes'
    BY DEF WireTypes, wireVars
  <2>5. ServerTypes'
    BY DEF ServerTypes, srvVars
  <2> QED
    BY <2>2, <2>3, <2>4, <2>5
<1>4. CASE FlushPacket
  <2> USE <1>4 DEF FlushPacket
  <2>1. Head(s2c) \in ServerPacket /\ Tail(s2c) \in Seq(ServerPacket)
    BY HeadTail DEF WireTypes
  <2>2. FieldTypes'
    BY <2>1 DEF FieldTypes, connVars, ServerPacket
  <2>3. CallTypes'
    BY DEF CallTypes, callVars, Awaiting, Resting
  <2>4. WireTypes'
    BY <2>1 DEF WireTypes, wireVars
  <2>5. ServerTypes'
    BY DEF ServerTypes, srvVars
  <2> QED
    BY <2>2, <2>3, <2>4, <2>5
<1>5. CASE FlushEnds
  <2> USE <1>5 DEF FlushEnds
  <2>2. FieldTypes'
    BY DEF FieldTypes, connVars
  <2>3. CallTypes'
    BY DEF CallTypes, callVars, Awaiting, Resting
  <2>4. WireTypes'
    BY DEF WireTypes, wireVars
  <2>5. ServerTypes'
    BY DEF ServerTypes, srvVars
  <2> QED
    BY <2>2, <2>3, <2>4, <2>5
<1>6. CASE BeginSend
  <2> USE <1>6 DEF BeginSend
  <2>2. FieldTypes'
    BY DEF FieldTypes, connVars
  <2>3. CallTypes'
    BY ParameterAssumption DEF CallTypes, callVars, Awaiting
  <2>4. WireTypes'
    BY DEF WireTypes, wireVars
  <2>5. ServerTypes'
    BY DEF ServerTypes, srvVars
  <2> QED
    BY <2>2, <2>3, <2>4, <2>5
<1>7. CASE WritePacket
  <2> USE <1>7 DEF WritePacket, PayloadLeft
  <2>2. FieldTypes'
    BY DEF FieldTypes, connVars
  <2>3. CallTypes'
    BY ParameterAssumption DEF CallTypes, callVars
  <2>1. \A e \in BOOLEAN :
          Put([req |-> nreq, op |-> op, eom |-> e]) \in Seq(ClientPacket)
    BY PutType DEF CallTypes, ClientPacket
  <2>4. WireTypes'
    BY <2>1 DEF WireTypes
  <2>5. ServerTypes'
    BY DEF ServerTypes, srvVars
  <2> QED
    BY <2>2, <2>3, <2>4, <2>5
<1>8. CASE WriteDone
  <2> USE <1>8 DEF WriteDone, PayloadLeft, AfterWrite
  <2>2. FieldTypes'
    BY DEF FieldTypes, connVars
  <2>3. CallTypes'
    BY DEF CallTypes, callVars, Awaiting, Resting
  <2>4. WireTypes'
    BY DEF WireTypes, wireVars
  <2>5. ServerTypes'
    BY DEF ServerTypes, srvVars
  <2> QED
    BY <2>2, <2>3, <2>4, <2>5
<1>9. CASE WriteFails
  <2> USE <1>9 DEF WriteFails
  <2>2. FieldTypes'
    BY DEF FieldTypes, connVars
  <2>3. CallTypes'
    BY DEF CallTypes, callVars, Resting
  <2>4. WireTypes'
    BY DEF WireTypes, wireVars
  <2>5. ServerTypes'
    BY DEF ServerTypes, srvVars
  <2> QED
    BY <2>2, <2>3, <2>4, <2>5
<1>10. CASE PollRead
  <2> USE <1>10 DEF PollRead
  <2>1. Head(s2c) \in ServerPacket /\ Tail(s2c) \in Seq(ServerPacket)
    BY HeadTail DEF WireTypes
  <2>2. FieldTypes'
    BY <2>1 DEF FieldTypes, connVars, ServerPacket
  <2>3. CallTypes'
    BY DEF CallTypes, callVars
  <2>4. WireTypes'
    BY <2>1 DEF WireTypes, wireVars
  <2>5. ServerTypes'
    BY DEF ServerTypes, srvVars
  <2> QED
    BY <2>2, <2>3, <2>4, <2>5
<1>11. CASE ReadFails
  <2> USE <1>11 DEF ReadFails
  <2>2. FieldTypes'
    BY DEF FieldTypes, connVars
  <2>3. CallTypes'
    BY DEF CallTypes, callVars, AfterError, Resting
  <2>4. WireTypes'
    BY DEF WireTypes, wireVars
  <2>5. ServerTypes'
    BY DEF ServerTypes, srvVars
  <2> QED
    BY <2>2, <2>3, <2>4, <2>5
<1>12. CASE ReadTokenPart
  <2> USE <1>12 DEF ReadTokenPart
  <2>1. Head(buf) \in Units /\ Tail(buf) \in Seq(Units)
    BY HeadTail DEF FieldTypes
  <2>2. FieldTypes'
    BY <2>1 DEF FieldTypes, connVars, Consume
  <2>3. CallTypes'
    BY DEF CallTypes, callVars
  <2>4. WireTypes'
    BY DEF WireTypes, wireVars, Consume
  <2>5. ServerTypes'
    BY DEF ServerTypes, srvVars
  <2> QED
    BY <2>2, <2>3, <2>4, <2>5
<1>13. CASE ReadToken
  <2> USE <1>13 DEF ReadToken
  <2>1. Head(buf) \in Units /\ Tail(buf) \in Seq(Units)
    BY HeadTail DEF FieldTypes
  <2>2. FieldTypes'
    BY <2>1 DEF FieldTypes, connVars, Consume, Descriptor
  <2>7. pc' \in Awaiting \union Resting
    BY DEF AfterToken, CallTypes, Awaiting, Resting
  <2>8. nreq' \in Nat
    BY DEF CallTypes
  <2>3. CallTypes'
    BY <2>7, <2>8, Zenon DEF CallTypes
  <2>4. WireTypes'
    BY DEF WireTypes, wireVars, Consume
  <2>5. ServerTypes'
    BY DEF ServerTypes, srvVars
  <2>6. seen' \in [call : Nat, from : Nat, aligned : BOOLEAN]
    BY DEF FieldTypes, CallTypes
  <2> QED
    BY <2>2, <2>3, <2>4, <2>5, <2>6
<1>14. CASE Misparse
  <2> USE <1>14 DEF Misparse
  <2>1. PICK n \in 0..Len(buf) : buf' = SubSeq(buf, n + 1, Len(buf))
    OBVIOUS
  <2>2. buf' \in Seq(Units)
    BY <2>1 DEF FieldTypes
  <2>3. txDesc' \in Nat
    BY ParameterAssumption
  <2>4. FieldTypes'
    BY <2>2, <2>3 DEF FieldTypes
  <2>5. CallTypes'
    BY DEF CallTypes, AfterError, AfterToken, Awaiting, Resting
  <2>6. WireTypes' /\ ServerTypes'
    BY DEF WireTypes, ServerTypes, srvVars
  <2>7. seen' \in [call : Nat, from : Nat, aligned : BOOLEAN]
    BY DEF FieldTypes, CallTypes
  <2> QED
    BY <2>4, <2>5, <2>6, <2>7
<1>15. CASE StreamEnds
  <2> USE <1>15 DEF StreamEnds
  <2>1. buf' \in Seq(Units)
    <3>1. CASE FlushStream
      BY <3>1 DEF FlushStream
    <3>2. CASE UNCHANGED buf
      BY <3>2 DEF FieldTypes
    <3> QED
      BY <3>1, <3>2
  <2>2. FieldTypes'
    BY <2>1 DEF FieldTypes
  <2>3. CallTypes'
    BY DEF CallTypes, callVars, FlushStream, AfterError, Awaiting, Resting, Ops
  <2>4. WireTypes'
    BY DEF WireTypes, wireVars
  <2>5. ServerTypes'
    BY DEF ServerTypes, srvVars
  <2> QED
    BY <2>2, <2>3, <2>4, <2>5
<1>16. CASE CommandTimeout
  <2> USE <1>16 DEF CommandTimeout
  <2>2. FieldTypes'
    BY DEF FieldTypes, connVars
  <2>3. CallTypes'
    BY DEF CallTypes, callVars, AfterError, Resting
  <2>4. WireTypes'
    BY DEF WireTypes, wireVars
  <2>5. ServerTypes'
    BY DEF ServerTypes, srvVars
  <2> QED
    BY <2>2, <2>3, <2>4, <2>5
<1>17. CASE Drop
  <2> USE <1>17 DEF Drop, AfterError
  <2>2. FieldTypes'
    BY DEF FieldTypes, connVars
  <2>3. CallTypes'
    BY DEF CallTypes, callVars, Resting
  <2>1. \A e \in BOOLEAN :
          Put([req |-> nreq, op |-> op, eom |-> e]) \in Seq(ClientPacket)
    BY PutType DEF CallTypes, ClientPacket
  <2>4. WireTypes'
    BY <2>1 DEF WireTypes
  <2>5. ServerTypes'
    BY DEF ServerTypes, srvVars
  <2> QED
    BY <2>2, <2>3, <2>4, <2>5
<1>18. CASE DropStream
  <2> USE <1>18 DEF DropStream
  <2>2. FieldTypes'
    BY DEF FieldTypes, connVars
  <2>3. CallTypes'
    BY DEF CallTypes, callVars, Resting
  <2>4. WireTypes'
    BY DEF WireTypes, wireVars
  <2>5. ServerTypes'
    BY DEF ServerTypes, srvVars
  <2> QED
    BY <2>2, <2>3, <2>4, <2>5
<1>19. ASSUME NEW o \in {"bulkrow", "bulkload"}, BulkWrite(o) PROVE TypeOK'
  <2> USE <1>19 DEF BulkWrite
  <2>2. FieldTypes'
    BY DEF FieldTypes, connVars
  <2>3. CallTypes'
    BY ParameterAssumption DEF CallTypes, callVars, Awaiting, Ops
  <2>4. WireTypes'
    BY DEF WireTypes, wireVars
  <2>5. ServerTypes'
    BY DEF ServerTypes, srvVars
  <2> QED
    BY <2>2, <2>3, <2>4, <2>5
<1>20. CASE BulkRejected
  <2> USE <1>20 DEF BulkRejected
  <2>2. FieldTypes'
    BY DEF FieldTypes, connVars
  <2>3. CallTypes'
    BY DEF CallTypes, callVars, Resting
  <2>4. WireTypes'
    BY DEF WireTypes, wireVars
  <2>5. ServerTypes'
    BY DEF ServerTypes, srvVars
  <2> QED
    BY <2>2, <2>3, <2>4, <2>5
<1>21. CASE BulkAbandoned
  <2> USE <1>21 DEF BulkAbandoned
  <2>2. FieldTypes'
    BY DEF FieldTypes, connVars
  <2>3. CallTypes'
    BY DEF CallTypes, callVars, Resting
  <2>4. WireTypes'
    BY DEF WireTypes, wireVars
  <2>5. ServerTypes'
    BY DEF ServerTypes, srvVars
  <2> QED
    BY <2>2, <2>3, <2>4, <2>5
<1>22. CASE Close
  <2> USE <1>22 DEF Close
  <2>2. FieldTypes'
    BY DEF FieldTypes, connVars
  <2>3. CallTypes'
    BY DEF CallTypes, callVars, Resting
  <2>4. WireTypes'
    BY DEF WireTypes, wireVars
  <2>5. ServerTypes'
    BY DEF ServerTypes, srvVars
  <2> QED
    BY <2>2, <2>3, <2>4, <2>5
<1>23. CASE SrvReceive
  <2> USE <1>23 DEF SrvReceive
  <2>1. Head(c2s) \in ClientPacket /\ Tail(c2s) \in Seq(ClientPacket)
    BY HeadTail DEF WireTypes
  <2>2. FieldTypes'
    BY DEF FieldTypes, connVars
  <2>3. CallTypes'
    BY DEF CallTypes, callVars
  <2>4. WireTypes'
    BY <2>1 DEF WireTypes, wireVars
  <2>6. srvReq' \in Nat /\ srvIn' \in Nat
    BY <2>1 DEF ServerTypes, ClientPacket
  <2>7. srvOut' \in Seq(Units)
    BY <2>1, ResponseAssumption DEF ServerTypes, ClientPacket
  <2>5. ServerTypes'
    BY <2>6, <2>7 DEF ServerTypes
  <2> QED
    BY <2>2, <2>3, <2>4, <2>5
<1>24. CASE SrvAttention
  <2> USE <1>24 DEF SrvAttention
  <2>1. Head(c2s) \in ClientPacket /\ Tail(c2s) \in Seq(ClientPacket)
    BY HeadTail DEF WireTypes
  <2>2. FieldTypes'
    BY DEF FieldTypes, connVars
  <2>3. CallTypes'
    BY DEF CallTypes, callVars
  <2>4. WireTypes'
    BY <2>1 DEF WireTypes, wireVars
  <2>6. srvReq' \in Nat
    BY <2>1 DEF ServerTypes, ClientPacket
  <2>7. srvOut' \in Seq(Units)
    <3>1. "rowt" \in Units /\ "attn" \in Units
      BY DEF Units
    <3>2. <<"attn">> \in Seq(Units) /\ <<"rowt", "attn">> \in Seq(Units)
      BY <3>1
    <3> QED
      BY <3>2, Zenon
  <2>5. ServerTypes'
    BY <2>6, <2>7 DEF ServerTypes
  <2> QED
    BY <2>2, <2>3, <2>4, <2>5
<1>25. CASE SrvSend
  <2> USE <1>25 DEF SrvSend
  <2>1. PICK n \in 1..Len(srvOut) :
          /\ s2c' = Append(s2c, [req |-> srvReq, units |-> SubSeq(srvOut, 1, n),
                                 last |-> n = Len(srvOut)])
          /\ srvOut' = SubSeq(srvOut, n + 1, Len(srvOut))
          /\ \/ srvTx' \in {srvReq, 0}
             \/ UNCHANGED srvTx
    BY DEF TxAfter
  <2>6. SubSeq(srvOut, 1, n) \in Seq(Units) /\ srvOut' \in Seq(Units)
    BY <2>1 DEF ServerTypes
  <2>2. FieldTypes'
    BY DEF FieldTypes, connVars
  <2>3. CallTypes'
    BY DEF CallTypes, callVars
  <2>4. WireTypes'
    BY <2>1, <2>6 DEF WireTypes, wireVars, ServerPacket, ServerTypes
  <2>5. ServerTypes'
    BY <2>1, <2>6 DEF ServerTypes, srvVars
  <2> QED
    BY <2>2, <2>3, <2>4, <2>5
<1>26. CASE SrvClose
  <2> USE <1>26 DEF SrvClose
  <2>2. FieldTypes'
    BY DEF FieldTypes, connVars
  <2>3. CallTypes'
    BY DEF CallTypes, callVars
  <2>4. WireTypes'
    BY DEF WireTypes, wireVars
  <2>6. srvOut' \in Seq(Units)
    OBVIOUS
  <2>5. ServerTypes'
    BY <2>6 DEF ServerTypes
  <2> QED
    BY <2>2, <2>3, <2>4, <2>5
<1>28. CASE ColumnListFails
  <2> USE <1>28 DEF ColumnListFails
  <2>2. FieldTypes'
    BY DEF FieldTypes, connVars
  <2>3. CallTypes'
    BY DEF CallTypes, callVars, Awaiting, Resting
  <2>4. WireTypes'
    BY DEF WireTypes, wireVars
  <2>5. ServerTypes'
    BY DEF ServerTypes, srvVars
  <2> QED
    BY <2>2, <2>3, <2>4, <2>5
<1>27. CASE Rejected \/ Closed \/ UNCHANGED vars
  BY <1>27 DEF Rejected, Closed, vars, connVars, callVars, wireVars, srvVars,
     FieldTypes, CallTypes, WireTypes, ServerTypes
<1> QED
  BY <1>1, <1>2, <1>3, <1>4, <1>5, <1>6, <1>7, <1>8, <1>9, <1>10, <1>11,
     <1>12, <1>13, <1>14, <1>15, <1>16, <1>17, <1>18, <1>19, <1>20, <1>21,
     <1>22, <1>23, <1>24, <1>25, <1>26, <1>27, <1>28
     DEF Next, ClientStep, ServerStep

\* A connection fresh from login has the types of TypeOK.
LEMMA TypeInit == Init => TypeOK
<1> SUFFICES ASSUME Init PROVE TypeOK
  OBVIOUS
<1> USE DEF Init
<1>1. FieldTypes
  <2>1. flushed \in BOOLEAN /\ poisoned \in BOOLEAN /\ desync \in BOOLEAN
    BY Zenon
  <2>2. buf \in Seq(Units) /\ bufReq \in Nat /\ txDesc \in Nat
    OBVIOUS
  <2> QED
    BY <2>1, <2>2, Zenon DEF FieldTypes
<1>2. CallTypes
  <2>1. pc \in Awaiting \union Resting /\ op \in Ops
    BY DEF Resting, Ops, Calls
  <2>2. out \in 0..MaxPkts /\ nreq \in Nat
    BY ParameterAssumption
  <2>3. mid \in BOOLEAN
    BY Zenon
  <2> QED
    BY <2>1, <2>2, <2>3, Zenon DEF CallTypes
<1>3. WireTypes
  BY DEF WireTypes
<1>4. ServerTypes
  BY DEF ServerTypes
<1>5. seen \in [call : Nat, from : Nat, aligned : BOOLEAN]
  BY DEF NoToken
<1> QED
  BY <1>1, <1>2, <1>3, <1>4, <1>5 DEF TypeOK

\* TypeOK is an invariant of the connection for every parameter.
THEOREM TypeCorrect == Spec => []TypeOK
BY TypeInit, TypeStep, PTL DEF Spec

-----------------------------------------------------------------------------
(***************************************************************************)
(* Without cancels, every token a call hands out answers its own message.  *)
(* OneInFlight is made inductive by saying what the token buffer holds,    *)
(* what a closed server keeps and how INSERT BULK is answered: its single  *)
(* token is what lets BulkLoadRequest start a message straight after       *)
(* flush_done, without a flush_stream.                                     *)
(***************************************************************************)
\* The application never calls cancel_query.
NoCancel == "cancel" \notin Faults

\* No Attention is being sent or under way.
NoAttention ==
    op # "cancel" /\ \A i \in 1..Len(c2s) : c2s[i].op # "cancel"

\* A server that has closed neither receives nor answers.
ClosedIsQuiet == ~srvOpen => c2s = << >> /\ srvOut = << >>

\* The token buffer is empty before a read, and then holds the answer to the
\* last message.
OwnBuffer ==
    /\ pc \in {"flush", "send", "write", "bulk"} => buf = << >>
    /\ pc \in Reading /\ buf # << >> => bufReq = nreq
    /\ pc = "write" => ~flushed

\* INSERT BULK is answered by one packet of one token.
BulkInsertAnswer ==
    op = "bulkins" /\ pc \in {"send", "write", "read", "stream"} =>
        /\ Len(srvOut) <= 1
        /\ \A i \in 1..Len(s2c) : s2c[i].last /\ Len(s2c[i].units) = 1
        /\ \A i \in 1..Len(c2s) : c2s[i].op = "bulkins"
        /\ buf # << >> => flushed /\ Len(buf) = 1

\* The inductive invariant, and the part of it the lemmas below are about.
Correlated ==
    /\ TypeOK /\ OneInFlight /\ NoAttention /\ ClosedIsQuiet /\ OwnBuffer
    /\ BulkInsertAnswer /\ ResponseCorrelation

Answered ==
    /\ OneInFlight /\ NoAttention /\ ClosedIsQuiet /\ OwnBuffer
    /\ BulkInsertAnswer /\ ResponseCorrelation

\* A connection fresh from login satisfies the inductive invariant.
LEMMA CorrelatedInit == Init => Correlated
<1> SUFFICES ASSUME Init PROVE Correlated
  OBVIOUS
<1>1. c2s = << >> /\ s2c = << >> /\ srvOut = << >> /\ srvOpen /\ buf = << >>
  BY DEF Init
<1>2. pc = "idle" /\ op = "query" /\ seen = NoToken
  BY DEF Init
<1>3. OneInFlight
  BY <1>1, <1>2 DEF OneInFlight, OwnResponse, OwnMessage, OnePlace,
     DrainedIsQuiet, NothingBeforeEnd, Quiet, Building
<1>4. NoAttention /\ ClosedIsQuiet /\ OwnBuffer /\ BulkInsertAnswer
  BY <1>1, <1>2 DEF NoAttention, ClosedIsQuiet, OwnBuffer, BulkInsertAnswer
<1>5. ResponseCorrelation
  BY <1>2 DEF ResponseCorrelation, NoToken
<1> QED
  BY <1>3, <1>4, <1>5, TypeInit DEF Correlated

\* Removing the first packet of a transport shifts the others.
LEMMA TailFacts ==
    ASSUME NEW S, NEW s \in Seq(S), s # << >>
    PROVE  /\ Head(s) = s[1] /\ Len(s) \in Nat \ {0}
           /\ Len(Tail(s)) = Len(s) - 1
           /\ \A i \in 1..Len(Tail(s)) : Tail(s)[i] = s[i + 1]
           /\ Len(s) = 1 <=> Tail(s) = << >>
<1>1. Len(s) \in Nat \ {0} /\ Head(s) = s[1]
  OBVIOUS
<1>2. Len(Tail(s)) = Len(s) - 1
  BY <1>1
<1>3. \A i \in 1..Len(Tail(s)) : Tail(s)[i] = s[i + 1]
  OBVIOUS
<1>4. Tail(s) = << >> <=> Len(Tail(s)) = 0
  BY HeadTail, EmptySeq
<1> QED
  BY <1>1, <1>2, <1>3, <1>4

\* Appending a packet to a transport leaves the others where they are.
LEMMA AppendFacts ==
    ASSUME NEW S, NEW s \in Seq(S), NEW e \in S
    PROVE  /\ Append(s, e) # << >>
           /\ Len(Append(s, e)) = Len(s) + 1 /\ Len(s) \in Nat
           /\ Append(s, e)[Len(s) + 1] = e
           /\ \A i \in 1..Len(s) : Append(s, e)[i] = s[i]
OBVIOUS

\* A step that leaves the transport, the server and the message number alone
\* keeps what is said of them alone.
LEMMA WireFrame ==
    ASSUME Correlated, UNCHANGED <<c2s, s2c, srvOut, srvReq, srvOpen, nreq>>
    PROVE  (OwnResponse /\ OwnMessage /\ OnePlace /\ ClosedIsQuiet)'
BY DEF Correlated, OneInFlight, OwnResponse, OwnMessage, OnePlace,
   ClosedIsQuiet, LastSent

\* Starting a call (the head of flush_stream) keeps the invariant.
LEMMA LCall ==
    ASSUME Correlated, NEW o \in Calls, Call(o)
    PROVE  Answered'
<1> USE DEF Call, wireVars, srvVars, callVars, FlushStream
<1>1. UNCHANGED <<c2s, s2c, srvOut, srvReq, srvOpen, nreq>>
  OBVIOUS
<1>2. (OwnResponse /\ OwnMessage /\ OnePlace /\ ClosedIsQuiet)'
  BY <1>1, WireFrame
<1>3. DrainedIsQuiet'
  BY <1>1 DEF Correlated, OneInFlight, DrainedIsQuiet, Quiet, ClosedIsQuiet
<1>4. NothingBeforeEnd'
  BY <1>1 DEF Correlated, OneInFlight, NothingBeforeEnd, Building,
     DrainedIsQuiet, Quiet, TypeOK, CallTypes
<1>5. NoAttention'
  BY <1>1 DEF Correlated, NoAttention, Calls
<1>6. OwnBuffer'
  BY <1>1 DEF Correlated, OwnBuffer, Reading
<1>7. BulkInsertAnswer'
  BY <1>1 DEF Correlated, BulkInsertAnswer, OneInFlight, DrainedIsQuiet,
     Quiet, Calls, OwnBuffer, ClosedIsQuiet
<1>8. ResponseCorrelation'
  BY DEF Correlated, ResponseCorrelation, OwnBuffer
<1> QED
  BY <1>2, <1>3, <1>4, <1>5, <1>6, <1>7, <1>8 DEF OneInFlight, Answered

\* A request that fails to encode keeps the invariant.
LEMMA LEncodeFails ==
    ASSUME Correlated, EncodeFails
    PROVE  Answered'
<1> USE DEF EncodeFails, wireVars, srvVars, callVars
<1>1. UNCHANGED <<c2s, s2c, srvOut, srvReq, srvOpen, nreq>>
  OBVIOUS
<1>2. (OwnResponse /\ OwnMessage /\ OnePlace /\ ClosedIsQuiet)'
  BY <1>1, WireFrame
<1>3. DrainedIsQuiet'
  BY <1>1 DEF Correlated, OneInFlight, DrainedIsQuiet, Quiet, ClosedIsQuiet
<1>4. NothingBeforeEnd'
  BY <1>1 DEF Correlated, OneInFlight, NothingBeforeEnd, Building,
     DrainedIsQuiet, Quiet, TypeOK, CallTypes
<1>5. NoAttention'
  BY <1>1 DEF Correlated, NoAttention, Calls
<1>6. OwnBuffer'
  BY <1>1 DEF Correlated, OwnBuffer, Reading
<1>7. BulkInsertAnswer'
  BY <1>1 DEF Correlated, BulkInsertAnswer, OneInFlight, DrainedIsQuiet,
     Quiet, Calls, OwnBuffer, ClosedIsQuiet
<1>8. ResponseCorrelation'
  BY DEF Correlated, ResponseCorrelation, OwnBuffer
<1> QED
  BY <1>2, <1>3, <1>4, <1>5, <1>6, <1>7, <1>8 DEF OneInFlight, Answered

\* A column list that cannot be built keeps the invariant.
LEMMA LColumnListFails ==
    ASSUME Correlated, ColumnListFails
    PROVE  Answered'
<1> USE DEF ColumnListFails, wireVars, srvVars, callVars, connVars
<1>1. UNCHANGED <<c2s, s2c, srvOut, srvReq, srvOpen, nreq>>
  OBVIOUS
<1>2. (OwnResponse /\ OwnMessage /\ OnePlace /\ ClosedIsQuiet)'
  BY <1>1, WireFrame
<1>3. DrainedIsQuiet'
  BY <1>1 DEF Correlated, OneInFlight, DrainedIsQuiet, Quiet, ClosedIsQuiet
<1>4. NothingBeforeEnd'
  BY <1>1 DEF Correlated, OneInFlight, NothingBeforeEnd, Building,
     DrainedIsQuiet, Quiet, TypeOK, CallTypes
<1>5. NoAttention'
  BY <1>1 DEF Correlated, NoAttention, Calls
<1>6. OwnBuffer'
  BY <1>1 DEF Correlated, OwnBuffer, Reading
<1>7. BulkInsertAnswer'
  BY <1>1 DEF Correlated, BulkInsertAnswer, OneInFlight, DrainedIsQuiet,
     Quiet, Calls, OwnBuffer, ClosedIsQuiet
<1>8. ResponseCorrelation'
  BY DEF Correlated, ResponseCorrelation, OwnBuffer
<1> QED
  BY <1>2, <1>3, <1>4, <1>5, <1>6, <1>7, <1>8 DEF OneInFlight, Answered

\* A transport that ends while it is drained keeps the invariant.
LEMMA LFlushEnds ==
    ASSUME Correlated, FlushEnds
    PROVE  Answered'
<1> USE DEF FlushEnds, wireVars, srvVars, callVars
<1>1. UNCHANGED <<c2s, s2c, srvOut, srvReq, srvOpen, nreq>>
  OBVIOUS
<1>2. (OwnResponse /\ OwnMessage /\ OnePlace /\ ClosedIsQuiet)'
  BY <1>1, WireFrame
<1>3. DrainedIsQuiet'
  BY <1>1 DEF Correlated, OneInFlight, DrainedIsQuiet, Quiet, ClosedIsQuiet
<1>4. NothingBeforeEnd'
  BY <1>1 DEF Correlated, OneInFlight, NothingBeforeEnd, Building,
     DrainedIsQuiet, Quiet, TypeOK, CallTypes
<1>5. NoAttention'
  BY <1>1 DEF Correlated, NoAttention, Calls
<1>6. OwnBuffer'
  BY <1>1 DEF Correlated, OwnBuffer, Reading
<1>7. BulkInsertAnswer'
  BY <1>1 DEF Correlated, BulkInsertAnswer, OneInFlight, DrainedIsQuiet,
     Quiet, Calls, OwnBuffer, ClosedIsQuiet
<1>8. ResponseCorrelation'
  BY DEF Correlated, ResponseCorrelation, OwnBuffer
<1> QED
  BY <1>2, <1>3, <1>4, <1>5, <1>6, <1>7, <1>8 DEF OneInFlight, Answered

\* The end of a write keeps the invariant.
LEMMA LWriteDone ==
    ASSUME Correlated, WriteDone
    PROVE  Answered'
<1> USE DEF WriteDone, PayloadLeft, AfterWrite, wireVars, srvVars, callVars
<1>1. UNCHANGED <<c2s, s2c, srvOut, srvReq, srvOpen, nreq>>
  OBVIOUS
<1>2. (OwnResponse /\ OwnMessage /\ OnePlace /\ ClosedIsQuiet)'
  BY <1>1, WireFrame
<1>3. DrainedIsQuiet'
  BY <1>1 DEF Correlated, OneInFlight, DrainedIsQuiet, Quiet, ClosedIsQuiet
<1>4. NothingBeforeEnd'
  BY <1>1 DEF Correlated, OneInFlight, NothingBeforeEnd, Building,
     DrainedIsQuiet, Quiet, TypeOK, CallTypes
<1>5. NoAttention'
  BY <1>1 DEF Correlated, NoAttention, Calls
<1>6. OwnBuffer'
  BY <1>1 DEF Correlated, OwnBuffer, Reading
<1>7. BulkInsertAnswer'
  BY <1>1 DEF Correlated, BulkInsertAnswer, OneInFlight, DrainedIsQuiet,
     Quiet, Calls, OwnBuffer, ClosedIsQuiet
<1>8. ResponseCorrelation'
  BY DEF Correlated, ResponseCorrelation, OwnBuffer
<1> QED
  BY <1>2, <1>3, <1>4, <1>5, <1>6, <1>7, <1>8 DEF OneInFlight, Answered

\* A failed write keeps the invariant.
LEMMA LWriteFails ==
    ASSUME Correlated, WriteFails
    PROVE  Answered'
<1> USE DEF WriteFails, wireVars, srvVars, callVars, connVars
<1>1. UNCHANGED <<c2s, s2c, srvOut, srvReq, srvOpen, nreq>>
  OBVIOUS
<1>2. (OwnResponse /\ OwnMessage /\ OnePlace /\ ClosedIsQuiet)'
  BY <1>1, WireFrame
<1>3. DrainedIsQuiet'
  BY <1>1 DEF Correlated, OneInFlight, DrainedIsQuiet, Quiet, ClosedIsQuiet
<1>4. NothingBeforeEnd'
  BY <1>1 DEF Correlated, OneInFlight, NothingBeforeEnd, Building,
     DrainedIsQuiet, Quiet, TypeOK, CallTypes
<1>5. NoAttention'
  BY <1>1 DEF Correlated, NoAttention, Calls
<1>6. OwnBuffer'
  BY <1>1 DEF Correlated, OwnBuffer, Reading
<1>7. BulkInsertAnswer'
  BY <1>1 DEF Correlated, BulkInsertAnswer, OneInFlight, DrainedIsQuiet,
     Quiet, Calls, OwnBuffer, ClosedIsQuiet
<1>8. ResponseCorrelation'
  BY DEF Correlated, ResponseCorrelation, OwnBuffer
<1> QED
  BY <1>2, <1>3, <1>4, <1>5, <1>6, <1>7, <1>8 DEF OneInFlight, Answered

\* A failed read keeps the invariant.
LEMMA LReadFails ==
    ASSUME Correlated, ReadFails
    PROVE  Answered'
<1> USE DEF ReadFails, wireVars, srvVars, callVars, connVars, AfterError,
        Waiting, Reading
<1>1. UNCHANGED <<c2s, s2c, srvOut, srvReq, srvOpen, nreq>>
  OBVIOUS
<1>2. (OwnResponse /\ OwnMessage /\ OnePlace /\ ClosedIsQuiet)'
  BY <1>1, WireFrame
<1>3. DrainedIsQuiet'
  BY <1>1 DEF Correlated, OneInFlight, DrainedIsQuiet, Quiet, ClosedIsQuiet
<1>4. NothingBeforeEnd'
  BY <1>1 DEF Correlated, OneInFlight, NothingBeforeEnd, Building,
     DrainedIsQuiet, Quiet, TypeOK, CallTypes
<1>5. NoAttention'
  BY <1>1 DEF Correlated, NoAttention, Calls
<1>6. OwnBuffer'
  BY <1>1 DEF Correlated, OwnBuffer, Reading
<1>7. BulkInsertAnswer'
  BY <1>1 DEF Correlated, BulkInsertAnswer, OneInFlight, DrainedIsQuiet,
     Quiet, Calls, OwnBuffer, ClosedIsQuiet
<1>8. ResponseCorrelation'
  BY DEF Correlated, ResponseCorrelation, OwnBuffer
<1> QED
  BY <1>2, <1>3, <1>4, <1>5, <1>6, <1>7, <1>8 DEF OneInFlight, Answered

\* Reading a part of a token keeps the invariant.
LEMMA LReadTokenPart ==
    ASSUME Correlated, ReadTokenPart
    PROVE  Answered'
<1> USE DEF ReadTokenPart, wireVars, srvVars, callVars, Consume, Reading
<1>1. UNCHANGED <<c2s, s2c, srvOut, srvReq, srvOpen, nreq>>
  OBVIOUS
<1>2. (OwnResponse /\ OwnMessage /\ OnePlace /\ ClosedIsQuiet)'
  BY <1>1, WireFrame
<1>3. DrainedIsQuiet'
  BY <1>1 DEF Correlated, OneInFlight, DrainedIsQuiet, Quiet, ClosedIsQuiet
<1>4. NothingBeforeEnd'
  BY <1>1 DEF Correlated, OneInFlight, NothingBeforeEnd, Building,
     DrainedIsQuiet, Quiet, TypeOK, CallTypes
<1>5. NoAttention'
  BY <1>1 DEF Correlated, NoAttention, Calls
<1>6. OwnBuffer'
  BY <1>1 DEF Correlated, OwnBuffer, Reading
<1>7. BulkInsertAnswer'
  BY <1>1 DEF Correlated, BulkInsertAnswer, OneInFlight, DrainedIsQuiet,
     Quiet, Calls, OwnBuffer, ClosedIsQuiet
<1>8. ResponseCorrelation'
  BY DEF Correlated, ResponseCorrelation, OwnBuffer
<1> QED
  BY <1>2, <1>3, <1>4, <1>5, <1>6, <1>7, <1>8 DEF OneInFlight, Answered

\* The end of a token stream keeps the invariant.
LEMMA LStreamEnds ==
    ASSUME Correlated, StreamEnds
    PROVE  Answered'
<1> USE DEF StreamEnds, wireVars, srvVars, callVars, FlushStream, AfterError,
        Reading, IsEof
<1>1. UNCHANGED <<c2s, s2c, srvOut, srvReq, srvOpen, nreq>>
  OBVIOUS
<1>2. (OwnResponse /\ OwnMessage /\ OnePlace /\ ClosedIsQuiet)'
  BY <1>1, WireFrame
<1>3. DrainedIsQuiet'
  BY <1>1 DEF Correlated, OneInFlight, DrainedIsQuiet, Quiet, ClosedIsQuiet
<1>4. NothingBeforeEnd'
  BY <1>1 DEF Correlated, OneInFlight, NothingBeforeEnd, Building,
     DrainedIsQuiet, Quiet, TypeOK, CallTypes
<1>5. NoAttention'
  BY <1>1 DEF Correlated, NoAttention, Calls
<1>6. OwnBuffer'
  BY <1>1 DEF Correlated, OwnBuffer, Reading
<1>7. BulkInsertAnswer'
  BY <1>1 DEF Correlated, BulkInsertAnswer, OneInFlight, DrainedIsQuiet,
     Quiet, Calls, OwnBuffer, ClosedIsQuiet
<1>8. ResponseCorrelation'
  BY DEF Correlated, ResponseCorrelation, OwnBuffer
<1> QED
  BY <1>2, <1>3, <1>4, <1>5, <1>6, <1>7, <1>8 DEF OneInFlight, Answered

\* A command timeout keeps the invariant.
LEMMA LCommandTimeout ==
    ASSUME Correlated, CommandTimeout
    PROVE  Answered'
<1> USE DEF CommandTimeout, wireVars, srvVars, callVars, AfterError, Waiting,
        Reading
<1>1. UNCHANGED <<c2s, s2c, srvOut, srvReq, srvOpen, nreq>>
  OBVIOUS
<1>2. (OwnResponse /\ OwnMessage /\ OnePlace /\ ClosedIsQuiet)'
  BY <1>1, WireFrame
<1>3. DrainedIsQuiet'
  BY <1>1 DEF Correlated, OneInFlight, DrainedIsQuiet, Quiet, ClosedIsQuiet
<1>4. NothingBeforeEnd'
  BY <1>1 DEF Correlated, OneInFlight, NothingBeforeEnd, Building,
     DrainedIsQuiet, Quiet, TypeOK, CallTypes
<1>5. NoAttention'
  BY <1>1 DEF Correlated, NoAttention, Calls
<1>6. OwnBuffer'
  BY <1>1 DEF Correlated, OwnBuffer, Reading
<1>7. BulkInsertAnswer'
  BY <1>1 DEF Correlated, BulkInsertAnswer, OneInFlight, DrainedIsQuiet,
     Quiet, Calls, OwnBuffer, ClosedIsQuiet
<1>8. ResponseCorrelation'
  BY DEF Correlated, ResponseCorrelation, OwnBuffer
<1> QED
  BY <1>2, <1>3, <1>4, <1>5, <1>6, <1>7, <1>8 DEF OneInFlight, Answered

\* Dropping a QueryStream keeps the invariant.
LEMMA LDropStream ==
    ASSUME Correlated, DropStream
    PROVE  Answered'
<1> USE DEF DropStream, wireVars, srvVars, callVars, connVars
<1>1. UNCHANGED <<c2s, s2c, srvOut, srvReq, srvOpen, nreq>>
  OBVIOUS
<1>2. (OwnResponse /\ OwnMessage /\ OnePlace /\ ClosedIsQuiet)'
  BY <1>1, WireFrame
<1>3. DrainedIsQuiet'
  BY <1>1 DEF Correlated, OneInFlight, DrainedIsQuiet, Quiet, ClosedIsQuiet
<1>4. NothingBeforeEnd'
  BY <1>1 DEF Correlated, OneInFlight, NothingBeforeEnd, Building,
     DrainedIsQuiet, Quiet, TypeOK, CallTypes
<1>5. NoAttention'
  BY <1>1 DEF Correlated, NoAttention, Calls
<1>6. OwnBuffer'
  BY <1>1 DEF Correlated, OwnBuffer, Reading
<1>7. BulkInsertAnswer'
  BY <1>1 DEF Correlated, BulkInsertAnswer, OneInFlight, DrainedIsQuiet,
     Quiet, Calls, OwnBuffer, ClosedIsQuiet
<1>8. ResponseCorrelation'
  BY DEF Correlated, ResponseCorrelation, OwnBuffer
<1> QED
  BY <1>2, <1>3, <1>4, <1>5, <1>6, <1>7, <1>8 DEF OneInFlight, Answered

\* Starting a bulk write keeps the invariant.
LEMMA LBulkWrite ==
    ASSUME Correlated, NEW o \in {"bulkrow", "bulkload"}, BulkWrite(o)
    PROVE  Answered'
<1> USE DEF BulkWrite, wireVars, srvVars, callVars
<1>1. UNCHANGED <<c2s, s2c, srvOut, srvReq, srvOpen, nreq>>
  OBVIOUS
<1>2. (OwnResponse /\ OwnMessage /\ OnePlace /\ ClosedIsQuiet)'
  BY <1>1, WireFrame
<1>3. DrainedIsQuiet'
  BY <1>1 DEF Correlated, OneInFlight, DrainedIsQuiet, Quiet, ClosedIsQuiet
<1>4. NothingBeforeEnd'
  BY <1>1 DEF Correlated, OneInFlight, NothingBeforeEnd, Building,
     DrainedIsQuiet, Quiet, TypeOK, CallTypes
<1>5. NoAttention'
  BY <1>1 DEF Correlated, NoAttention, Calls
<1>6. OwnBuffer'
  BY <1>1 DEF Correlated, OwnBuffer, Reading
<1>7. BulkInsertAnswer'
  BY <1>1 DEF Correlated, BulkInsertAnswer, OneInFlight, DrainedIsQuiet,
     Quiet, Calls, OwnBuffer, ClosedIsQuiet
<1>8. ResponseCorrelation'
  BY DEF Correlated, ResponseCorrelation, OwnBuffer
<1> QED
  BY <1>2, <1>3, <1>4, <1>5, <1>6, <1>7, <1>8 DEF OneInFlight, Answered

\* A rejected finalize keeps the invariant.
LEMMA LBulkRejected ==
    ASSUME Correlated, BulkRejected
    PROVE  Answered'
<1> USE DEF BulkRejected, wireVars, srvVars, callVars, connVars
<1>1. UNCHANGED <<c2s, s2c, srvOut, srvReq, srvOpen, nreq>>
  OBVIOUS
<1>2. (OwnResponse /\ OwnMessage /\ OnePlace /\ ClosedIsQuiet)'
  BY <1>1, WireFrame
<1>3. DrainedIsQuiet'
  BY <1>1 DEF Correlated, OneInFlight, DrainedIsQuiet, Quiet, ClosedIsQuiet
<1>4. NothingBeforeEnd'
  BY <1>1 DEF Correlated, OneInFlight, NothingBeforeEnd, Building,
     DrainedIsQuiet, Quiet, TypeOK, CallTypes
<1>5. NoAttention'
  BY <1>1 DEF Correlated, NoAttention, Calls
<1>6. OwnBuffer'
  BY <1>1 DEF Correlated, OwnBuffer, Reading
<1>7. BulkInsertAnswer'
  BY <1>1 DEF Correlated, BulkInsertAnswer, OneInFlight, DrainedIsQuiet,
     Quiet, Calls, OwnBuffer, ClosedIsQuiet
<1>8. ResponseCorrelation'
  BY DEF Correlated, ResponseCorrelation, OwnBuffer
<1> QED
  BY <1>2, <1>3, <1>4, <1>5, <1>6, <1>7, <1>8 DEF OneInFlight, Answered

\* Abandoning a bulk load keeps the invariant.
LEMMA LBulkAbandoned ==
    ASSUME Correlated, BulkAbandoned
    PROVE  Answered'
<1> USE DEF BulkAbandoned, wireVars, srvVars, callVars, connVars
<1>1. UNCHANGED <<c2s, s2c, srvOut, srvReq, srvOpen, nreq>>
  OBVIOUS
<1>2. (OwnResponse /\ OwnMessage /\ OnePlace /\ ClosedIsQuiet)'
  BY <1>1, WireFrame
<1>3. DrainedIsQuiet'
  BY <1>1 DEF Correlated, OneInFlight, DrainedIsQuiet, Quiet, ClosedIsQuiet
<1>4. NothingBeforeEnd'
  BY <1>1 DEF Correlated, OneInFlight, NothingBeforeEnd, Building,
     DrainedIsQuiet, Quiet, TypeOK, CallTypes
<1>5. NoAttention'
  BY <1>1 DEF Correlated, NoAttention, Calls
<1>6. OwnBuffer'
  BY <1>1 DEF Correlated, OwnBuffer, Reading
<1>7. BulkInsertAnswer'
  BY <1>1 DEF Correlated, BulkInsertAnswer, OneInFlight, DrainedIsQuiet,
     Quiet, Calls, OwnBuffer, ClosedIsQuiet
<1>8. ResponseCorrelation'
  BY DEF Correlated, ResponseCorrelation, OwnBuffer
<1> QED
  BY <1>2, <1>3, <1>4, <1>5, <1>6, <1>7, <1>8 DEF OneInFlight, Answered

\* Closing the client keeps the invariant.
LEMMA LClose ==
    ASSUME Correlated, Close
    PROVE  Answered'
<1> USE DEF Close, wireVars, srvVars, callVars, connVars
<1>1. UNCHANGED <<c2s, s2c, srvOut, srvReq, srvOpen, nreq>>
  OBVIOUS
<1>2. (OwnResponse /\ OwnMessage /\ OnePlace /\ ClosedIsQuiet)'
  BY <1>1, WireFrame
<1>3. DrainedIsQuiet'
  BY <1>1 DEF Correlated, OneInFlight, DrainedIsQuiet, Quiet, ClosedIsQuiet
<1>4. NothingBeforeEnd'
  BY <1>1 DEF Correlated, OneInFlight, NothingBeforeEnd, Building,
     DrainedIsQuiet, Quiet, TypeOK, CallTypes
<1>5. NoAttention'
  BY <1>1 DEF Correlated, NoAttention, Calls
<1>6. OwnBuffer'
  BY <1>1 DEF Correlated, OwnBuffer, Reading
<1>7. BulkInsertAnswer'
  BY <1>1 DEF Correlated, BulkInsertAnswer, OneInFlight, DrainedIsQuiet,
     Quiet, Calls, OwnBuffer, ClosedIsQuiet
<1>8. ResponseCorrelation'
  BY DEF Correlated, ResponseCorrelation, OwnBuffer
<1> QED
  BY <1>2, <1>3, <1>4, <1>5, <1>6, <1>7, <1>8 DEF OneInFlight, Answered
\* Arithmetic used on the indices of a transport.
LEMMA Predecessor ==
    ASSUME NEW i \in Int, NEW m \in Nat, i + 1 = m
    PROVE  i = m - 1
  OBVIOUS

\* Taking the first packet of a response: it belongs to the last message, and
\* if it is marked last nothing is left anywhere.
LEMMA FrontPacket ==
    ASSUME Correlated, s2c # << >>, s2c' = Tail(s2c),
           UNCHANGED <<c2s, srvVars, nreq>>
    PROVE  /\ Head(s2c) = s2c[1] /\ 1 \in 1..Len(s2c) /\ s2c[1].req = nreq
           /\ s2c[1].last => c2s' = << >> /\ s2c' = << >> /\ srvOut' = << >>
           /\ OwnResponse' /\ OwnMessage' /\ OnePlace'
           /\ c2s = << >>
           /\ \A i \in 1..Len(s2c') : i + 1 \in 1..Len(s2c) /\ s2c'[i] = s2c[i + 1]
<1>1. /\ Head(s2c) = s2c[1] /\ Len(s2c) \in Nat \ {0}
      /\ Len(s2c') = Len(s2c) - 1
      /\ \A i \in 1..Len(s2c') : s2c'[i] = s2c[i + 1]
      /\ Len(s2c) = 1 <=> s2c' = << >>
  BY TailFacts DEF Correlated, TypeOK, WireTypes
<1>2. c2s = << >>
  BY DEF Correlated, OneInFlight, OnePlace
<1>9. 1 \in 1..Len(s2c)
  BY <1>1
<1>3. 1 \in 1..Len(s2c) /\ s2c[1].req = nreq
  BY <1>9 DEF Correlated, OneInFlight, OwnResponse
<1>4. s2c[1].last => Len(s2c) = 1 /\ LastSent
  BY <1>1, <1>3 DEF Correlated, OneInFlight, OwnResponse, LastSent
<1>5. OwnResponse'
  <2>1. SUFFICES ASSUME NEW i \in 1..Len(s2c')
                 PROVE  s2c'[i].req = nreq /\ (s2c'[i].last => i = Len(s2c'))
    BY DEF OwnResponse
  <2>2. i + 1 \in 1..Len(s2c) /\ s2c'[i] = s2c[i + 1]
    BY <1>1
  <2>3. s2c[i + 1].req = nreq /\ (s2c[i + 1].last => i + 1 = Len(s2c))
    BY <2>2 DEF Correlated, OneInFlight, OwnResponse
  <2>4. Len(s2c) \in Nat /\ Len(s2c') = Len(s2c) - 1
    BY <1>1
  <2>5. i \in Int
    OBVIOUS
  <2>6. i + 1 = Len(s2c) => i = Len(s2c) - 1
    BY <2>4, <2>5, Predecessor, Zenon
  <2> QED
    BY <2>2, <2>3, <2>4, <2>6, Zenon
<1>6. LastSent' => LastSent
  BY <1>1 DEF LastSent
<1>7. OwnMessage' /\ OnePlace'
  BY <1>2, <1>6 DEF Correlated, OneInFlight, OwnMessage, OnePlace, srvVars
<1>8. s2c[1].last => c2s' = << >> /\ s2c' = << >> /\ srvOut' = << >>
  BY <1>1, <1>2, <1>4 DEF Correlated, OneInFlight, OnePlace, srvVars
<1> QED
  BY <1>1, <1>2, <1>3, <1>5, <1>7, <1>8

\* Draining a packet in flush_stream keeps the invariant.
LEMMA LFlushPacket ==
    ASSUME Correlated, FlushPacket
    PROVE  Answered'
<1>1. /\ Head(s2c) = s2c[1] /\ c2s = << >>
      /\ s2c[1].last => c2s' = << >> /\ s2c' = << >> /\ srvOut' = << >>
      /\ OwnResponse' /\ OwnMessage' /\ OnePlace'
  BY FrontPacket DEF FlushPacket
<1> USE DEF FlushPacket, srvVars
<1>2. /\ \/ pc' = "send" /\ s2c[1].last
         \/ pc' = "flush" /\ ~flushed'
      /\ buf' = << >>
  <2>1. flushed' = s2c[1].last /\ buf' = << >>
    BY <1>1 DEF Correlated, OwnBuffer
  <2>2. pc' = IF s2c[1].last THEN "send" ELSE "flush"
    BY <1>1
  <2> QED
    BY <2>1, <2>2, Zenon
<1>3. DrainedIsQuiet' /\ NothingBeforeEnd'
  BY <1>1, <1>2 DEF DrainedIsQuiet, Quiet, NothingBeforeEnd, Building
<1>4. NoAttention' /\ ClosedIsQuiet' /\ OwnBuffer'
  BY <1>2 DEF Correlated, NoAttention, ClosedIsQuiet, OwnBuffer, Reading
<1>5. BulkInsertAnswer'
  <2>1. pc' = "send" => c2s' = << >> /\ s2c' = << >> /\ srvOut' = << >>
    BY <1>1, <1>2, Zenon
  <2>2. pc' \in {"flush", "send"} /\ buf' = << >>
    BY <1>2
  <2> QED
    BY <2>1, <2>2 DEF BulkInsertAnswer
<1>6. ResponseCorrelation'
  BY DEF Correlated, ResponseCorrelation
<1> QED
  BY <1>1, <1>3, <1>4, <1>5, <1>6 DEF OneInFlight, Answered

\* Reading a packet into the token buffer keeps the invariant.
LEMMA LPollRead ==
    ASSUME Correlated, PollRead
    PROVE  Answered'
<1>1. /\ Head(s2c) = s2c[1] /\ 1 \in 1..Len(s2c) /\ s2c[1].req = nreq
      /\ s2c[1].last => c2s' = << >> /\ s2c' = << >> /\ srvOut' = << >>
      /\ OwnResponse' /\ OwnMessage' /\ OnePlace'
      /\ \A i \in 1..Len(s2c') : i + 1 \in 1..Len(s2c) /\ s2c'[i] = s2c[i + 1]
  BY FrontPacket DEF PollRead, callVars
<1> USE DEF PollRead, srvVars, callVars, Waiting, Reading
<1>2. DrainedIsQuiet' /\ NothingBeforeEnd'
  BY <1>1 DEF DrainedIsQuiet, Quiet, NothingBeforeEnd, Building
<1>3. NoAttention' /\ ClosedIsQuiet' /\ OwnBuffer'
  BY <1>1 DEF Correlated, NoAttention, ClosedIsQuiet, OwnBuffer
<1>4. BulkInsertAnswer'
  BY <1>1 DEF Correlated, BulkInsertAnswer
<1>5. ResponseCorrelation'
  BY DEF Correlated, ResponseCorrelation
<1> QED
  BY <1>1, <1>2, <1>3, <1>4, <1>5 DEF OneInFlight, Answered

\* Starting the next message keeps the invariant: nothing is under way then.
LEMMA LBeginSend ==
    ASSUME Correlated, BeginSend
    PROVE  Answered'
<1> USE DEF BeginSend, wireVars, srvVars
<1>1. c2s = << >> /\ s2c = << >> /\ srvOut = << >> /\ buf = << >>
  BY DEF Correlated, OneInFlight, DrainedIsQuiet, Quiet, OwnBuffer
<1>2. OneInFlight'
  BY <1>1 DEF OneInFlight, OwnResponse, OwnMessage, OnePlace, DrainedIsQuiet,
     NothingBeforeEnd, Quiet
<1>3. NoAttention' /\ ClosedIsQuiet' /\ OwnBuffer' /\ BulkInsertAnswer'
  BY <1>1 DEF Correlated, NoAttention, ClosedIsQuiet, OwnBuffer, Reading,
     BulkInsertAnswer
<1>4. ResponseCorrelation'
  BY DEF Correlated, ResponseCorrelation
<1> QED
  BY <1>2, <1>3, <1>4 DEF Answered

\* Adding a packet that belongs to the message being written.
LEMMA AddPacket ==
    ASSUME Correlated, Building, NEW e \in BOOLEAN,
           c2s' = Put([req |-> nreq, op |-> op, eom |-> e]),
           UNCHANGED <<s2c, srvVars, nreq>>
    PROVE  /\ OwnResponse' /\ OwnMessage' /\ OnePlace' /\ ClosedIsQuiet'
           /\ s2c' = << >> /\ srvOut' = << >>
           /\ ~e => \A i \in 1..Len(c2s') : ~c2s'[i].eom
           /\ op # "cancel" => \A i \in 1..Len(c2s') : c2s'[i].op # "cancel"
           /\ op = "bulkins" /\ pc = "write"
              => \A i \in 1..Len(c2s') : c2s'[i].op = "bulkins"
<1> DEFINE p == [req |-> nreq, op |-> op, eom |-> e]
<1>1. p \in ClientPacket
  BY DEF Correlated, TypeOK, CallTypes, ClientPacket
<1>2. s2c = << >> /\ srvOut = << >> /\ \A i \in 1..Len(c2s) : ~c2s[i].eom
  BY DEF Correlated, OneInFlight, NothingBeforeEnd
<1>3. CASE ~srvOpen
  BY <1>2, <1>3 DEF Put, srvVars, Correlated, OneInFlight, OwnResponse,
     OwnMessage, OnePlace, ClosedIsQuiet, NoAttention, BulkInsertAnswer
<1>4. CASE srvOpen
  <2>1. c2s' = Append(c2s, p)
    BY <1>4 DEF Put
  <2>2. /\ Len(c2s') = Len(c2s) + 1 /\ Len(c2s) \in Nat
        /\ c2s'[Len(c2s) + 1] = p
        /\ \A i \in 1..Len(c2s) : c2s'[i] = c2s[i]
    BY <1>1, <2>1, AppendFacts DEF Correlated, TypeOK, WireTypes
  <2>3. \A i \in 1..Len(c2s') : i \in 1..Len(c2s) \/ i = Len(c2s')
    BY <2>2
  <2>4. OwnMessage'
    BY <1>2, <2>2, <2>3 DEF OwnMessage, Correlated, OneInFlight
  <2>5. OwnResponse' /\ OnePlace' /\ ClosedIsQuiet'
    BY <1>2, <1>4 DEF OwnResponse, OnePlace, ClosedIsQuiet, srvVars
  <2>6. ~e => \A i \in 1..Len(c2s') : ~c2s'[i].eom
    BY <1>2, <2>2, <2>3
  <2>7. op # "cancel" => \A i \in 1..Len(c2s') : c2s'[i].op # "cancel"
    BY <2>2, <2>3 DEF Correlated, NoAttention
  <2>8. op = "bulkins" /\ pc = "write"
        => \A i \in 1..Len(c2s') : c2s'[i].op = "bulkins"
    BY <2>2, <2>3 DEF Correlated, BulkInsertAnswer
  <2> QED
    BY <1>2, <2>4, <2>5, <2>6, <2>7, <2>8 DEF srvVars
<1> QED
  BY <1>3, <1>4

\* Writing a packet keeps the invariant.
LEMMA LWritePacket ==
    ASSUME Correlated, WritePacket
    PROVE  Answered'
<1>1. Building /\ pc = "write" /\ UNCHANGED <<s2c, srvVars, nreq>>
  BY DEF Building, WritePacket, PayloadLeft
<1> DEFINE e == out = 1 /\ op # "bulkrow"
<1>2. e \in BOOLEAN /\ c2s' = Put([req |-> nreq, op |-> op, eom |-> e])
  BY DEF WritePacket, PayloadLeft
<1>3. /\ OwnResponse' /\ OwnMessage' /\ OnePlace' /\ ClosedIsQuiet'
      /\ s2c' = << >> /\ srvOut' = << >>
      /\ ~e => \A i \in 1..Len(c2s') : ~c2s'[i].eom
      /\ op # "cancel" => \A i \in 1..Len(c2s') : c2s'[i].op # "cancel"
      /\ op = "bulkins" /\ pc = "write"
         => \A i \in 1..Len(c2s') : c2s'[i].op = "bulkins"
  <2> HIDE DEF e
  <2> QED
    BY <1>1, <1>2, AddPacket
<1>4. DrainedIsQuiet'
  BY DEF DrainedIsQuiet, WritePacket
<1>5. NothingBeforeEnd'
  BY <1>3 DEF NothingBeforeEnd, Building, WritePacket, Correlated, TypeOK,
     CallTypes
<1>6. NoAttention' /\ OwnBuffer' /\ BulkInsertAnswer'
  BY <1>3 DEF WritePacket, Correlated, NoAttention, OwnBuffer, Reading,
     BulkInsertAnswer
<1>7. ResponseCorrelation'
  BY DEF WritePacket, Correlated, ResponseCorrelation
<1> QED
  BY <1>3, <1>4, <1>5, <1>6, <1>7 DEF OneInFlight, Answered

\* Dropping a future at an await point keeps the invariant, with or without a
\* part of the next packet on the wire.
LEMMA LDrop ==
    ASSUME Correlated, Drop
    PROVE  Answered'
<1>1. CASE UNCHANGED c2s
  <2> USE <1>1 DEF Drop, AfterError, connVars, srvVars
  <2>1. (OwnResponse /\ OwnMessage /\ OnePlace /\ ClosedIsQuiet)'
    BY WireFrame
  <2>2. DrainedIsQuiet' /\ NothingBeforeEnd'
    BY DEF Correlated, OneInFlight, DrainedIsQuiet, NothingBeforeEnd, Quiet,
       Building
  <2>3. NoAttention' /\ OwnBuffer' /\ BulkInsertAnswer' /\ ResponseCorrelation'
    BY DEF Correlated, NoAttention, OwnBuffer, Reading, BulkInsertAnswer,
       ResponseCorrelation
  <2> QED
    BY <2>1, <2>2, <2>3 DEF OneInFlight, Answered
<1>2. CASE /\ pc = "write" /\ out > 0
           /\ c2s' = Put([req |-> nreq, op |-> op, eom |-> FALSE])
  <2> USE <1>2 DEF Drop, AfterError, connVars, srvVars
  <2>1. Building
    BY DEF Building
  <2>2. /\ OwnResponse' /\ OwnMessage' /\ OnePlace' /\ ClosedIsQuiet'
        /\ s2c' = << >> /\ srvOut' = << >>
        /\ \A i \in 1..Len(c2s') : ~c2s'[i].eom
        /\ op # "cancel" => \A i \in 1..Len(c2s') : c2s'[i].op # "cancel"
    <3>1. FALSE \in BOOLEAN /\ UNCHANGED <<s2c, srvVars, nreq>>
      OBVIOUS
    <3> QED
      BY <2>1, <3>1, AddPacket, Zenon
  <2>3. pc' \in {"idle", "bulk"}
    BY DEF Correlated, NoAttention
  <2>4. DrainedIsQuiet' /\ NothingBeforeEnd'
    BY <2>2, <2>3 DEF DrainedIsQuiet, NothingBeforeEnd, Correlated, OwnBuffer
  <2>5. NoAttention' /\ OwnBuffer' /\ BulkInsertAnswer' /\ ResponseCorrelation'
    BY <2>2, <2>3 DEF Correlated, NoAttention, OwnBuffer, Reading,
       BulkInsertAnswer, ResponseCorrelation
  <2> QED
    BY <2>2, <2>4, <2>5 DEF OneInFlight, Answered
<1> QED
  BY <1>1, <1>2 DEF Drop, AfterError, Answered


\* Handing out a token keeps the invariant, and starting the bulk load
\* message right after the answer to INSERT BULK is safe.
LEMMA LReadToken ==
    ASSUME Correlated, ReadToken
    PROVE  Answered'
<1> USE DEF Reading
<1>1. bufReq = nreq /\ pc \in Reading /\ UNCHANGED <<c2s, s2c, srvVars, op>>
  BY DEF ReadToken, Consume, Correlated, OwnBuffer
<1>2. ResponseCorrelation'
  BY <1>1 DEF ReadToken, Correlated, ResponseCorrelation
<1>3. NoAttention' /\ ClosedIsQuiet'
  BY <1>1 DEF Correlated, NoAttention, ClosedIsQuiet, srvVars
<1>4. CASE pc' # "bulk"
  <2>1. UNCHANGED <<nreq, bufReq, flushed>>
    BY <1>4 DEF ReadToken, Consume
  <2>2. (OwnResponse /\ OwnMessage /\ OnePlace)'
    BY <1>1, <2>1, WireFrame DEF srvVars
  <2>3. pc' \in {pc, "idle", "stream"}
    BY <1>4 DEF ReadToken, AfterToken
  <2>4. DrainedIsQuiet' /\ NothingBeforeEnd'
    BY <1>1, <2>1, <2>3 DEF Correlated, OneInFlight, DrainedIsQuiet, Quiet,
       NothingBeforeEnd, Building, srvVars
  <2>5. OwnBuffer'
    BY <1>1, <2>1, <2>3 DEF OwnBuffer
  <2>6. BulkInsertAnswer'
    <3>1. op = "bulkins" => buf' = << >>
      <4> SUFFICES ASSUME op = "bulkins" PROVE buf' = << >>
        OBVIOUS
      <4>1. Len(buf) = 1 /\ buf # << >> /\ buf \in Seq(Units)
        BY <1>1 DEF ReadToken, Correlated, BulkInsertAnswer, TypeOK, FieldTypes
      <4> QED
        BY <4>1, TailFacts DEF ReadToken, Consume
    <3> QED
      BY <1>1, <2>1, <2>3, <3>1 DEF Correlated, BulkInsertAnswer, srvVars
  <2> QED
    BY <1>2, <1>3, <2>2, <2>4, <2>5, <2>6 DEF OneInFlight, Answered
<1>5. CASE pc' = "bulk"
  <2>1. op = "bulkins"
    BY <1>1, <1>5 DEF ReadToken, AfterToken
  <2>2. Len(buf) = 1 /\ buf # << >> /\ buf \in Seq(Units) /\ flushed
    BY <1>1, <2>1 DEF ReadToken, Correlated, BulkInsertAnswer, TypeOK,
       FieldTypes
  <2>3. buf' = << >>
    BY <2>2, TailFacts DEF ReadToken, Consume
  <2>4. c2s' = << >> /\ s2c' = << >> /\ srvOut' = << >>
    BY <1>1, <2>2 DEF Correlated, OneInFlight, DrainedIsQuiet, Quiet, srvVars
  <2>5. OneInFlight'
    BY <2>4 DEF OneInFlight, OwnResponse, OwnMessage, OnePlace, DrainedIsQuiet,
       NothingBeforeEnd, Quiet
  <2>6. OwnBuffer' /\ BulkInsertAnswer'
    BY <1>5, <2>3 DEF OwnBuffer, BulkInsertAnswer
  <2> QED
    BY <1>2, <1>3, <2>5, <2>6 DEF Answered
<1> QED
  BY <1>4, <1>5 DEF Answered

\* The server taking a packet keeps the invariant.
LEMMA LSrvReceive ==
    ASSUME Correlated, SrvReceive
    PROVE  Answered'
<1>1. /\ Head(c2s) = c2s[1] /\ Len(c2s) \in Nat \ {0}
      /\ Len(c2s') = Len(c2s) - 1
      /\ \A i \in 1..Len(c2s') : c2s'[i] = c2s[i + 1]
      /\ Len(c2s) = 1 <=> c2s' = << >>
  BY TailFacts DEF SrvReceive, Correlated, TypeOK, WireTypes
<1>2. 1 \in 1..Len(c2s)
  BY <1>1
<1>3. /\ s2c = << >> /\ s2c' = << >> /\ srvOpen' /\ ~flushed /\ pc # "send"
      /\ UNCHANGED <<connVars, callVars, seen>>
  BY DEF SrvReceive, Correlated, OneInFlight, OnePlace, DrainedIsQuiet, Quiet
<1>4. \A i \in 1..Len(c2s') : i + 1 \in 1..Len(c2s) /\ c2s'[i] = c2s[i + 1]
  BY <1>1
<1>5. c2s[1].req = nreq /\ (c2s[1].eom => Len(c2s) = 1)
  BY <1>2 DEF Correlated, OneInFlight, OwnMessage
<1>6. OwnMessage'
  <2>1. SUFFICES ASSUME NEW i \in 1..Len(c2s')
                 PROVE  c2s'[i].req = nreq /\ (c2s'[i].eom => i = Len(c2s'))
    BY <1>3 DEF OwnMessage, callVars
  <2>2. i + 1 \in 1..Len(c2s) /\ c2s'[i] = c2s[i + 1]
    BY <1>4
  <2>3. c2s[i + 1].req = nreq /\ (c2s[i + 1].eom => i + 1 = Len(c2s))
    BY <2>2 DEF Correlated, OneInFlight, OwnMessage
  <2>4. Len(c2s) \in Nat /\ Len(c2s') = Len(c2s) - 1
    BY <1>1
  <2>5. i + 1 = Len(c2s) => i = Len(c2s')
    BY <2>4
  <2> QED
    BY <2>2, <2>3, <2>5, Zenon
<1>7. srvOut' # << >> => c2s[1].eom /\ srvReq' = nreq /\ c2s' = << >>
  BY <1>1, <1>5 DEF SrvReceive
<1>8. OwnResponse' /\ OnePlace' /\ DrainedIsQuiet'
  BY <1>3, <1>7 DEF OwnResponse, OnePlace, LastSent, DrainedIsQuiet, connVars,
     callVars
<1>9. NothingBeforeEnd'
  <2> SUFFICES ASSUME Building
               PROVE  srvOut' = << >> /\ \A i \in 1..Len(c2s') : ~c2s'[i].eom
    BY <1>3 DEF NothingBeforeEnd, Building, callVars
  <2>1. \A i \in 1..Len(c2s) : ~c2s[i].eom
    BY DEF Correlated, OneInFlight, NothingBeforeEnd
  <2> QED
    BY <1>2, <1>4, <1>7, <2>1
<1>10. NoAttention' /\ ClosedIsQuiet' /\ OwnBuffer' /\ ResponseCorrelation'
  BY <1>3, <1>4 DEF Correlated, NoAttention, ClosedIsQuiet, OwnBuffer,
     connVars,
     callVars, ResponseCorrelation
<1>11. BulkInsertAnswer'
  <2> SUFFICES ASSUME op = "bulkins", pc \in {"send", "write", "read", "stream"}
               PROVE  /\ Len(srvOut') <= 1
                      /\ \A i \in 1..Len(c2s') : c2s'[i].op = "bulkins"
                      /\ buf # << >> => flushed /\ Len(buf) = 1
    BY <1>3 DEF BulkInsertAnswer, connVars, callVars
  <2>1. /\ \A i \in 1..Len(c2s) : c2s[i].op = "bulkins"
        /\ Len(srvOut) <= 1
        /\ buf # << >> => flushed /\ Len(buf) = 1
    BY DEF Correlated, BulkInsertAnswer
  <2>2. Len(srvOut') <= 1
    <3>1. CASE Head(c2s).eom
      <4>1. srvOut' \in Responses["bulkins"]
        BY <1>1, <1>2, <2>1, <3>1 DEF SrvReceive
      <4>2. Len(srvOut') = 1
        BY <4>1, ResponseAssumption
      <4> QED
        BY <4>2
    <3>2. CASE ~Head(c2s).eom
      BY <2>1, <3>2 DEF SrvReceive
    <3> QED
      BY <3>1, <3>2
  <2> QED
    BY <1>4, <2>1, <2>2
<1> QED
  BY <1>6, <1>8, <1>9, <1>10, <1>11 DEF OneInFlight, Answered

\* A sequence of at most one element has at most one index.
LEMMA OnlyIndex ==
    ASSUME NEW m \in Nat, NEW n \in 1..m, m <= 1
    PROVE  n = 1 /\ m = 1
  OBVIOUS

\* The server sending a packet of its response keeps the invariant.
LEMMA LSrvSend ==
    ASSUME Correlated, SrvSend
    PROVE  Answered'
<1>1. PICK n \in 1..Len(srvOut) :
        /\ s2c' = Append(s2c, [req |-> srvReq, units |-> SubSeq(srvOut, 1, n),
                               last |-> n = Len(srvOut)])
        /\ srvOut' = SubSeq(srvOut, n + 1, Len(srvOut))
  BY DEF SrvSend
<1>2. UNCHANGED <<connVars, callVars, c2s, srvOpen, srvReq, seen>> /\ srvOpen
  BY DEF SrvSend
<1> DEFINE p == [req |-> srvReq, units |-> SubSeq(srvOut, 1, n),
                 last |-> n = Len(srvOut)]
<1>3. srvOut \in Seq(Units) /\ Len(srvOut) \in Nat /\ srvOut # << >>
  BY DEF Correlated, TypeOK, ServerTypes
<1>4. /\ srvReq = nreq /\ c2s = << >> /\ ~LastSent /\ ~flushed /\ pc # "send"
      /\ ~Building
  BY <1>3 DEF Correlated, OneInFlight, OnePlace, DrainedIsQuiet, Quiet,
     NothingBeforeEnd
<1>5. SubSeq(srvOut, 1, n) \in Seq(Units) /\ Len(SubSeq(srvOut, 1, n)) = n
  BY <1>3
<1>6. p \in ServerPacket
  BY <1>2, <1>5 DEF ServerPacket, Correlated, TypeOK, ServerTypes
<1>7. /\ s2c' # << >> /\ Len(s2c') = Len(s2c) + 1 /\ Len(s2c) \in Nat
      /\ s2c'[Len(s2c) + 1] = p
      /\ \A i \in 1..Len(s2c) : s2c'[i] = s2c[i]
  <2> HIDE DEF p
  <2>1. s2c' = Append(s2c, p)
    BY <1>1 DEF p
  <2> QED
    BY <1>6, <2>1, AppendFacts DEF Correlated, TypeOK, WireTypes
<1>8. \A i \in 1..Len(s2c) : s2c[i].req = nreq /\ ~s2c[i].last
  <2> SUFFICES ASSUME NEW i \in 1..Len(s2c) PROVE s2c[i].req = nreq /\ ~s2c[i].last
    OBVIOUS
  <2>1. s2c[i].req = nreq /\ (s2c[i].last => i = Len(s2c)) /\ s2c # << >>
    BY DEF Correlated, OneInFlight, OwnResponse
  <2> QED
    BY <1>4, <2>1 DEF LastSent
<1>9. \A i \in 1..Len(s2c') : i \in 1..Len(s2c) \/ i = Len(s2c')
  BY <1>7
<1>10. OwnResponse'
  BY <1>2, <1>4, <1>7, <1>8, <1>9 DEF OwnResponse, callVars
<1>11. srvOut' # << >> => n # Len(srvOut)
  BY <1>1, <1>3
<1>12. OnePlace'
  <2>1. p.last = (n = Len(srvOut))
    BY Zenon
  <2>2. LastSent' => p.last
    BY <1>7, Zenon DEF LastSent
  <2>3. srvOut' # << >> => ~LastSent'
    BY <1>11, <2>1, <2>2, Zenon
  <2>4. srvReq' = nreq' /\ c2s' = << >>
    BY <1>2, <1>4 DEF callVars
  <2> QED
    BY <2>3, <2>4, Zenon DEF OnePlace
<1>13. OwnMessage' /\ DrainedIsQuiet' /\ NothingBeforeEnd'
  BY <1>2, <1>4 DEF OwnMessage, DrainedIsQuiet, NothingBeforeEnd, Building,
     connVars, callVars
<1>14. NoAttention' /\ ClosedIsQuiet' /\ OwnBuffer' /\ ResponseCorrelation'
  BY <1>2, <1>4 DEF Correlated, NoAttention, ClosedIsQuiet, OwnBuffer,
     connVars,
     callVars, ResponseCorrelation
<1>15. BulkInsertAnswer'
  <2> SUFFICES ASSUME op = "bulkins", pc \in {"send", "write", "read", "stream"}
               PROVE  /\ Len(srvOut') <= 1
                      /\ \A i \in 1..Len(s2c') : s2c'[i].last
                                                 /\ Len(s2c'[i].units) = 1
                      /\ \A i \in 1..Len(c2s) : c2s[i].op = "bulkins"
                      /\ buf # << >> => flushed /\ Len(buf) = 1
    BY <1>2 DEF BulkInsertAnswer, connVars, callVars
  <2>1. /\ Len(srvOut) <= 1
        /\ \A i \in 1..Len(s2c) : s2c[i].last /\ Len(s2c[i].units) = 1
        /\ buf # << >> => flushed /\ Len(buf) = 1
    BY DEF Correlated, BulkInsertAnswer
  <2>2. n = 1 /\ Len(srvOut) = 1
    <3>1. n \in 1..Len(srvOut) /\ Len(srvOut) \in Nat
      BY <1>1, <1>3
    <3> QED
      BY <2>1, <3>1, OnlyIndex
  <2>3. Len(srvOut') <= 1
    BY <1>1, <1>3, <2>2
  <2>4. p.last /\ Len(p.units) = 1
    BY <1>5, <2>2
  <2> QED
    BY <1>4, <1>7, <1>9, <2>1, <2>3, <2>4
<1> QED
  BY <1>10, <1>12, <1>13, <1>14, <1>15 DEF OneInFlight, Answered

\* The server closing the connection keeps the invariant.
LEMMA LSrvClose ==
    ASSUME Correlated, SrvClose
    PROVE  Answered'
<1> USE DEF SrvClose, connVars, callVars
<1>1. c2s' = << >> /\ srvOut' = << >> /\ UNCHANGED <<s2c, nreq>>
  OBVIOUS
<1>2. OwnResponse' /\ OwnMessage' /\ OnePlace' /\ DrainedIsQuiet'
      /\ NothingBeforeEnd'
  BY <1>1 DEF Correlated, OneInFlight, OwnResponse, OwnMessage, OnePlace,
     DrainedIsQuiet, Quiet, NothingBeforeEnd, Building
<1>3. NoAttention' /\ ClosedIsQuiet' /\ OwnBuffer' /\ ResponseCorrelation'
  BY <1>1 DEF Correlated, NoAttention, ClosedIsQuiet, OwnBuffer,
     ResponseCorrelation
<1>4. BulkInsertAnswer'
  BY <1>1 DEF Correlated, BulkInsertAnswer
<1> QED
  BY <1>2, <1>3, <1>4 DEF OneInFlight, Answered

\* Every step keeps the inductive invariant as long as no Attention is sent and
\* no token is misread.
LEMMA CorrelatedStep ==
    ASSUME ~CancelRequest, ~Misparse, Correlated, [Next]_vars
    PROVE  Correlated'
<1>1. TypeOK'
  BY TypeStep DEF Correlated
<1>3. CASE SrvAttention
  <2>1. Head(c2s) = c2s[1] /\ 1 \in 1..Len(c2s)
    BY <1>3, TailFacts DEF SrvAttention, Correlated, TypeOK, WireTypes
  <2> QED
    BY <1>3, <2>1 DEF SrvAttention, Correlated, NoAttention
<1>4. CASE Rejected \/ Closed \/ UNCHANGED vars
  BY <1>1, <1>4, WireFrame DEF Rejected, Closed, vars, connVars, callVars,
     wireVars,
     srvVars, Correlated, OneInFlight, DrainedIsQuiet, Quiet, NothingBeforeEnd,
     Building, NoAttention, OwnBuffer, BulkInsertAnswer, ResponseCorrelation
<1> QED
  BY <1>1, <1>3, <1>4, LCall, LEncodeFails, LColumnListFails, LFlushPacket, LFlushEnds,
     LBeginSend, LWritePacket, LWriteDone, LWriteFails, LPollRead, LReadFails,
     LReadTokenPart, LReadToken, LStreamEnds, LCommandTimeout, LDrop,
     LDropStream, LBulkWrite, LBulkRejected, LBulkAbandoned, LClose, LSrvReceive,
     LSrvSend, LSrvClose
     DEF Next, ClientStep, ServerStep, Correlated, Answered

-----------------------------------------------------------------------------
(***************************************************************************)
(* A message that is begun is ended before the next one, or known to be    *)
(* broken.  The flag `poisoned` is raised while packets are written and    *)
(* lowered once the last is out, so that a message whose end the server    *)
(* lacks is either a bulk load in the application's hands or one that      *)
(* makes the connection unusable.                                          *)
(***************************************************************************)
\* The application finalizes every BulkLoadRequest it is given.
NoAbandon == "abandon" \notin Faults

\* What ensure_not_poisoned has established is still true while a call drains,
\* encodes or reads; the flag is up while it writes.
FlagsInCall ==
    /\ pc \in {"flush", "send", "read"} => Usable
    /\ pc = "write" => poisoned /\ ~desync
    /\ pc = "stream" => op \in {"query", "command"}

\* A call that is under way was admitted, and is still.
LEMMA FlagsStep == FlagsInCall /\ [Next]_vars => FlagsInCall'
<1> SUFFICES ASSUME FlagsInCall, [Next]_vars PROVE FlagsInCall'
  OBVIOUS
<1> USE DEF FlagsInCall, Usable, Reading
<1>1. CASE UNCHANGED <<pc, op, poisoned, desync>>
  BY <1>1
<1>2. CASE pc' \in {"idle", "closed", "bulk"}
  BY <1>2
<1>3. CASE (\E o \in Calls : Call(o)) \/ StreamEnds
  BY <1>3 DEF Call, StreamEnds, FlushStream, AfterError
<1>4. CASE CancelRequest \/ BeginSend \/ WriteDone \/ (\E o \in {"bulkrow", "bulkload"} : BulkWrite(o))
  BY <1>4 DEF CancelRequest, BeginSend, WriteDone, AfterWrite, BulkWrite
<1>5. CASE FlushPacket \/ FlushEnds
  BY <1>5 DEF FlushPacket, FlushEnds
<1>6. CASE ReadToken
  BY <1>6 DEF ReadToken, AfterToken, Consume
<1>7. CASE Misparse
  BY <1>7 DEF Misparse, AfterError, AfterToken
<1>8. CASE CommandTimeout
  BY <1>8 DEF CommandTimeout, Waiting, AfterError
<1>9. CASE EncodeFails \/ ColumnListFails \/ WriteFails \/ ReadFails \/ Drop \/ DropStream
           \/ BulkRejected \/ BulkAbandoned \/ Close
  <2>1. pc' \in {"idle", "closed", "bulk"}
    BY <1>9 DEF EncodeFails, ColumnListFails, WriteFails, ReadFails, AfterError, Drop, DropStream,
       BulkRejected, BulkAbandoned, Close
  <2> QED BY <1>2, <2>1
<1>10. CASE Rejected \/ Closed \/ WritePacket \/ PollRead \/ ReadTokenPart \/ ServerStep \/ SrvClose
            \/ UNCHANGED vars
  <2>1. UNCHANGED <<pc, op, poisoned, desync>>
    BY <1>10 DEF Rejected, Closed, WritePacket, PollRead, ReadTokenPart, ServerStep, SrvReceive,
       SrvAttention, SrvSend, SrvClose, vars, connVars, callVars
  <2> QED BY <1>1, <2>1
<1> QED BY <1>3, <1>4, <1>5, <1>6, <1>7, <1>8, <1>9, <1>10 DEF Next, ClientStep

\* The message the server has part of, if HalfSent.
PendingReq == IF c2s = << >> THEN srvIn ELSE c2s[Len(c2s)].req

HalfIsKnown == HalfSent => pc = "bulk" \/ ~Usable

WrittenIsWhole == pc = "write" /\ out = 0 /\ op # "bulkrow" => ~HalfSent

HalfIsOwn == HalfSent /\ pc \in {"write", "bulk"} => PendingReq = nreq

\* The inductive invariant.
Whole ==
    /\ TypeOK /\ FlagsInCall /\ HalfIsKnown /\ WrittenIsWhole /\ HalfIsOwn
    /\ MessagesContiguous

\* A step that leaves the way to the server alone.
LEMMA WholeFrame ==
    ASSUME Whole, UNCHANGED <<c2s, srvIn, srvOpen>>
    PROVE  (HalfSent' <=> HalfSent) /\ PendingReq' = PendingReq /\ MessagesContiguous'
BY DEF Whole, HalfSent, PendingReq, MessagesContiguous

LEMMA WholeInit == Init => Whole
<1> SUFFICES ASSUME Init PROVE Whole
  OBVIOUS
<1>1. c2s = << >> /\ srvIn = 0 /\ pc = "idle"
  BY DEF Init
<1> QED
  BY <1>1, TypeInit DEF Whole, FlagsInCall, HalfIsKnown, WrittenIsWhole, HalfIsOwn,
     HalfSent, MessagesContiguous

\* Calls, reads and what the application does with a stream: nothing is put on
\* the wire, and a call begins, or begins its next message, only if it may.
LEMMA WholeOffWire ==
    ASSUME NoAbandon, Whole, UNCHANGED <<c2s, srvIn, srvOpen>>,
           \/ \E o \in Calls : Call(o)
           \/ Rejected \/ CancelRequest \/ EncodeFails \/ ColumnListFails
           \/ FlushPacket \/ FlushEnds \/ BeginSend \/ WriteDone \/ WriteFails
           \/ PollRead \/ ReadFails \/ ReadTokenPart \/ ReadToken \/ Misparse
           \/ StreamEnds \/ CommandTimeout \/ Drop \/ DropStream
           \/ \E o \in {"bulkrow", "bulkload"} : BulkWrite(o)
           \/ BulkRejected \/ BulkAbandoned \/ Close \/ SrvSend \/ UNCHANGED vars
    PROVE  (HalfIsKnown /\ WrittenIsWhole /\ HalfIsOwn)'
<1> USE WholeFrame DEF Whole, FlagsInCall, HalfIsKnown, WrittenIsWhole, HalfIsOwn, Usable
<1>1. CASE \E o \in Calls : Call(o)
  BY <1>1 DEF Call, FlushStream
<1>2. CASE Rejected \/ UNCHANGED vars
  BY <1>2 DEF Rejected, vars, connVars, callVars
<1>3. CASE CancelRequest
  BY <1>3 DEF CancelRequest
<1>4. CASE EncodeFails
  BY <1>4 DEF EncodeFails
<1>5. CASE ColumnListFails
  BY <1>5 DEF ColumnListFails, connVars
<1>6. CASE FlushPacket
  BY <1>6 DEF FlushPacket
<1>7. CASE FlushEnds
  BY <1>7 DEF FlushEnds
<1>8. CASE BeginSend
  BY <1>8 DEF BeginSend
<1>9. CASE WriteDone
  <2>1. out = 0 /\ pc = "write"
    BY <1>9 DEF WriteDone, PayloadLeft, TypeOK, CallTypes
  <2> QED BY <1>9, <2>1 DEF WriteDone, AfterWrite, TypeOK, CallTypes, Ops, Calls
<1>10. CASE WriteFails
  BY <1>10 DEF WriteFails, connVars, HalfSent
<1>11. CASE PollRead
  BY <1>11 DEF PollRead, callVars
<1>12. CASE ReadFails
  BY <1>12 DEF ReadFails, Waiting, Reading, AfterError, connVars
<1>13. CASE ReadTokenPart
  BY <1>13 DEF ReadTokenPart, Reading, Consume
<1>14. CASE ReadToken
  BY <1>14 DEF ReadToken, AfterToken, Reading, Consume
<1>15. CASE Misparse
  BY <1>15 DEF Misparse, AfterError, AfterToken, Reading
<1>16. CASE StreamEnds
  BY <1>16 DEF StreamEnds, FlushStream, AfterError, Reading
<1>17. CASE CommandTimeout
  BY <1>17 DEF CommandTimeout, AfterError, Waiting, Reading
<1>18. CASE Drop
  BY <1>18 DEF Drop, AfterError, Reading, connVars
<1>19. CASE DropStream
  BY <1>19 DEF DropStream, connVars
<1>20. CASE \E o \in {"bulkrow", "bulkload"} : BulkWrite(o)
  BY <1>20 DEF BulkWrite
<1>21. CASE BulkRejected
  BY <1>21 DEF BulkRejected, connVars
<1>22. CASE BulkAbandoned
  BY <1>22 DEF BulkAbandoned, NoAbandon
<1>23. CASE Close
  BY <1>23 DEF Close, connVars
<1>24. CASE SrvSend
  BY <1>24 DEF SrvSend, connVars, callVars
<1> QED
  BY <1>1, <1>2, <1>3, <1>4, <1>5, <1>6, <1>7, <1>8, <1>9, <1>10, <1>11, <1>12, <1>13,
     <1>14, <1>15, <1>16, <1>17, <1>18, <1>19, <1>20, <1>21, <1>22, <1>23, <1>24

\* A packet of the message being written follows the packets before it.
LEMMA WholePut ==
    ASSUME Whole, pc = "write", NEW e \in BOOLEAN,
           c2s' = Put([req |-> nreq, op |-> op, eom |-> e]),
           UNCHANGED <<srvIn, srvOpen, nreq>>
    PROVE  /\ MessagesContiguous'
           /\ HalfSent' => ~e /\ PendingReq' = nreq
<1> DEFINE p == [req |-> nreq, op |-> op, eom |-> e]
<1>1. CASE ~srvOpen
  BY <1>1 DEF Whole, HalfSent, MessagesContiguous, Put
<1>2. CASE srvOpen
  <2>1. c2s \in Seq(ClientPacket) /\ p \in ClientPacket /\ srvIn \in Nat
    BY DEF Whole, TypeOK, WireTypes, CallTypes, ServerTypes, ClientPacket
  <2>2. c2s' = Append(c2s, p)
    BY <1>2 DEF Put
  <2> HIDE DEF p
  <2>3. /\ c2s' # << >> /\ Len(c2s') = Len(c2s) + 1 /\ Len(c2s) \in Nat
        /\ c2s'[Len(c2s) + 1] = p
        /\ \A i \in 1..Len(c2s) : c2s'[i] = c2s[i]
    BY <2>1, <2>2, AppendFacts
  <2>4. p.req = nreq /\ p.eom = e
    BY DEF p
  <2>5. HalfSent' => ~e /\ PendingReq' = nreq
    BY <1>2, <2>3, <2>4 DEF HalfSent, PendingReq
  <2>6. HalfSent => PendingReq = nreq
    BY DEF Whole, HalfIsOwn
  <2>7. ASSUME srvIn # 0 PROVE Head(c2s').req = srvIn
    <3>1. CASE c2s = << >>
      BY <1>2, <2>2, <2>4, <2>6, <2>7, <3>1 DEF HalfSent, PendingReq
    <3>2. CASE c2s # << >>
      BY <2>1, <2>2, <2>7, <3>2 DEF Whole, MessagesContiguous
    <3> QED BY <3>1, <3>2
  <2>8. ASSUME NEW i \in 1..(Len(c2s') - 1), ~c2s'[i].eom
        PROVE  c2s'[i + 1].req = c2s'[i].req
    <3>1. i \in 1..Len(c2s) /\ c2s # << >>
      BY <2>3
    <3>2. CASE i = Len(c2s)
      BY <1>2, <2>3, <2>4, <2>6, <2>8, <3>1, <3>2 DEF HalfSent, PendingReq
    <3>3. CASE i # Len(c2s)
      <4>1. i \in 1..(Len(c2s) - 1) /\ i + 1 \in 1..Len(c2s)
        BY <2>3, <3>1, <3>3
      <4> QED BY <2>3, <2>8, <3>1, <4>1 DEF Whole, MessagesContiguous
    <3> QED BY <3>2, <3>3
  <2>9. MessagesContiguous'
    BY <2>7, <2>8 DEF MessagesContiguous
  <2> QED BY <2>5, <2>9
<1> QED BY <1>1, <1>2

\* The server takes a packet: what it has left to receive is as whole as before.
LEMMA WholeReceive ==
    ASSUME Whole, SrvReceive \/ SrvAttention
    PROVE  /\ MessagesContiguous'
           /\ HalfSent' => HalfSent /\ PendingReq' = PendingReq
<1>1. c2s \in Seq(ClientPacket) /\ c2s # << >> /\ c2s' = Tail(c2s) /\ UNCHANGED srvOpen
  BY DEF Whole, TypeOK, WireTypes, SrvReceive, SrvAttention
<1>2. /\ Head(c2s) = c2s[1] /\ Len(c2s) \in Nat \ {0}
      /\ Len(c2s') = Len(c2s) - 1
      /\ \A i \in 1..Len(c2s') : c2s'[i] = c2s[i + 1]
      /\ Len(c2s) = 1 <=> c2s' = << >>
  BY <1>1, TailFacts
<1>3. srvIn' = 0 \/ (srvIn' = c2s[1].req /\ ~c2s[1].eom)
  BY <1>2 DEF SrvReceive, SrvAttention
<1>4. HalfSent' => HalfSent /\ PendingReq' = PendingReq
  <2>1. CASE c2s' = << >>
    BY <1>1, <1>2, <1>3, <2>1 DEF HalfSent, PendingReq
  <2>2. CASE c2s' # << >>
    <3>1. c2s'[Len(c2s')] = c2s[Len(c2s)]
      BY <1>2, <2>2
    <3> QED BY <1>1, <2>2, <3>1 DEF HalfSent, PendingReq
  <2> QED BY <2>1, <2>2
<1>5. ASSUME srvIn' # 0, c2s' # << >> PROVE Head(c2s').req = srvIn'
  <2>1. 1 \in 1..(Len(c2s) - 1) /\ 1 \in 1..Len(c2s')
    BY <1>2, <1>5
  <2>2. c2s[1 + 1].req = c2s[1].req
    BY <1>3, <1>5, <2>1 DEF Whole, MessagesContiguous
  <2>3. Head(c2s') = c2s'[1]
    BY <1>1, <1>5
  <2> QED BY <1>2, <1>3, <1>5, <2>1, <2>2, <2>3
<1>6. ASSUME NEW i \in 1..(Len(c2s') - 1), ~c2s'[i].eom
      PROVE  c2s'[i + 1].req = c2s'[i].req
  <2>1. i \in 1..Len(c2s') /\ i + 1 \in 1..Len(c2s') /\ i + 1 \in 1..(Len(c2s) - 1)
    BY <1>2
  <2> QED BY <1>2, <1>6, <2>1 DEF Whole, MessagesContiguous
<1>7. MessagesContiguous'
  BY <1>5, <1>6 DEF MessagesContiguous
<1> QED BY <1>4, <1>7

LEMMA WholeStep ==
    ASSUME NoAbandon, Whole, [Next]_vars
    PROVE  Whole'
<1>1. TypeOK' /\ FlagsInCall'
  BY TypeStep, FlagsStep DEF Whole
<1>2. CASE WritePacket
  <2> DEFINE e == out = 1 /\ op # "bulkrow"
  <2>1. /\ pc = "write" /\ pc' = "write" /\ out > 0 /\ out' = out - 1
        /\ e \in BOOLEAN /\ c2s' = Put([req |-> nreq, op |-> op, eom |-> e])
        /\ UNCHANGED <<srvIn, srvOpen, nreq, op, poisoned, desync>>
    BY <1>2 DEF WritePacket, PayloadLeft, srvVars
  <2>2. MessagesContiguous' /\ (HalfSent' => ~e /\ PendingReq' = nreq)
    <3> HIDE DEF e
    <3> QED BY <2>1, WholePut
  <2>3. out \in Int
    BY DEF Whole, TypeOK, CallTypes
  <2> QED
    BY <1>1, <2>1, <2>2, <2>3 DEF Whole, FlagsInCall, HalfIsKnown, WrittenIsWhole, HalfIsOwn, Usable
<1>3. CASE Drop /\ ~UNCHANGED c2s
  <2>1. /\ pc = "write" /\ pc' \in {"bulk", "idle", "closed"}
        /\ c2s' = Put([req |-> nreq, op |-> op, eom |-> FALSE])
        /\ UNCHANGED <<srvIn, srvOpen, nreq, poisoned, desync>>
    BY <1>3 DEF Drop, AfterError, srvVars, connVars
  <2>2. MessagesContiguous' /\ (HalfSent' => PendingReq' = nreq)
    BY <2>1, WholePut
  <2> QED
    BY <1>1, <2>1, <2>2 DEF Whole, FlagsInCall, HalfIsKnown, WrittenIsWhole, HalfIsOwn, Usable
<1>4. CASE SrvReceive \/ SrvAttention
  <2>1. UNCHANGED <<connVars, callVars>>
    BY <1>4 DEF SrvReceive, SrvAttention
  <2> QED
    BY <1>1, <1>4, <2>1, WholeReceive
       DEF Whole, FlagsInCall, HalfIsKnown, WrittenIsWhole, HalfIsOwn, Usable, connVars, callVars
<1>5. CASE SrvClose
  BY <1>1, <1>5 DEF SrvClose, Whole, FlagsInCall, HalfIsKnown, WrittenIsWhole, HalfIsOwn,
     Usable, HalfSent, MessagesContiguous, connVars, callVars
<1>6. CASE ~(WritePacket \/ SrvReceive \/ SrvAttention \/ SrvClose) /\ UNCHANGED c2s
  <2>1. UNCHANGED <<srvIn, srvOpen>>
    BY <1>6 DEF Next, ClientStep, ServerStep, Call, Rejected, CancelRequest, EncodeFails,
       ColumnListFails, FlushPacket, FlushEnds, BeginSend, WriteDone, WriteFails, PollRead,
       ReadFails, ReadTokenPart, ReadToken, Misparse, StreamEnds, CommandTimeout, Drop,
       DropStream, BulkWrite, BulkRejected, BulkAbandoned, Close, Closed, SrvSend, vars, srvVars
  <2>2. (HalfIsKnown /\ WrittenIsWhole /\ HalfIsOwn)'
    BY <1>6, <2>1, WholeOffWire DEF Next, ClientStep, ServerStep, Closed
  <2> QED BY <1>1, <1>6, <2>1, <2>2, WholeFrame DEF Whole
<1>7. UNCHANGED c2s \/ WritePacket \/ Drop \/ SrvReceive \/ SrvAttention \/ SrvClose
  BY DEF Next, ClientStep, ServerStep, Call, Rejected, CancelRequest, EncodeFails,
     ColumnListFails, FlushPacket, FlushEnds, BeginSend, WriteDone, WriteFails, PollRead,
     ReadFails, ReadTokenPart, ReadToken, Misparse, StreamEnds, CommandTimeout,
     DropStream, BulkWrite, BulkRejected, BulkAbandoned, Close, Closed, SrvSend, vars, wireVars
<1> QED BY <1>2, <1>3, <1>4, <1>5, <1>6, <1>7

\* Whatever is dropped, times out, is cancelled or breaks, the server receives
\* every message in one piece, if bulk loads are finalized.
THEOREM MessagesInOnePiece == NoAbandon => (Spec => []MessagesContiguous)
<1> SUFFICES ASSUME NoAbandon PROVE Spec => []MessagesContiguous
  OBVIOUS
<1>1. Whole /\ [Next]_vars => Whole'
  BY WholeStep
<1>2. Whole => MessagesContiguous
  BY DEF Whole
<1> QED BY <1>1, <1>2, WholeInit, PTL DEF Spec

\* No call finds a connection usable on which a message was left half-sent, if
\* bulk loads are finalized.
THEOREM HalfSentIsRefused == NoAbandon => (Spec => []HalfSentFailsCleanly)
<1> SUFFICES ASSUME NoAbandon PROVE Spec => []HalfSentFailsCleanly
  OBVIOUS
<1>1. Whole /\ [Next]_vars => Whole'
  BY WholeStep
<1>2. Whole => HalfSentFailsCleanly
  BY DEF Whole, HalfIsKnown, HalfSentFailsCleanly
<1> QED BY <1>1, <1>2, WholeInit, PTL DEF Spec

\* After a command timeout no call drains, encodes or writes any more.
THEOREM TimedOutIsRefused == Spec => []TimedOutNotReused
<1>1. Init => FlagsInCall
  BY DEF Init, FlagsInCall
<1>2. FlagsInCall => TimedOutNotReused
  BY DEF FlagsInCall, TimedOutNotReused, Usable
<1> QED BY <1>1, <1>2, FlagsStep, PTL DEF Spec

-----------------------------------------------------------------------------
(***************************************************************************)
(* An application that drops its client unless cancel_query returns Ok:    *)
(* the acknowledgement of an Attention is the last thing under way in      *)
(* either direction, so that a cancel that has read it has read all.       *)
(***************************************************************************)
\* The Attention is the last packet to the server, and its acknowledgement the
\* last token of the last packet from it.
AttnLast ==
    /\ \A k \in 1..Len(c2s) : c2s[k].op = "cancel" => k = Len(c2s)
    /\ \A k \in 1..Len(srvOut) :
         srvOut[k] = "attn" => k = Len(srvOut) /\ c2s = << >>
    /\ \A j \in 1..Len(s2c) : \A k \in 1..Len(s2c[j].units) :
         s2c[j].units[k] = "attn" =>
            /\ j = Len(s2c) /\ k = Len(s2c[j].units) /\ s2c[j].last
            /\ srvOut = << >> /\ c2s = << >>
    /\ \A k \in 1..Len(buf) :
         buf[k] = "attn" =>
            k = Len(buf) /\ flushed /\ s2c = << >> /\ srvOut = << >> /\ c2s = << >>

Has(s, u) == \E i \in 1..Len(s) : s[i] = u

\* An Attention or its acknowledgement is somewhere.
AttnUnderWay ==
    \/ \E k \in 1..Len(c2s) : c2s[k].op = "cancel"
    \/ Has(srvOut, "attn") \/ Has(buf, "attn")
    \/ \E j \in 1..Len(s2c) : Has(s2c[j].units, "attn")

\* It is only while a cancel is in progress or the connection is given up.
AttnIsOwn ==
    AttnUnderWay => op = "cancel" /\ (pc \in {"write", "read", "closed"} \/ ~Usable)

\* Where a cancel can be, and that it writes one packet.
CancelPlaces ==
    /\ pc \in {"flush", "send", "bulk"} => op # "cancel"
    /\ pc = "write" /\ op = "cancel" => out \in {0, 1}
    /\ pc = "write" /\ op = "cancel" /\ out = 1 => ~AttnUnderWay

\* The inductive invariant.
CancelInv ==
    /\ TypeOK /\ FlagsInCall /\ AttnLast /\ AttnIsOwn /\ CancelPlaces /\ CancelOkIsClean

\* A step that leaves all that is under way alone.
LEMMA AttnFrame ==
    ASSUME CancelInv, UNCHANGED <<c2s, s2c, srvOut, buf, flushed>>
    PROVE  AttnLast' /\ (AttnUnderWay' <=> AttnUnderWay)
BY DEF CancelInv, AttnLast, AttnUnderWay, Has

LEMMA CancelInit == Init => CancelInv
<1> SUFFICES ASSUME Init PROVE CancelInv
  OBVIOUS
<1>1. /\ c2s = << >> /\ s2c = << >> /\ srvOut = << >> /\ buf = << >> /\ pc = "idle"
      /\ op = "query"
  BY DEF Init
<1> QED
  BY <1>1, TypeInit DEF CancelInv, FlagsInCall, AttnLast, AttnUnderWay, AttnIsOwn,
     CancelPlaces, CancelOkIsClean, Has

\* With nothing of an Attention under way, a step that adds none of it.
LEMMA NoAttnStep ==
    ASSUME ~AttnUnderWay'
    PROVE  AttnLast' /\ AttnIsOwn' /\ (CancelPlaces' <=>
              (pc' \in {"flush", "send", "bulk"} => op' # "cancel") /\
              (pc' = "write" /\ op' = "cancel" => out' \in {0, 1}))
BY DEF AttnUnderWay, AttnLast, AttnIsOwn, CancelPlaces, Has

\* Steps of the client that neither read nor write.
LEMMA CancelOffWire ==
    ASSUME DiscardOnCancelErr, CancelInv, FlagsInCall', UNCHANGED <<c2s, s2c, srvOut, srvOpen>>,
           \/ Rejected \/ CancelRequest \/ EncodeFails \/ ColumnListFails
           \/ FlushEnds \/ BeginSend \/ WriteDone \/ WriteFails
           \/ ReadFails \/ CommandTimeout \/ Drop \/ DropStream
           \/ \E o \in {"bulkrow", "bulkload"} : BulkWrite(o)
           \/ BulkRejected \/ BulkAbandoned \/ Close \/ UNCHANGED vars
    PROVE  (AttnLast /\ AttnIsOwn /\ CancelPlaces /\ CancelOkIsClean)'
<1>0. UNCHANGED buf
  BY DEF Rejected, CancelRequest, EncodeFails, ColumnListFails, FlushEnds, BeginSend,
     WriteDone, WriteFails, ReadFails, CommandTimeout, Drop, DropStream, BulkWrite,
     BulkRejected, BulkAbandoned, Close, vars, connVars
<1>1. CASE CancelRequest \/ EncodeFails \/ BeginSend \/ (\E o \in {"bulkrow", "bulkload"} : BulkWrite(o))
  <2>1. /\ Usable /\ pc \in {"idle", "send", "bulk"}
        /\ pc' = "write" \/ (pc' = "idle" /\ op' # "cancel")
        /\ op' = "cancel" => out' = 1
    BY <1>1 DEF CancelRequest, EncodeFails, BeginSend, BulkWrite, CancelInv, FlagsInCall, CancelPlaces
  <2>2. ~AttnUnderWay
    BY <2>1 DEF CancelInv, AttnIsOwn
  <2>3. ~AttnUnderWay'
    BY <1>0, <2>2 DEF AttnUnderWay, Has
  <2>4. AttnLast' /\ AttnIsOwn' /\ CancelPlaces'
    BY <2>1, <2>3, NoAttnStep
  <2> QED BY <2>1, <2>4 DEF CancelOkIsClean
<1>2. CASE Rejected \/ UNCHANGED vars
  <2>1. UNCHANGED <<pc, op, out, poisoned, desync, flushed, c2s, s2c, srvOut, buf, srvOpen>>
    BY <1>2 DEF Rejected, vars, connVars, callVars, wireVars, srvVars
  <2> QED
    BY <2>1, AttnFrame DEF CancelInv, AttnIsOwn, CancelPlaces, CancelOkIsClean, Usable, IsEof
<1>3. CASE /\ ~(CancelRequest \/ EncodeFails \/ BeginSend)
           /\ ~(\E o \in {"bulkrow", "bulkload"} : BulkWrite(o))
           /\ ~(Rejected \/ UNCHANGED vars)
  <2> USE <1>3
  <2>1. UNCHANGED <<flushed, op, out>>
    BY DEF ColumnListFails, FlushEnds, WriteDone, WriteFails, ReadFails, CommandTimeout,
       Drop, DropStream, BulkRejected, BulkAbandoned, Close, connVars
  <2>2. AttnLast' /\ (AttnUnderWay' <=> AttnUnderWay)
    BY <1>0, <2>1, AttnFrame
  <2>3. /\ pc' # "write" /\ (op = "cancel" => pc' \notin {"flush", "send", "bulk"})
        /\ op = "cancel" => pc' \in {"read", "closed"} \/ ~Usable'
    BY DEF ColumnListFails, FlushEnds, WriteDone, AfterWrite, WriteFails, ReadFails,
       CommandTimeout, Waiting, Reading, AfterError, Drop, DropStream, BulkRejected,
       BulkAbandoned, Close, connVars, CancelInv, FlagsInCall, CancelPlaces, Usable
  <2> QED
    BY <2>1, <2>2, <2>3 DEF CancelInv, AttnIsOwn, CancelPlaces, CancelOkIsClean
<1> QED BY <1>1, <1>2, <1>3

\* A call, and its next message, start with nothing of an Attention under way.
LEMMA CancelCalls ==
    ASSUME CancelInv, FlagsInCall',
           (\E o \in Calls : Call(o)) \/ FlushPacket \/ StreamEnds, DiscardOnCancelErr
    PROVE  (AttnLast /\ AttnIsOwn /\ CancelPlaces /\ CancelOkIsClean)'
<1>1. CASE (\E o \in Calls : Call(o)) \/ (StreamEnds /\ op = "bulkcols" /\ FlushStream /\ op' = "bulkins")
  <2>1. /\ ~AttnUnderWay /\ pc' \in {"send", "flush"} /\ op' # "cancel"
        /\ buf' = << >> /\ UNCHANGED <<c2s, s2c, srvOut>>
    BY <1>1 DEF Call, StreamEnds, FlushStream, CancelInv, AttnIsOwn, Calls, srvVars, wireVars
  <2>2. ~AttnUnderWay'
    BY <2>1 DEF AttnUnderWay, Has
  <2> QED BY <2>1, <2>2, NoAttnStep DEF CancelOkIsClean
<1>2. CASE FlushPacket
  <2>1. /\ ~AttnUnderWay /\ pc' \in {"send", "flush"} /\ op' # "cancel"
        /\ s2c # << >> /\ s2c' = Tail(s2c) /\ UNCHANGED <<c2s, buf, srvOut>>
    BY <1>2 DEF FlushPacket, CancelInv, FlagsInCall, AttnIsOwn, CancelPlaces, srvVars
  <2>2. \A i \in 1..Len(s2c') : i + 1 \in 1..Len(s2c) /\ s2c'[i] = s2c[i + 1]
    BY <2>1, TailFacts DEF CancelInv, TypeOK, WireTypes
  <2>3. ~AttnUnderWay'
    BY <2>1, <2>2 DEF AttnUnderWay
  <2> QED BY <2>1, <2>3, NoAttnStep DEF CancelOkIsClean
<1>3. CASE StreamEnds /\ pc' = AfterError /\ UNCHANGED <<buf, op>>
  <2>1. /\ UNCHANGED <<c2s, s2c, srvOut, buf, flushed, op>> /\ pc' \in {"idle", "closed"}
        /\ op = "cancel" => pc' = "closed"
    BY <1>3 DEF StreamEnds, AfterError, wireVars, srvVars
  <2>2. AttnLast' /\ (AttnUnderWay' <=> AttnUnderWay)
    BY <2>1, AttnFrame
  <2> QED BY <2>1, <2>2 DEF CancelInv, AttnIsOwn, CancelPlaces, CancelOkIsClean
<1> QED BY <1>1, <1>2, <1>3 DEF StreamEnds

\* Taking the next packet: if it carries the acknowledgement, it is the last.
LEMMA CancelPollRead ==
    ASSUME CancelInv, PollRead
    PROVE  (AttnLast /\ AttnIsOwn /\ CancelPlaces /\ CancelOkIsClean)'
<1>1. /\ s2c \in Seq(ServerPacket) /\ s2c # << >> /\ s2c' = Tail(s2c) /\ buf' = Head(s2c).units
      /\ flushed' = Head(s2c).last /\ pc \in {"read", "stream"}
      /\ UNCHANGED <<c2s, srvOut, pc, op, out, poisoned, desync>>
  BY DEF PollRead, Waiting, Reading, CancelInv, TypeOK, WireTypes, callVars, srvVars
<1>2. /\ Head(s2c) = s2c[1] /\ Len(s2c) \in Nat \ {0} /\ Len(s2c') = Len(s2c) - 1
      /\ \A i \in 1..Len(s2c') : i + 1 \in 1..Len(s2c) /\ s2c'[i] = s2c[i + 1]
      /\ Len(s2c) = 1 <=> s2c' = << >>
  <2>1. /\ Head(s2c) = s2c[1] /\ Len(s2c) \in Nat \ {0} /\ Len(s2c') = Len(s2c) - 1
        /\ \A i \in 1..Len(s2c') : s2c'[i] = s2c[i + 1]
        /\ Len(s2c) = 1 <=> s2c' = << >>
    BY <1>1, TailFacts
  <2> QED BY <2>1
<1>3. 1 \in 1..Len(s2c)
  BY <1>2
<1>4. AttnUnderWay' => AttnUnderWay
  BY <1>1, <1>2, <1>3 DEF AttnUnderWay, Has
<1>5. AttnLast'
  <2>1. \A k \in 1..Len(buf') : buf'[k] = "attn" =>
            k = Len(buf') /\ flushed' /\ s2c' = << >> /\ srvOut' = << >> /\ c2s' = << >>
    BY <1>1, <1>2, <1>3 DEF CancelInv, AttnLast
  <2>2. ASSUME NEW j \in 1..Len(s2c'), NEW k \in 1..Len(s2c'[j].units),
               s2c'[j].units[k] = "attn"
        PROVE  /\ j = Len(s2c') /\ k = Len(s2c'[j].units) /\ s2c'[j].last
               /\ srvOut' = << >> /\ c2s' = << >>
    <3>1. j + 1 \in 1..Len(s2c) /\ s2c'[j] = s2c[j + 1]
      BY <1>2
    <3>2. /\ j + 1 = Len(s2c) /\ k = Len(s2c[j + 1].units) /\ s2c[j + 1].last
          /\ srvOut = << >> /\ c2s = << >>
      BY <2>2, <3>1 DEF CancelInv, AttnLast
    <3>3. j = Len(s2c')
      BY <1>2, <3>2
    <3> QED BY <1>1, <3>1, <3>2, <3>3
  <2> QED BY <1>1, <2>1, <2>2 DEF CancelInv, AttnLast
<1> QED BY <1>1, <1>4, <1>5 DEF CancelInv, AttnIsOwn, CancelPlaces, CancelOkIsClean, Usable

\* Behind the acknowledgement there is nothing.
LEMMA CancelReadsLast ==
    ASSUME CancelInv, ReadToken, Head(buf) = "attn"
    PROVE  ~AttnUnderWay' /\ IsEof' /\ Quiet'
<1>1. /\ buf \in Seq(Units) /\ buf # << >> /\ buf' = Tail(buf)
      /\ UNCHANGED <<c2s, s2c, srvOut, flushed>>
  BY DEF ReadToken, Consume, CancelInv, TypeOK, FieldTypes, srvVars
<1>2. /\ Head(buf) = buf[1] /\ Len(buf) \in Nat \ {0}
      /\ Len(buf) = 1 <=> buf' = << >>
  BY <1>1, TailFacts
<1>3. 1 \in 1..Len(buf) /\ buf[1] = "attn"
  BY <1>2
<1>4. 1 = Len(buf) /\ flushed /\ s2c = << >> /\ srvOut = << >> /\ c2s = << >>
  BY <1>3 DEF CancelInv, AttnLast
<1>5. buf' = << >>
  BY <1>2, <1>4
<1>6. s2c' = << >> /\ srvOut' = << >> /\ c2s' = << >> /\ flushed'
  BY <1>1, <1>4
<1>7. ~AttnUnderWay'
  BY <1>5, <1>6 DEF AttnUnderWay, Has
<1>8. IsEof'
  BY <1>5, <1>6, Zenon DEF IsEof
<1> QED BY <1>6, <1>7, <1>8 DEF Quiet

\* Reading a token: the acknowledgement ends the cancel with nothing left.
LEMMA CancelReads ==
    ASSUME DiscardOnCancelErr, CancelInv, ReadTokenPart \/ ReadToken
    PROVE  (AttnLast /\ AttnIsOwn /\ CancelPlaces /\ CancelOkIsClean)'
<1>1. /\ buf \in Seq(Units) /\ buf # << >> /\ buf' = Tail(buf) /\ pc \in {"read", "stream"}
      /\ UNCHANGED <<c2s, s2c, srvOut, flushed, op, out, poisoned, desync>>
  BY DEF ReadTokenPart, ReadToken, Consume, Reading, CancelInv, TypeOK, FieldTypes, srvVars
<1>2. /\ Head(buf) = buf[1] /\ Len(buf) \in Nat \ {0} /\ Len(buf') = Len(buf) - 1
      /\ \A i \in 1..Len(buf') : i + 1 \in 1..Len(buf) /\ buf'[i] = buf[i + 1]
      /\ Len(buf) = 1 <=> buf' = << >>
  <2>1. /\ Head(buf) = buf[1] /\ Len(buf) \in Nat \ {0} /\ Len(buf') = Len(buf) - 1
        /\ \A i \in 1..Len(buf') : buf'[i] = buf[i + 1]
        /\ Len(buf) = 1 <=> buf' = << >>
    BY <1>1, TailFacts
  <2> QED BY <2>1
<1>3. AttnUnderWay' => AttnUnderWay
  BY <1>1, <1>2 DEF AttnUnderWay, Has
<1>4. AttnLast'
  <2>1. ASSUME NEW k \in 1..Len(buf'), buf'[k] = "attn"
        PROVE  k = Len(buf') /\ flushed' /\ s2c' = << >> /\ srvOut' = << >> /\ c2s' = << >>
    <3>1. k + 1 \in 1..Len(buf) /\ buf[k + 1] = "attn"
      BY <1>2, <2>1
    <3>2. k + 1 = Len(buf) /\ flushed /\ s2c = << >> /\ srvOut = << >> /\ c2s = << >>
      BY <3>1 DEF CancelInv, AttnLast
    <3>3. k = Len(buf')
      BY <1>2, <3>2
    <3> QED BY <1>1, <3>2, <3>3
  <2> QED BY <1>1, <2>1 DEF CancelInv, AttnLast
<1>5. op = "cancel" => pc' \in {"read", "closed", "stream"} \/ (ReadToken /\ Head(buf) = "attn" /\ pc' = "idle")
  BY <1>1 DEF ReadTokenPart, ReadToken, AfterToken
<1>6. op = "cancel" => pc = "read" /\ pc' # "stream"
  BY <1>1 DEF ReadTokenPart, ReadToken, AfterToken, CancelInv, FlagsInCall
<1>7. ReadToken /\ Head(buf) = "attn" => ~AttnUnderWay' /\ IsEof' /\ s2c' = << >> /\ srvOut' = << >> /\ c2s' = << >>
  BY CancelReadsLast DEF Quiet
<1>8. pc' \notin {"flush", "send", "write"} /\ (op = "cancel" => pc' # "bulk")
  BY <1>1, <1>5, <1>6 DEF ReadTokenPart, ReadToken, AfterToken
<1>9. AttnIsOwn' /\ CancelPlaces'
  BY <1>1, <1>3, <1>5, <1>6, <1>7, <1>8 DEF CancelInv, AttnIsOwn, CancelPlaces
<1>10. CancelOkIsClean'
  BY <1>1, <1>5, <1>6, <1>7 DEF CancelOkIsClean
<1> QED BY <1>4, <1>9, <1>10

\* Putting a packet on the wire: an Attention is the last one.
LEMMA CancelPut ==
    ASSUME CancelInv, pc = "write", out > 0, NEW e \in BOOLEAN,
           c2s' = Put([req |-> nreq, op |-> op, eom |-> e]),
           UNCHANGED <<s2c, srvOut, buf, flushed, op, srvOpen>> \/
           (UNCHANGED <<s2c, srvOut, buf, op, srvOpen>> /\ ~Has(buf, "attn"))
    PROVE  AttnLast' /\ (AttnUnderWay' => op = "cancel")
<1> DEFINE p == [req |-> nreq, op |-> op, eom |-> e]
<1>1. c2s \in Seq(ClientPacket) /\ p \in ClientPacket
  BY DEF CancelInv, TypeOK, WireTypes, CallTypes, ClientPacket
<1>2. out \in Int /\ (op = "cancel" => out = 1 /\ ~AttnUnderWay)
  BY DEF CancelInv, TypeOK, CallTypes, CancelPlaces
<1>3. ~AttnUnderWay
  BY <1>2 DEF CancelInv, AttnIsOwn
<1>4. /\ \A k \in 1..Len(c2s) : c2s[k].op # "cancel"
      /\ \A k \in 1..Len(srvOut') : srvOut'[k] # "attn"
      /\ \A k \in 1..Len(buf') : buf'[k] # "attn"
      /\ \A j \in 1..Len(s2c') : \A k \in 1..Len(s2c'[j].units) : s2c'[j].units[k] # "attn"
  BY <1>3 DEF AttnUnderWay, Has
<1>5. \A k \in 1..Len(c2s') : c2s'[k].op = "cancel" => k = Len(c2s') /\ op = "cancel"
  <2>1. CASE ~srvOpen
    BY <1>4, <2>1 DEF Put
  <2>2. CASE srvOpen
    <3>1. c2s' = Append(c2s, p)
      BY <2>2 DEF Put
    <3>2. p.op = op
      OBVIOUS
    <3> HIDE DEF p
    <3>3. /\ Len(c2s') = Len(c2s) + 1 /\ Len(c2s) \in Nat
          /\ c2s'[Len(c2s) + 1] = p
          /\ \A i \in 1..Len(c2s) : c2s'[i] = c2s[i]
      BY <1>1, <3>1, AppendFacts
    <3>4. \A k \in 1..Len(c2s') : k \in 1..Len(c2s) \/ k = Len(c2s')
      BY <3>3
    <3> QED BY <1>4, <3>2, <3>3, <3>4
  <2> QED BY <2>1, <2>2
<1> QED BY <1>4, <1>5 DEF AttnLast, AttnUnderWay, Has

\* The server: it answers an Attention at the end of what it has to say.
LEMMA CancelServer ==
    ASSUME CancelInv, SrvReceive \/ SrvAttention
    PROVE  AttnLast' /\ (AttnUnderWay' => AttnUnderWay)
<1>1. /\ c2s \in Seq(ClientPacket) /\ c2s # << >> /\ c2s' = Tail(c2s)
      /\ UNCHANGED <<s2c, buf, flushed>>
  BY DEF CancelInv, TypeOK, WireTypes, SrvReceive, SrvAttention, connVars
<1>2. /\ Head(c2s) = c2s[1] /\ Len(c2s) \in Nat \ {0} /\ Len(c2s') = Len(c2s) - 1
      /\ \A i \in 1..Len(c2s') : i + 1 \in 1..Len(c2s) /\ c2s'[i] = c2s[i + 1]
      /\ Len(c2s) = 1 <=> c2s' = << >>
  <2>1. /\ Head(c2s) = c2s[1] /\ Len(c2s) \in Nat \ {0} /\ Len(c2s') = Len(c2s) - 1
        /\ \A i \in 1..Len(c2s') : c2s'[i] = c2s[i + 1]
        /\ Len(c2s) = 1 <=> c2s' = << >>
    BY <1>1, TailFacts
  <2> QED BY <2>1
<1>3. 1 \in 1..Len(c2s) /\ c2s[1] \in ClientPacket
  BY <1>1, <1>2
<1>4. /\ \A k \in 1..Len(srvOut) : srvOut[k] # "attn"
      /\ \A k \in 1..Len(buf') : buf'[k] # "attn"
      /\ \A j \in 1..Len(s2c') : \A k \in 1..Len(s2c'[j].units) : s2c'[j].units[k] # "attn"
  BY <1>1 DEF CancelInv, AttnLast
<1>5. \A k \in 1..Len(c2s') : c2s'[k].op = "cancel" => k = Len(c2s') /\ c2s[k + 1].op = "cancel"
  <2> SUFFICES ASSUME NEW k \in 1..Len(c2s'), c2s'[k].op = "cancel"
               PROVE  k = Len(c2s') /\ c2s[k + 1].op = "cancel"
    OBVIOUS
  <2>1. k + 1 = Len(c2s) /\ c2s[k + 1].op = "cancel"
    BY <1>2 DEF CancelInv, AttnLast
  <2> QED BY <1>2, <2>1
<1>6. CASE SrvReceive
  <2>1. \A k \in 1..Len(srvOut') : srvOut'[k] # "attn"
    <3>1. CASE c2s[1].eom
      <4>1. c2s[1].op \in Ops /\ srvOut' \in Responses[c2s[1].op]
        BY <1>2, <1>3, <1>6, <3>1 DEF SrvReceive, ClientPacket
      <4> QED BY <4>1, TokenAssumption
    <3>2. CASE ~c2s[1].eom
      BY <1>2, <1>4, <1>6, <3>2 DEF SrvReceive
    <3> QED BY <3>1, <3>2
  <2> QED BY <1>2, <1>4, <1>5, <2>1 DEF AttnLast, AttnUnderWay, Has
<1>7. CASE SrvAttention
  <2>1. c2s[1].op = "cancel" /\ c2s' = << >>
    BY <1>2, <1>3, <1>7 DEF SrvAttention, CancelInv, AttnLast
  <2>2. \A k \in 1..Len(srvOut') : srvOut'[k] = "attn" => k = Len(srvOut')
    <3>1. srvOut' = <<"attn">> \/ srvOut' = <<"rowt", "attn">>
      BY <1>7 DEF SrvAttention
    <3> QED BY <3>1
  <2>3. AttnUnderWay
    BY <1>3, <2>1 DEF AttnUnderWay
  <2> QED BY <1>4, <2>1, <2>2, <2>3 DEF AttnLast
<1> QED BY <1>6, <1>7

LEMMA CancelSrvSend ==
    ASSUME CancelInv, SrvSend
    PROVE  AttnLast' /\ (AttnUnderWay' => AttnUnderWay)
<1>1. PICK n \in 1..Len(srvOut) :
        /\ s2c' = Append(s2c, [req |-> srvReq, units |-> SubSeq(srvOut, 1, n),
                               last |-> n = Len(srvOut)])
        /\ srvOut' = SubSeq(srvOut, n + 1, Len(srvOut))
  BY DEF SrvSend
<1>2. UNCHANGED <<c2s, buf, flushed>>
  BY DEF SrvSend, connVars
<1> DEFINE p == [req |-> srvReq, units |-> SubSeq(srvOut, 1, n), last |-> n = Len(srvOut)]
<1>3. srvOut \in Seq(Units) /\ Len(srvOut) \in Nat /\ srvOut # << >> /\ s2c \in Seq(ServerPacket)
  BY DEF CancelInv, TypeOK, ServerTypes, WireTypes
<1>4. /\ Len(SubSeq(srvOut, 1, n)) = n /\ SubSeq(srvOut, 1, n) \in Seq(Units)
      /\ \A k \in 1..n : SubSeq(srvOut, 1, n)[k] = srvOut[k] /\ k \in 1..Len(srvOut)
      /\ Len(srvOut') = Len(srvOut) - n
      /\ \A k \in 1..Len(srvOut') : srvOut'[k] = srvOut[k + n] /\ k + n \in 1..Len(srvOut)
      /\ n = Len(srvOut) => srvOut' = << >>
  BY <1>1, <1>3
<1>5. p \in ServerPacket /\ p.units = SubSeq(srvOut, 1, n) /\ p.last = (n = Len(srvOut))
  BY <1>4 DEF ServerPacket, CancelInv, TypeOK, ServerTypes
<1> HIDE DEF p
<1>6. /\ Len(s2c') = Len(s2c) + 1 /\ Len(s2c) \in Nat
      /\ s2c'[Len(s2c) + 1] = p
      /\ \A i \in 1..Len(s2c) : s2c'[i] = s2c[i]
  <2>1. s2c' = Append(s2c, p)
    BY <1>1 DEF p
  <2> QED BY <1>3, <1>5, <2>1, AppendFacts
<1>7. \A i \in 1..Len(s2c') : i \in 1..Len(s2c) \/ i = Len(s2c')
  BY <1>6
<1>8. /\ \A k \in 1..Len(buf') : buf'[k] # "attn"
      /\ \A j \in 1..Len(s2c) : \A k \in 1..Len(s2c[j].units) : s2c[j].units[k] # "attn"
      /\ \A k \in 1..Len(srvOut) : srvOut[k] = "attn" => k = Len(srvOut) /\ c2s = << >>
      /\ \A k \in 1..Len(c2s) : c2s[k].op = "cancel" => k = Len(c2s)
  BY <1>2, <1>3 DEF CancelInv, AttnLast
<1>9. \A k \in 1..Len(srvOut') : srvOut'[k] = "attn" => k = Len(srvOut') /\ c2s = << >>
  <2> SUFFICES ASSUME NEW k \in 1..Len(srvOut'), srvOut'[k] = "attn"
               PROVE  k = Len(srvOut') /\ c2s = << >>
    OBVIOUS
  <2>1. k + n = Len(srvOut) /\ c2s = << >>
    BY <1>4, <1>8
  <2> QED BY <1>1, <1>3, <1>4, <2>1
<1>10. \A k \in 1..Len(p.units) : p.units[k] = "attn" =>
          k = Len(p.units) /\ p.last /\ srvOut' = << >> /\ c2s = << >>
  <2> SUFFICES ASSUME NEW k \in 1..Len(p.units), p.units[k] = "attn"
               PROVE  k = Len(p.units) /\ p.last /\ srvOut' = << >> /\ c2s = << >>
    OBVIOUS
  <2>1. k \in 1..n /\ srvOut[k] = "attn" /\ k \in 1..Len(srvOut)
    BY <1>4, <1>5
  <2>2. k = Len(srvOut) /\ c2s = << >>
    BY <1>8, <2>1
  <2>3. k = n /\ n = Len(srvOut)
    BY <1>1, <1>3, <2>1, <2>2
  <2>4. p.last
    BY <1>5, <2>3, Zenon
  <2> QED BY <1>4, <1>5, <2>2, <2>3, <2>4
<1>11. AttnLast'
  BY <1>2, <1>6, <1>7, <1>8, <1>9, <1>10 DEF AttnLast
<1>12. AttnUnderWay' => AttnUnderWay
  <2>1. ASSUME NEW k \in 1..Len(c2s'), c2s'[k].op = "cancel" PROVE AttnUnderWay
    BY <1>2, <2>1 DEF AttnUnderWay
  <2>2. ASSUME NEW k \in 1..Len(srvOut'), srvOut'[k] = "attn" PROVE AttnUnderWay
    BY <1>4, <2>2 DEF AttnUnderWay, Has
  <2>3. ASSUME NEW j \in 1..Len(s2c'), NEW k \in 1..Len(s2c'[j].units),
               s2c'[j].units[k] = "attn"
        PROVE  AttnUnderWay
    <3>1. j = Len(s2c') /\ s2c'[j] = p
      BY <1>6, <1>7, <1>8, <2>3
    <3>2. k \in 1..n /\ p.units[k] = "attn"
      BY <1>4, <1>5, <2>3, <3>1
    <3>3. srvOut[k] = "attn" /\ k \in 1..Len(srvOut)
      BY <1>4, <1>5, <3>2
    <3> QED BY <3>3 DEF AttnUnderWay, Has
  <2> QED BY <1>8, <2>1, <2>2, <2>3 DEF AttnUnderWay, Has
<1> QED BY <1>11, <1>12

LEMMA CancelStep ==
    ASSUME DiscardOnCancelErr, ~Misparse, CancelInv, [Next]_vars
    PROVE  CancelInv'
<1>1. TypeOK' /\ FlagsInCall'
  BY TypeStep, FlagsStep DEF CancelInv
<1>2. CASE WritePacket
  <2> DEFINE e == out = 1 /\ op # "bulkrow"
  <2>1. /\ pc = "write" /\ pc' = "write" /\ out > 0 /\ out' = out - 1 /\ flushed' = FALSE
        /\ e \in BOOLEAN /\ c2s' = Put([req |-> nreq, op |-> op, eom |-> e])
        /\ UNCHANGED <<s2c, srvOut, buf, op, srvOpen>>
    BY <1>2 DEF WritePacket, PayloadLeft, srvVars
  <2>2. out \in Int /\ (op = "cancel" => out = 1)
    BY <2>1 DEF CancelInv, TypeOK, CallTypes, CancelPlaces
  <2>3. ~Has(buf, "attn")
    BY <2>1, <2>2 DEF CancelInv, CancelPlaces, AttnIsOwn, AttnUnderWay
  <2>4. AttnLast' /\ (AttnUnderWay' => op = "cancel")
    <3> HIDE DEF e
    <3> QED BY <2>1, <2>3, CancelPut
  <2> QED
    BY <1>1, <2>1, <2>2, <2>4 DEF CancelInv, AttnIsOwn, CancelPlaces, CancelOkIsClean
<1>3. CASE Drop /\ ~UNCHANGED c2s
  <2>1. /\ pc = "write" /\ out > 0 /\ pc' \in {"bulk", "idle", "closed"}
        /\ op = "cancel" => pc' = "closed"
        /\ op # "cancel" => pc' # "closed"
        /\ c2s' = Put([req |-> nreq, op |-> op, eom |-> FALSE])
        /\ UNCHANGED <<s2c, srvOut, buf, flushed, op, srvOpen>>
    BY <1>3 DEF Drop, AfterError, srvVars, connVars
  <2>2. AttnLast' /\ (AttnUnderWay' => op = "cancel")
    BY <2>1, CancelPut
  <2> QED
    BY <1>1, <2>1, <2>2 DEF CancelInv, AttnIsOwn, CancelPlaces, CancelOkIsClean
<1>4. CASE ServerStep
  <2>1. /\ UNCHANGED <<connVars, callVars, srvOpen>>
        /\ c2s # << >> \/ srvOut # << >>
    <3>1. SrvSend => \E n \in 1..Len(srvOut) : TRUE
      BY DEF SrvSend
    <3>2. SrvSend => srvOut # << >>
      BY <3>1
    <3> QED BY <1>4, <3>2, Zenon DEF ServerStep, SrvReceive, SrvAttention, SrvSend
  <2>2. AttnLast' /\ (AttnUnderWay' => AttnUnderWay)
    BY <1>4, CancelServer, CancelSrvSend DEF ServerStep
  <2> QED
    BY <1>1, <2>1, <2>2 DEF CancelInv, AttnIsOwn, CancelPlaces, CancelOkIsClean, Usable,
       connVars, callVars
<1>5. CASE SrvClose
  <2>1. /\ UNCHANGED <<connVars, callVars, s2c>> /\ c2s' = << >> /\ srvOut' = << >> /\ ~srvOpen'
    BY <1>5 DEF SrvClose
  <2>2. AttnLast' /\ (AttnUnderWay' => AttnUnderWay)
    BY <2>1 DEF CancelInv, AttnLast, AttnUnderWay, Has, connVars
  <2> QED
    BY <1>1, <2>1, <2>2 DEF CancelInv, AttnIsOwn, CancelPlaces, CancelOkIsClean, Usable,
       connVars, callVars
<1>6. CASE (\E o \in Calls : Call(o)) \/ FlushPacket \/ StreamEnds
  BY <1>1, <1>6, CancelCalls DEF CancelInv
<1>7. CASE PollRead
  BY <1>1, <1>7, CancelPollRead DEF CancelInv
<1>8. CASE ReadTokenPart \/ ReadToken
  BY <1>1, <1>8, CancelReads DEF CancelInv
<1>9. CASE \/ Rejected \/ CancelRequest \/ EncodeFails \/ ColumnListFails
           \/ FlushEnds \/ BeginSend \/ WriteDone \/ WriteFails
           \/ ReadFails \/ CommandTimeout \/ (Drop /\ UNCHANGED c2s) \/ DropStream
           \/ \E o \in {"bulkrow", "bulkload"} : BulkWrite(o)
           \/ BulkRejected \/ BulkAbandoned \/ Close \/ UNCHANGED vars
  <2>1. UNCHANGED <<c2s, s2c, srvOut, srvOpen>>
    BY <1>9 DEF Rejected, CancelRequest, EncodeFails, ColumnListFails, FlushEnds, BeginSend,
       WriteDone, WriteFails, ReadFails, CommandTimeout, Drop, DropStream, BulkWrite,
       BulkRejected, BulkAbandoned, Close, vars, wireVars, srvVars
  <2> QED BY <1>1, <1>9, <2>1, CancelOffWire DEF CancelInv
<1> QED
  BY <1>2, <1>3, <1>4, <1>5, <1>6, <1>7, <1>8, <1>9 DEF Next, ClientStep, Closed

\* A cancel that has returned Ok has read all there was.
CancelDone == op = "cancel" /\ pc = "idle" /\ Usable => IsEof /\ Quiet

\* The inductive invariant: between two cancels Correlated holds.
CorrelatedBetween ==
    /\ CancelInv /\ CancelDone /\ ResponseCorrelation
    /\ op # "cancel" => Correlated

\* The first call after a cancel starts as on a new connection.
LEMMA CallAfterCancel ==
    ASSUME CorrelatedBetween, op = "cancel", NEW o \in Calls, Call(o), TypeOK'
    PROVE  Correlated'
<1>1. /\ c2s' = << >> /\ s2c' = << >> /\ srvOut' = << >> /\ buf' = << >>
      /\ pc' = "send" /\ op' = o /\ o \in Calls /\ seen' = seen
  BY DEF CorrelatedBetween, CancelDone, Call, FlushStream, IsEof, Quiet, wireVars, srvVars
<1>2. OneInFlight'
  BY <1>1 DEF OneInFlight, OwnResponse, OwnMessage, OnePlace, DrainedIsQuiet, Quiet,
     NothingBeforeEnd, Building
<1>3. (NoAttention /\ ClosedIsQuiet /\ OwnBuffer /\ BulkInsertAnswer)'
  BY <1>1 DEF NoAttention, ClosedIsQuiet, OwnBuffer, BulkInsertAnswer, Calls, Reading
<1>4. ResponseCorrelation'
  BY <1>1 DEF CorrelatedBetween, ResponseCorrelation
<1> QED BY <1>2, <1>3, <1>4 DEF Correlated

\* A cancel hands no token to a caller, and ends with its acknowledgement.
LEMMA WithinCancel ==
    ASSUME DiscardOnCancelErr, ~Misparse, CorrelatedBetween, op = "cancel", [Next]_vars,
           ~\E o \in Calls : Call(o)
    PROVE  op' = "cancel" /\ CancelDone' /\ ResponseCorrelation'
<1>1. CASE ReadTokenPart \/ ReadToken
  <2>1. /\ op' = "cancel" /\ UNCHANGED <<poisoned, desync>>
        /\ pc' = "idle" => ReadToken /\ Head(buf) = "attn"
    BY <1>1 DEF ReadTokenPart, ReadToken, AfterToken, AfterError, Reading,
       CorrelatedBetween, CancelInv, FlagsInCall
  <2>2. ResponseCorrelation'
    BY <1>1 DEF ReadTokenPart, ReadToken, CorrelatedBetween, ResponseCorrelation
  <2>3. ReadToken /\ Head(buf) = "attn" => IsEof' /\ Quiet'
    BY CancelReadsLast DEF CorrelatedBetween
  <2> QED BY <2>1, <2>2, <2>3 DEF CancelDone
<1>2. CASE SrvReceive \/ SrvAttention \/ SrvSend
  <2>1. UNCHANGED <<connVars, callVars, seen>> /\ (c2s # << >> \/ srvOut # << >>)
    <3>1. SrvSend => \E n \in 1..Len(srvOut) : TRUE
      BY DEF SrvSend
    <3>2. SrvSend => srvOut # << >>
      BY <3>1
    <3> QED BY <1>2, <3>2, Zenon DEF SrvReceive, SrvAttention, SrvSend
  <2> QED
    BY <2>1 DEF CorrelatedBetween, CancelDone, Quiet, Usable, ResponseCorrelation, connVars, callVars
<1>3. CASE SrvClose
  BY <1>3 DEF SrvClose, CorrelatedBetween, CancelDone, Quiet, IsEof, Usable, ResponseCorrelation,
     connVars, callVars
<1>4. CASE Rejected \/ Closed \/ UNCHANGED vars
  BY <1>4 DEF Rejected, Closed, CorrelatedBetween, CancelDone, Quiet, IsEof, Usable,
     ResponseCorrelation, vars, connVars, callVars, wireVars, srvVars
<1>5. CASE \/ CancelRequest \/ EncodeFails \/ ColumnListFails \/ FlushPacket \/ FlushEnds
           \/ BeginSend \/ WritePacket \/ WriteDone \/ WriteFails \/ PollRead \/ ReadFails
           \/ StreamEnds \/ CommandTimeout \/ Drop \/ DropStream
           \/ (\E o \in {"bulkrow", "bulkload"} : BulkWrite(o))
           \/ BulkRejected \/ BulkAbandoned \/ Close
  <2>1. seen' = seen
    BY <1>5 DEF CancelRequest, EncodeFails, ColumnListFails, FlushPacket, FlushEnds, BeginSend,
       WritePacket, WriteDone, WriteFails, PollRead, ReadFails, StreamEnds, CommandTimeout,
       Drop, DropStream, BulkWrite, BulkRejected, BulkAbandoned, Close
  <2>2. pc \notin {"flush", "send", "bulk", "stream"}
    BY DEF CorrelatedBetween, CancelInv, CancelPlaces, FlagsInCall
  <2>3. op' = "cancel" /\ (pc' = "idle" => ~Usable')
    BY <1>5, <2>2 DEF CancelRequest, EncodeFails, ColumnListFails, FlushPacket, FlushEnds,
       BeginSend, WritePacket, WriteDone, AfterWrite, WriteFails, PollRead, ReadFails, Waiting,
       Reading, StreamEnds, CommandTimeout, AfterError, Drop, DropStream, BulkWrite,
       BulkRejected, BulkAbandoned, Close, Usable, connVars, callVars, CorrelatedBetween,
       CancelInv, FlagsInCall
  <2> QED BY <2>1, <2>3 DEF CorrelatedBetween, CancelDone, ResponseCorrelation
<1> QED BY <1>1, <1>2, <1>3, <1>4, <1>5 DEF Next, ClientStep, ServerStep

LEMMA BetweenStep ==
    ASSUME DiscardOnCancelErr, ~Misparse, CorrelatedBetween, [Next]_vars
    PROVE  CorrelatedBetween'
<1>1. CancelInv' /\ TypeOK'
  BY CancelStep DEF CorrelatedBetween, CancelInv
<1>2. CASE op = "cancel" /\ \E o \in Calls : Call(o)
  <2>1. Correlated' /\ op' # "cancel"
    BY <1>1, <1>2, CallAfterCancel DEF Call, Calls
  <2> QED BY <1>1, <2>1 DEF CorrelatedBetween, CancelDone, Correlated
<1>3. CASE op = "cancel" /\ ~\E o \in Calls : Call(o)
  BY <1>1, <1>3, WithinCancel DEF CorrelatedBetween
<1>4. CASE op # "cancel" /\ CancelRequest
  BY <1>1, <1>4 DEF CancelRequest, CorrelatedBetween, CancelDone, ResponseCorrelation
<1>5. CASE op # "cancel" /\ ~CancelRequest
  <2>1. Correlated'
    BY <1>5, CorrelatedStep DEF CorrelatedBetween
  <2> QED BY <1>1, <2>1 DEF CorrelatedBetween, CancelDone, Correlated, NoAttention
<1> QED BY <1>2, <1>3, <1>4, <1>5

LEMMA BetweenInit == Init => CorrelatedBetween
<1> SUFFICES ASSUME Init PROVE CorrelatedBetween
  OBVIOUS
<1>1. CancelInv /\ Correlated /\ op = "query"
  BY CancelInit, CorrelatedInit DEF Init
<1> QED BY <1>1 DEF CorrelatedBetween, CancelDone, Correlated

-----------------------------------------------------------------------------
(***************************************************************************)
(* Without cancels the bytes in the token buffer, in the packets under way *)
(* and still with the server are one run of whole tokens that continues    *)
(* where the decoder stands.                                               *)
(***************************************************************************)
\* The rest of a row follows its first part, and only that.
WholeTokens(x) == \A i \in 2..Len(x) : x[i] = "rowt" <=> x[i - 1] = "rowh"
StartsInside(x) == x[1] = "rowt"
EndsInside(x) == x[Len(x)] = "rowh"

\* The packets under way and the rest of the response join up, and a response
\* does not end inside a token.
WireTokens ==
    /\ \A j \in 1..Len(s2c) :
         /\ s2c[j].units # << >> /\ WholeTokens(s2c[j].units)
         /\ s2c[j].last => ~EndsInside(s2c[j].units)
    /\ \A j \in 1..(Len(s2c) - 1) :
         StartsInside(s2c[j + 1].units) <=> EndsInside(s2c[j].units)
    /\ srvOut # << >> =>
         /\ WholeTokens(srvOut) /\ ~EndsInside(srvOut)
         /\ s2c # << >> => (StartsInside(srvOut) <=> EndsInside(s2c[Len(s2c)].units))

\* Where the decoder stands, and where it will once it has read its buffer.
Inside == pc # "write" /\ mid
InsideNext == IF buf = << >> THEN Inside ELSE EndsInside(buf)

\* What comes next starts inside a token exactly if the decoder is inside one.
InSync ==
    /\ WholeTokens(buf)
    /\ pc \in {"write", "read", "stream"} =>
         /\ buf # << >> => (StartsInside(buf) <=> Inside)
         /\ s2c # << >> => (StartsInside(s2c[1].units) <=> InsideNext)
         /\ s2c = << >> /\ srvOut # << >> => (StartsInside(srvOut) <=> InsideNext)
         /\ flushed \/ c2s # << >> \/ Building => ~InsideNext

\* The inductive invariant.
Synced == Correlated /\ WireTokens /\ InSync

LEMMA SyncedInit == Init => Synced
<1> SUFFICES ASSUME Init PROVE Synced
  OBVIOUS
<1>1. s2c = << >> /\ srvOut = << >> /\ buf = << >> /\ pc = "idle" /\ seen = NoToken
  BY DEF Init
<1> QED
  BY <1>1, CorrelatedInit DEF Synced, WireTokens, InSync, WholeTokens

\* Steps that take the decoder off the response, or leave it where it is.
LEMMA SyncOffWire ==
    ASSUME Synced, UNCHANGED <<s2c, srvOut, seen>>,
           \/ UNCHANGED <<buf, pc, mid, flushed, c2s, out, op>>
           \/ (UNCHANGED buf \/ buf' = << >>) /\ pc' \notin {"write", "read", "stream"}
    PROVE  (WireTokens /\ InSync)'
<1>1. WireTokens'
  BY DEF Synced, WireTokens
<1>2. CASE UNCHANGED <<buf, pc, mid, flushed, c2s, out, op>>
  BY <1>1, <1>2 DEF Synced, InSync, Inside, InsideNext, Building
<1>3. CASE (UNCHANGED buf \/ buf' = << >>) /\ pc' \notin {"write", "read", "stream"}
  <2>1. WholeTokens(buf)'
    BY <1>3 DEF Synced, InSync, WholeTokens
  <2> QED BY <1>1, <1>3, <2>1 DEF InSync
<1> QED BY <1>2, <1>3

\* While a message is written, and as its last write returns, nothing of the
\* response has been read.
LEMMA SyncWrites ==
    ASSUME Synced, BeginSend \/ WritePacket \/ WriteDone \/ \E o \in {"bulkrow", "bulkload"} : BulkWrite(o)
    PROVE  (WireTokens /\ InSync)'
<1>1. /\ UNCHANGED <<s2c, srvOut, seen, buf>> /\ buf = << >>
      /\ pc' # "write" => (mid' = FALSE /\ pc = "write")
  BY DEF BeginSend, WritePacket, WriteDone, BulkWrite, Synced, Correlated, OwnBuffer, wireVars, srvVars
<1>2. pc # "write" => s2c = << >> /\ srvOut = << >>
  BY DEF BeginSend, WritePacket, WriteDone, BulkWrite, Synced, Correlated, OneInFlight,
     DrainedIsQuiet, Quiet, NothingBeforeEnd, Building
<1>3. WireTokens'
  BY <1>1 DEF Synced, WireTokens
<1>4. ~InsideNext' /\ buf' = << >>
  BY <1>1 DEF InsideNext, Inside
<1>5. pc = "write" => ~InsideNext
  BY <1>1 DEF InsideNext, Inside
<1> QED
  BY <1>1, <1>2, <1>3, <1>4, <1>5 DEF Synced, InSync, WholeTokens

\* A packet taken off the wire ends where the next one, or the rest of the
\* response, starts.
LEMMA WirePacket ==
    ASSUME TypeOK, WireTokens, s2c # << >>, s2c' = Tail(s2c), UNCHANGED srvOut
    PROVE  /\ WireTokens'
           /\ Head(s2c).units # << >> /\ WholeTokens(Head(s2c).units)
           /\ Head(s2c).last => ~EndsInside(Head(s2c).units)
           /\ s2c' # << >> => /\ StartsInside(s2c'[1].units) <=> EndsInside(Head(s2c).units)
                              /\ s2c'[Len(s2c')] = s2c[Len(s2c)]
           /\ s2c' = << >> => /\ s2c[Len(s2c)] = Head(s2c)
                              /\ srvOut # << >> => (StartsInside(srvOut) <=> EndsInside(Head(s2c).units))
<1>1. s2c \in Seq(ServerPacket)
  BY DEF TypeOK, WireTypes
<1>2. /\ Head(s2c) = s2c[1] /\ Len(s2c) \in Nat \ {0} /\ Len(s2c') = Len(s2c) - 1
      /\ \A i \in 1..Len(s2c') : s2c'[i] = s2c[i + 1]
      /\ Len(s2c) = 1 <=> s2c' = << >>
  BY <1>1, TailFacts
<1>3. /\ \A i \in 1..Len(s2c') : i + 1 \in 1..Len(s2c)
      /\ \A i \in 1..(Len(s2c') - 1) : /\ i \in 1..Len(s2c') /\ i + 1 \in 1..Len(s2c')
                                       /\ i + 1 \in 1..(Len(s2c) - 1)
      /\ 1 \in 1..Len(s2c)
      /\ s2c' # << >> => Len(s2c') \in 1..Len(s2c') /\ 1 \in 1..(Len(s2c) - 1) /\ 1 \in 1..Len(s2c')
                         /\ s2c'[Len(s2c')] = s2c[Len(s2c)] /\ s2c'[1] = s2c[2]
  BY <1>2
<1>4. \A k \in 1..Len(s2c') :
       /\ s2c'[k].units # << >> /\ WholeTokens(s2c'[k].units)
       /\ s2c'[k].last => ~EndsInside(s2c'[k].units)
  BY <1>2, <1>3 DEF WireTokens
<1>5. \A k \in 1..(Len(s2c') - 1) :
       StartsInside(s2c'[k + 1].units) <=> EndsInside(s2c'[k].units)
  BY <1>2, <1>3 DEF WireTokens
<1>6. srvOut' # << >> =>
       /\ WholeTokens(srvOut') /\ ~EndsInside(srvOut')
       /\ s2c' # << >> => (StartsInside(srvOut') <=> EndsInside(s2c'[Len(s2c')].units))
  BY <1>3 DEF WireTokens
<1>7. WireTokens'
  BY <1>4, <1>5, <1>6 DEF WireTokens, WholeTokens, StartsInside, EndsInside
<1>8. s2c[1].units # << >> /\ WholeTokens(s2c[1].units) /\ (s2c[1].last => ~EndsInside(s2c[1].units))
  BY <1>3 DEF WireTokens
<1>9. s2c' # << >> => (StartsInside(s2c'[1].units) <=> EndsInside(s2c[1].units))
  BY <1>3 DEF WireTokens
<1>10. s2c' = << >> => /\ s2c[Len(s2c)] = s2c[1]
                       /\ srvOut # << >> => (StartsInside(srvOut) <=> EndsInside(s2c[1].units))
  BY <1>2 DEF WireTokens
<1> QED BY <1>2, <1>3, <1>7, <1>8, <1>9, <1>10

\* The next packet starts where the one before it ended.
LEMMA SyncPacket ==
    ASSUME Synced, FlushPacket \/ PollRead
    PROVE  (WireTokens /\ InSync)'
<1>1. /\ TypeOK /\ WireTokens /\ s2c # << >> /\ s2c' = Tail(s2c)
      /\ flushed' = Head(s2c).last /\ UNCHANGED <<c2s, srvOut, mid, op, out>>
      /\ PollRead => buf' = Head(s2c).units /\ pc' = pc /\ pc \in {"read", "stream"}
                     /\ buf = << >>
      /\ FlushPacket => buf' = buf /\ pc' \in {"flush", "send"}
  BY DEF FlushPacket, PollRead, Waiting, Reading, Synced, Correlated, callVars, srvVars
<1>2. c2s = << >> /\ ~(pc' \in {"read", "stream"} /\ Building')
  BY <1>1 DEF Synced, Correlated, OneInFlight, OnePlace, Building
<1>3. WireTokens'
  BY <1>1, WirePacket
<1>4. CASE FlushPacket
  BY <1>1, <1>3, <1>4 DEF Synced, InSync, WholeTokens
<1>5. CASE PollRead
  <2>1. /\ buf' # << >> /\ WholeTokens(buf')
        /\ flushed' => ~EndsInside(buf')
        /\ s2c' # << >> => (StartsInside(s2c'[1].units) <=> EndsInside(buf'))
        /\ s2c' = << >> /\ srvOut' # << >> => (StartsInside(srvOut') <=> EndsInside(buf'))
    BY <1>1, <1>5, WirePacket
  <2>2. StartsInside(buf') <=> Inside'
    <3>1. Head(s2c) = s2c[1]
      BY <1>1, TailFacts DEF TypeOK, WireTypes
    <3> QED BY <1>1, <1>5, <2>1, <3>1 DEF Synced, InSync, InsideNext, Inside
  <2>3. InsideNext' <=> EndsInside(buf')
    BY <2>1 DEF InsideNext, EndsInside
  <2> QED
    BY <1>1, <1>2, <1>3, <1>5, <2>1, <2>2, <2>3 DEF InSync, WholeTokens, StartsInside
<1> QED BY <1>4, <1>5

\* Reading a token leaves the decoder between tokens, reading the first part of
\* a row inside it; what follows in the buffer agrees.  No token is misread.
LEMMA BufferRead ==
    ASSUME buf \in Seq(Units), WholeTokens(buf), StartsInside(buf) <=> mid,
           ReadTokenPart \/ ReadToken \/ Misparse
    PROVE  /\ ~Misparse /\ WholeTokens(buf') /\ buf # << >>
           /\ buf' # << >> => /\ StartsInside(buf') <=> mid'
                              /\ EndsInside(buf') <=> EndsInside(buf)
           /\ buf' = << >> => (mid' <=> EndsInside(buf))
<1>3. buf # << >> /\ ~Misparse
  <2>1. buf # << >>
    BY DEF ReadTokenPart, ReadToken, Misparse
  <2>2. Head(buf) = buf[1]
    BY <2>1, TailFacts
  <2> QED BY <2>1, <2>2 DEF Misparse, Aligned, StartsInside
<1>1. buf' = Tail(buf)
  BY <1>3 DEF ReadTokenPart, ReadToken, Consume
<1>2. /\ Head(buf) = buf[1] /\ Len(buf) \in Nat \ {0} /\ Len(buf') = Len(buf) - 1
      /\ \A i \in 1..Len(buf') : buf'[i] = buf[i + 1]
      /\ Len(buf) = 1 <=> buf' = << >>
  BY <1>1, <1>3, TailFacts
<1>4. mid' <=> buf[1] = "rowh"
  BY <1>2, <1>3 DEF ReadTokenPart, ReadToken
<1>5. WholeTokens(buf')
  <2> SUFFICES ASSUME NEW i \in 2..Len(buf') PROVE buf'[i] = "rowt" <=> buf'[i - 1] = "rowh"
    BY DEF WholeTokens
  <2>1. i + 1 \in 2..Len(buf) /\ buf'[i] = buf[i + 1] /\ buf'[i - 1] = buf[i]
    BY <1>2
  <2>2. buf[i + 1] = "rowt" <=> buf[(i + 1) - 1] = "rowh"
    BY <2>1 DEF WholeTokens
  <2>3. (i + 1) - 1 = i
    OBVIOUS
  <2> QED BY <2>1, <2>2, <2>3
<1>6. buf' # << >> => (StartsInside(buf') <=> mid')
  <2> SUFFICES ASSUME buf' # << >> PROVE buf'[1] = "rowt" <=> mid'
    BY DEF StartsInside
  <2>1. 2 \in 2..Len(buf) /\ buf'[1] = buf[2] /\ 2 - 1 = 1
    BY <1>2
  <2>2. buf[2] = "rowt" <=> buf[2 - 1] = "rowh"
    BY <2>1 DEF WholeTokens
  <2> QED BY <1>4, <2>1, <2>2
<1>7. buf' # << >> => (EndsInside(buf') <=> EndsInside(buf))
  <2>1. buf' # << >> => buf'[Len(buf')] = buf[Len(buf)]
    BY <1>2
  <2> QED BY <2>1 DEF EndsInside
<1>8. buf' = << >> => (mid' <=> EndsInside(buf))
  BY <1>2, <1>4 DEF EndsInside
<1> QED BY <1>1, <1>3, <1>5, <1>6, <1>7, <1>8

LEMMA SyncRead ==
    ASSUME Synced, ReadTokenPart \/ ReadToken \/ Misparse
    PROVE  (WireTokens /\ InSync)' /\ ~Misparse
<1>1. /\ buf \in Seq(Units) /\ buf # << >> /\ pc \in {"read", "stream"}
      /\ UNCHANGED <<c2s, s2c, srvOut, flushed, op>>
  BY DEF ReadTokenPart, ReadToken, Misparse, Consume, Reading, Synced, Correlated, TypeOK,
     FieldTypes, srvVars
<1>2. WholeTokens(buf) /\ (StartsInside(buf) <=> mid)
  BY <1>1 DEF Synced, InSync, Inside
<1>3. /\ ~Misparse /\ WholeTokens(buf')
      /\ buf' # << >> => /\ StartsInside(buf') <=> mid'
                         /\ EndsInside(buf') <=> EndsInside(buf)
      /\ buf' = << >> => (mid' <=> EndsInside(buf))
  BY <1>1, <1>2, BufferRead
<1>4. WireTokens'
  BY <1>1 DEF Synced, WireTokens
<1>5. pc' # "write"
  BY <1>1, <1>3 DEF ReadTokenPart, ReadToken, AfterToken
<1>6. InsideNext' <=> InsideNext
  BY <1>1, <1>3, <1>5 DEF InsideNext, Inside, EndsInside
<1>7. pc' \in {"read", "stream"} => ~Building'
  BY DEF Building
<1> QED
  BY <1>1, <1>3, <1>4, <1>5, <1>6, <1>7 DEF Synced, InSync, Inside, StartsInside, WholeTokens

\* A response is made of whole tokens, the first of them from its start.
LEMMA ResponseWhole ==
    ASSUME TypeOK, SrvReceive, srvOut' # << >>
    PROVE  WholeTokens(srvOut') /\ ~EndsInside(srvOut') /\ ~StartsInside(srvOut')
<1>1. Head(c2s) \in ClientPacket
  BY HeadTail DEF SrvReceive, TypeOK, WireTypes
<1>2. Head(c2s).op \in Ops /\ srvOut' \in Responses[Head(c2s).op]
  BY <1>1 DEF SrvReceive, ClientPacket
<1>3. srvOut' \in Seq(Units)
  BY <1>2, ResponseAssumption
<1>4. /\ \A i \in 1..Len(srvOut') : srvOut'[i] = "rowt" <=> i > 1 /\ srvOut'[i - 1] = "rowh"
      /\ srvOut'[Len(srvOut')] # "rowh"
  BY <1>2, TokenAssumption
<1>5. 1 \in 1..Len(srvOut') /\ ~(1 > 1) /\ \A i \in 2..Len(srvOut') : i \in 1..Len(srvOut') /\ i > 1
  BY <1>3
<1> QED BY <1>4, <1>5 DEF WholeTokens, EndsInside, StartsInside

\* A response starts between tokens, when the decoder does.
LEMMA SyncReceive ==
    ASSUME Synced, SrvReceive
    PROVE  (WireTokens /\ InSync)'
<1>1. /\ TypeOK /\ c2s # << >> /\ s2c = << >> /\ s2c' = << >>
      /\ srvOut = << >> /\ UNCHANGED <<connVars, callVars>>
  BY DEF Synced, Correlated, SrvReceive, OneInFlight, OnePlace
<1>2. srvOut' # << >> => WholeTokens(srvOut') /\ ~EndsInside(srvOut') /\ ~StartsInside(srvOut')
  BY <1>1, ResponseWhole
<1>3. WireTokens'
  BY <1>1, <1>2 DEF WireTokens, WholeTokens, EndsInside, StartsInside
<1>4. InSync'
  BY <1>1, <1>2 DEF Synced, InSync, WholeTokens, Inside, InsideNext, StartsInside, EndsInside,
     Building, connVars, callVars
<1> QED BY <1>3, <1>4

\* Cutting a response into packets leaves the run of tokens as it is.
LEMMA WireSend ==
    ASSUME TypeOK, WireTokens, SrvSend
    PROVE  /\ WireTokens' /\ s2c' # << >> /\ srvOut # << >>
           /\ s2c # << >> => s2c'[1] = s2c[1]
           /\ s2c = << >> => (StartsInside(s2c'[1].units) <=> StartsInside(srvOut))
           /\ srvOut' = << >> => ~EndsInside(s2c'[Len(s2c')].units)
<1>1. PICK n \in 1..Len(srvOut) :
        /\ s2c' = Append(s2c, [req |-> srvReq, units |-> SubSeq(srvOut, 1, n),
                               last |-> n = Len(srvOut)])
        /\ srvOut' = SubSeq(srvOut, n + 1, Len(srvOut))
  BY DEF SrvSend
<1> DEFINE p == [req |-> srvReq, units |-> SubSeq(srvOut, 1, n), last |-> n = Len(srvOut)]
<1>2. srvOut \in Seq(Units) /\ Len(srvOut) \in Nat /\ srvOut # << >> /\ s2c \in Seq(ServerPacket)
  BY DEF TypeOK, ServerTypes, WireTypes
<1>3. /\ Len(SubSeq(srvOut, 1, n)) = n /\ SubSeq(srvOut, 1, n) \in Seq(Units)
      /\ \A k \in 1..n : SubSeq(srvOut, 1, n)[k] = srvOut[k]
      /\ Len(srvOut') = Len(srvOut) - n
      /\ \A k \in 1..Len(srvOut') : srvOut'[k] = srvOut[k + n]
      /\ n = Len(srvOut) <=> srvOut' = << >>
  <2>1. /\ Len(SubSeq(srvOut, 1, n)) = n /\ SubSeq(srvOut, 1, n) \in Seq(Units)
        /\ \A k \in 1..n : SubSeq(srvOut, 1, n)[k] = srvOut[k]
    BY <1>2
  <2>2. /\ Len(srvOut') = Len(srvOut) - n /\ srvOut' \in Seq(Units)
        /\ \A k \in 1..Len(srvOut') : srvOut'[k] = srvOut[k + n]
    BY <1>1, <1>2
  <2>3. n = Len(srvOut) <=> srvOut' = << >>
    BY <1>2, <2>2, EmptySeq
  <2> QED BY <2>1, <2>2, <2>3
<1>4. p \in ServerPacket /\ p.units = SubSeq(srvOut, 1, n) /\ p.last = (n = Len(srvOut))
  BY <1>3 DEF ServerPacket, TypeOK, ServerTypes
<1> HIDE DEF p
<1>5. /\ Len(s2c') = Len(s2c) + 1 /\ Len(s2c) \in Nat /\ s2c' # << >>
      /\ s2c'[Len(s2c) + 1] = p
      /\ \A i \in 1..Len(s2c) : s2c'[i] = s2c[i]
  <2>1. s2c' = Append(s2c, p)
    BY <1>1 DEF p
  <2> QED BY <1>2, <1>4, <2>1, AppendFacts
<1>6. /\ \A i \in 1..Len(s2c') : i \in 1..Len(s2c) \/ i = Len(s2c')
      /\ \A i \in 1..(Len(s2c') - 1) : i \in 1..Len(s2c) /\ (i \in 1..(Len(s2c) - 1) \/ i = Len(s2c))
      /\ \A i \in 1..(Len(s2c) - 1) : i + 1 \in 1..Len(s2c) /\ i \in 1..Len(s2c)
  BY <1>5
<1>7. WholeTokens(srvOut) /\ ~EndsInside(srvOut)
  BY <1>2 DEF WireTokens
<1>8. p.units # << >> /\ WholeTokens(p.units) /\ (p.last => ~EndsInside(p.units))
      /\ (StartsInside(p.units) <=> StartsInside(srvOut))
  <2>1. Len(p.units) = n /\ n \in Nat \ {0} /\ p.units \in Seq(Units) /\ p.units # << >>
        /\ \A k \in 1..n : p.units[k] = srvOut[k]
    <3>1. p.units = SubSeq(srvOut, 1, n)
      BY <1>4, Zenon
    <3>2. Len(p.units) = n /\ p.units \in Seq(Units) /\ \A k \in 1..n : p.units[k] = srvOut[k]
      BY <1>3, <3>1, Zenon
    <3>3. n \in Nat \ {0}
      BY <1>2
    <3> QED BY <3>2, <3>3
  <2>2. \A i \in 2..n : i \in 2..Len(srvOut) /\ i \in 1..n /\ i - 1 \in 1..n
    BY <1>2, <2>1
  <2>3. WholeTokens(p.units)
    BY <1>7, <2>1, <2>2 DEF WholeTokens
  <2>4. p.last => ~EndsInside(p.units)
    BY <1>4, <1>7, <2>1 DEF EndsInside
  <2> QED BY <2>1, <2>3, <2>4 DEF StartsInside
<1>9. srvOut' # << >> =>
         /\ WholeTokens(srvOut') /\ ~EndsInside(srvOut')
         /\ (StartsInside(srvOut') <=> EndsInside(p.units))
  <2> SUFFICES ASSUME srvOut' # << >>
               PROVE  /\ WholeTokens(srvOut') /\ ~EndsInside(srvOut')
                      /\ (StartsInside(srvOut') <=> EndsInside(p.units))
    OBVIOUS
  <2>1. n \in Nat \ {0} /\ n < Len(srvOut) /\ Len(srvOut') \in 1..Len(srvOut') /\ 1 \in 1..Len(srvOut')
    BY <1>2, <1>3
  <2>2. WholeTokens(srvOut')
    <3> SUFFICES ASSUME NEW i \in 2..Len(srvOut')
                 PROVE  srvOut'[i] = "rowt" <=> srvOut'[i - 1] = "rowh"
      BY DEF WholeTokens
    <3>1. /\ i + n \in 2..Len(srvOut) /\ srvOut'[i] = srvOut[i + n]
          /\ srvOut'[i - 1] = srvOut[(i - 1) + n] /\ (i - 1) + n = (i + n) - 1
      <4>1. i \in 1..Len(srvOut') /\ i - 1 \in 1..Len(srvOut')
        BY <1>3, <2>1
      <4>2. i + n \in 2..Len(srvOut) /\ (i - 1) + n = (i + n) - 1
        BY <1>2, <1>3, <2>1
      <4>3. srvOut'[i] = srvOut[i + n] /\ srvOut'[i - 1] = srvOut[(i - 1) + n]
        BY <1>3, <4>1, Zenon
      <4> QED BY <4>2, <4>3
    <3> QED BY <1>7, <3>1 DEF WholeTokens
  <2>3. ~EndsInside(srvOut')
    <3>1. srvOut'[Len(srvOut')] = srvOut[Len(srvOut)]
      BY <1>2, <1>3, <2>1
    <3> QED BY <1>7, <3>1 DEF EndsInside
  <2>4. StartsInside(srvOut') <=> EndsInside(p.units)
    <3>1. /\ srvOut'[1] = srvOut[n + 1] /\ n + 1 \in 2..Len(srvOut) /\ (n + 1) - 1 = n
          /\ p.units[Len(p.units)] = srvOut[n]
      BY <1>2, <1>3, <1>4, <2>1
    <3> QED BY <1>7, <3>1 DEF WholeTokens, StartsInside, EndsInside
  <2> QED BY <2>2, <2>3, <2>4
<1>10. WireTokens'
  <2>1. \A j \in 1..Len(s2c') :
         /\ s2c'[j].units # << >> /\ WholeTokens(s2c'[j].units)
         /\ s2c'[j].last => ~EndsInside(s2c'[j].units)
    BY <1>5, <1>6, <1>8 DEF WireTokens
  <2>2. ASSUME NEW j \in 1..(Len(s2c') - 1)
        PROVE  StartsInside(s2c'[j + 1].units) <=> EndsInside(s2c'[j].units)
    <3>1. CASE j \in 1..(Len(s2c) - 1)
      BY <1>5, <1>6, <3>1 DEF WireTokens
    <3>2. CASE j = Len(s2c)
      <4>1. s2c'[j + 1] = p /\ s2c'[j] = s2c[Len(s2c)] /\ s2c # << >>
        BY <1>2, <1>5, <3>2
      <4>2. StartsInside(srvOut) <=> EndsInside(s2c[Len(s2c)].units)
        BY <1>2, <4>1 DEF WireTokens
      <4> QED BY <1>8, <4>1, <4>2
    <3> QED BY <1>6, <3>1, <3>2
  <2>3. s2c'[Len(s2c')] = p
    BY <1>5
  <2> QED BY <1>9, <2>1, <2>2, <2>3 DEF WireTokens, WholeTokens, StartsInside, EndsInside
<1>11. s2c # << >> => s2c'[1] = s2c[1]
  BY <1>2, <1>5
<1>12. s2c = << >> => (StartsInside(s2c'[1].units) <=> StartsInside(srvOut))
  <2>1. s2c = << >> => s2c'[1] = p
    BY <1>5
  <2> QED BY <1>8, <2>1
<1>13. srvOut' = << >> => ~EndsInside(s2c'[Len(s2c')].units)
  BY <1>3, <1>4, <1>5, <1>8
<1> QED BY <1>2, <1>5, <1>10, <1>11, <1>12, <1>13

LEMMA SyncSend ==
    ASSUME Synced, SrvSend
    PROVE  (WireTokens /\ InSync)'
<1>1. UNCHANGED <<c2s, connVars, callVars>> /\ TypeOK /\ WireTokens
  BY DEF SrvSend, Synced, Correlated
<1>2. /\ WireTokens' /\ s2c' # << >> /\ srvOut # << >>
      /\ s2c # << >> => s2c'[1] = s2c[1]
      /\ s2c = << >> => (StartsInside(s2c'[1].units) <=> StartsInside(srvOut))
  BY <1>1, WireSend
<1>3. pc \in {"write", "read", "stream"} => (StartsInside(s2c'[1].units) <=> InsideNext)
  BY <1>2 DEF Synced, InSync
<1> QED
  BY <1>1, <1>2, <1>3 DEF Synced, InSync, WholeTokens, Inside, InsideNext, StartsInside,
     EndsInside, Building, connVars, callVars

LEMMA SyncedStep ==
    ASSUME ~CancelRequest, Synced, [Next]_vars
    PROVE  Synced' /\ ~Misparse
<1>0. ~Misparse
  BY SyncRead
<1> SUFFICES Synced'
  BY <1>0
<1>1. Correlated'
  BY <1>0, CorrelatedStep DEF Synced
<1>2. CASE BeginSend \/ WritePacket \/ WriteDone \/ \E o \in {"bulkrow", "bulkload"} : BulkWrite(o)
  BY <1>1, <1>2, SyncWrites DEF Synced
<1>3. CASE FlushPacket \/ PollRead
  BY <1>1, <1>3, SyncPacket DEF Synced
<1>4. CASE ReadTokenPart \/ ReadToken \/ Misparse
  BY <1>1, <1>4, SyncRead DEF Synced
<1>5. CASE SrvReceive \/ SrvSend
  BY <1>1, <1>5, SyncReceive, SyncSend DEF Synced
<1>6. CASE SrvClose
  <2>1. /\ UNCHANGED <<connVars, callVars, s2c, seen>> /\ c2s' = << >> /\ srvOut' = << >>
    BY <1>6 DEF SrvClose
  <2>2. WireTokens'
    BY <2>1 DEF Synced, WireTokens
  <2>3. InSync'
    BY <2>1 DEF Synced, InSync, Inside, InsideNext, Building, connVars, callVars
  <2> QED BY <1>1, <2>2, <2>3 DEF Synced
<1>7. CASE SrvAttention
  <2>1. Head(c2s) = c2s[1] /\ 1 \in 1..Len(c2s)
    BY <1>7, TailFacts DEF SrvAttention, Synced, Correlated, TypeOK, WireTypes
  <2> QED BY <1>7, <2>1 DEF SrvAttention, Synced, Correlated, NoAttention
<1>8. CASE \/ (\E o \in Calls : Call(o)) \/ StreamEnds
           \/ Rejected \/ EncodeFails \/ ColumnListFails \/ FlushEnds \/ WriteFails
           \/ ReadFails \/ CommandTimeout \/ Drop \/ DropStream
           \/ BulkRejected \/ BulkAbandoned \/ Close \/ Closed \/ UNCHANGED vars
  <2>1. UNCHANGED <<s2c, srvOut, seen>>
    BY <1>8 DEF Call, StreamEnds, Rejected, EncodeFails, ColumnListFails, FlushEnds,
       WriteFails, ReadFails, CommandTimeout, Drop, DropStream,
       BulkRejected, BulkAbandoned, Close, Closed, vars, wireVars, srvVars
  <2>2. \/ UNCHANGED <<buf, pc, mid, flushed, c2s, out, op>>
        \/ (UNCHANGED buf \/ buf' = << >>) /\ pc' \notin {"write", "read", "stream"}
    BY <1>8 DEF Call, StreamEnds, FlushStream, AfterError, Rejected, EncodeFails,
       ColumnListFails, FlushEnds, WriteFails, ReadFails, CommandTimeout, Drop, DropStream,
       BulkRejected, BulkAbandoned, Close, Closed, vars, connVars, callVars, wireVars
  <2> QED BY <1>1, <2>1, <2>2, SyncOffWire DEF Synced
<1> QED
  BY <1>0, <1>2, <1>3, <1>4, <1>5, <1>6, <1>7, <1>8 DEF Next, ClientStep, ServerStep

\* Without cancels at most one message is ever under way: a drained
\* connection (flushed, or flush_stream just returned) has nothing of an
\* earlier response left in either direction.
THEOREM OneMessageInFlight == NoCancel => (Spec => []OneInFlight)
<1> SUFFICES ASSUME NoCancel PROVE Spec => []OneInFlight
  OBVIOUS
<1>1. Init => Synced
  BY SyncedInit
<1>2. Synced /\ [Next]_vars => Synced'
  BY SyncedStep DEF NoCancel, CancelRequest
<1>3. Synced => OneInFlight
  BY DEF Synced, Correlated
<1> QED
  BY <1>1, <1>2, <1>3, PTL DEF Spec

\* Without cancels no call ever receives a token of another call's response,
\* whatever is dropped, left unread, timed out, abandoned or closed.
THEOREM NoCrossTalk == NoCancel => (Spec => []ResponseCorrelation)
<1> SUFFICES ASSUME NoCancel PROVE Spec => []ResponseCorrelation
  OBVIOUS
<1>1. Init => Synced
  BY SyncedInit
<1>2. Synced /\ [Next]_vars => Synced'
  BY SyncedStep DEF NoCancel, CancelRequest
<1>3. Synced => ResponseCorrelation
  BY DEF Synced, Correlated
<1> QED
  BY <1>1, <1>2, <1>3, PTL DEF Spec

(***************************************************************************)
(* If no future is dropped inside a token or in flush_stream, none of this *)
(* depends on whose response is read: what the server sends is one run of  *)
(* whole tokens, and the decoder leaves it only between two of them.  This *)
(* covers cancels, also after one has failed.                              *)
(***************************************************************************)
NoSplit == "split" \notin Faults

\* What a server that is there has sent does not end inside a token, unless
\* the rest is to come; one that has closed sends nothing more.
SentWhole ==
    /\ ~srvOpen => srvOut = << >>
    /\ srvOpen /\ srvOut = << >> /\ s2c # << >> => ~EndsInside(s2c[Len(s2c)].units)

\* Where a decoder stands; one that reads again after a write, begins anew.
Within == pc \in Reading /\ mid
WithinNext == IF buf = << >> THEN Within ELSE EndsInside(buf)

\* The decoder stands where the run goes on, except while flush_stream passes
\* packets over and once nothing will be read any more.
InPlace ==
    pc \notin {"flush", "closed"} /\ (desync => pc \in Reading) =>
        /\ buf # << >> => (StartsInside(buf) <=> Within)
        /\ s2c # << >> => (StartsInside(s2c[1].units) <=> WithinNext)
        /\ s2c = << >> /\ srvOut # << >> => (StartsInside(srvOut) <=> WithinNext)
        /\ flushed \/ (srvOpen /\ s2c = << >> /\ srvOut = << >>) => ~WithinNext

\* The inductive invariant.
PlaceInv ==
    /\ TypeOK /\ FlagsInCall /\ WireTokens /\ SentWhole /\ InPlace /\ WholeTokens(buf)
    /\ pc \in {"flush", "send"} => buf = << >>

PlaceParts ==
    /\ WireTokens /\ SentWhole /\ InPlace /\ WholeTokens(buf)
    /\ pc \in {"flush", "send"} => buf = << >>

LEMMA PlaceInit == Init => PlaceInv
<1> SUFFICES ASSUME Init PROVE PlaceInv
  OBVIOUS
<1>1. /\ s2c = << >> /\ srvOut = << >> /\ buf = << >> /\ pc = "idle" /\ FlagsInCall
  BY DEF Init, FlagsInCall
<1> QED
  BY <1>1, TypeInit DEF PlaceInv, WireTokens, SentWhole, InPlace, Within, WithinNext, WholeTokens,
     Reading

\* Steps that leave the run alone, and the decoder where it is or between
\* tokens.
LEMMA PlaceOffWire ==
    ASSUME PlaceInv, UNCHANGED <<s2c, srvOut, srvOpen>>,
           (pc' \in {"flush", "send"} => buf' = << >>) /\ (UNCHANGED buf \/ buf' = << >>),
           \/ pc' \in {"flush", "closed"} \/ (desync' /\ pc' \notin Reading)
           \/ /\ UNCHANGED buf /\ (flushed' => flushed) /\ (Within' <=> Within)
              /\ pc \notin {"flush", "closed"} /\ (desync => pc \in Reading)
           \/ /\ buf' = << >> /\ flushed /\ flushed' = flushed /\ ~Within'
              /\ pc \notin {"flush", "closed"} /\ (desync => pc \in Reading)
           \/ buf' = << >> /\ ~srvOpen /\ s2c = << >> /\ ~Within'
    PROVE  PlaceParts'
<1>1. WireTokens' /\ SentWhole'
  BY DEF PlaceInv, WireTokens, SentWhole, WholeTokens, StartsInside, EndsInside
<1>2. WholeTokens(buf)'
  BY DEF PlaceInv, WholeTokens
<1>3. InPlace'
  <2>1. CASE pc' \in {"flush", "closed"} \/ (desync' /\ pc' \notin Reading)
    BY <2>1 DEF InPlace
  <2>2. CASE /\ UNCHANGED buf /\ (flushed' => flushed) /\ (Within' <=> Within)
             /\ pc \notin {"flush", "closed"} /\ (desync => pc \in Reading)
    <3>1. WithinNext' <=> WithinNext
      BY <2>2 DEF WithinNext, EndsInside
    <3> QED BY <2>2, <3>1 DEF PlaceInv, InPlace, StartsInside
  <2>3. CASE /\ buf' = << >> /\ flushed /\ flushed' = flushed /\ ~Within'
             /\ pc \notin {"flush", "closed"} /\ (desync => pc \in Reading)
    <3>1. ~WithinNext'
      BY <2>3 DEF WithinNext
    <3>2. ~WithinNext
      BY <2>3 DEF PlaceInv, InPlace
    <3> QED BY <2>3, <3>1, <3>2 DEF PlaceInv, InPlace, StartsInside
  <2>4. CASE buf' = << >> /\ ~srvOpen /\ s2c = << >> /\ ~Within'
    <3>1. ~WithinNext'
      BY <2>4 DEF WithinNext
    <3> QED BY <2>4, <3>1 DEF PlaceInv, InPlace, SentWhole
  <2> QED BY <2>1, <2>2, <2>3, <2>4
<1> QED BY <1>1, <1>2, <1>3 DEF PlaceParts

\* Calls, writes, ends of calls and what the application does between them.
LEMMA PlaceCalls ==
    ASSUME NoSplit, PlaceInv,
           \/ (\E o \in Calls : Call(o)) \/ StreamEnds \/ CancelRequest
           \/ Rejected \/ EncodeFails \/ ColumnListFails \/ FlushEnds \/ WriteFails
           \/ BeginSend \/ WritePacket \/ WriteDone
           \/ (\E o \in {"bulkrow", "bulkload"} : BulkWrite(o))
           \/ ReadFails \/ CommandTimeout \/ Drop \/ DropStream
           \/ BulkRejected \/ BulkAbandoned \/ Close \/ Closed \/ UNCHANGED vars
    PROVE  PlaceParts'
<1> USE DEF Reading, Within
<1>2. mid \in BOOLEAN /\ FlagsInCall /\ (pc \in {"flush", "send"} => buf = << >>)
  BY DEF PlaceInv, TypeOK, CallTypes
<1>3. CASE (\E o \in Calls : Call(o)) \/ StreamEnds
  <2>1. /\ UNCHANGED <<s2c, srvOut, srvOpen, flushed, desync, mid>>
        /\ pc = "idle" \/ (pc \in Reading /\ ~mid /\ IsEof)
        /\ \/ FlushStream
           \/ pc' \in {"idle", "closed"} /\ UNCHANGED buf /\ pc \in Reading
    BY <1>3 DEF Call, StreamEnds, AfterError, wireVars, srvVars
  <2>2. CASE FlushStream
    BY <2>1, <2>2, PlaceOffWire DEF FlushStream, Usable
  <2>3. CASE pc' \in {"idle", "closed"} /\ UNCHANGED buf /\ pc \in Reading
    BY <2>1, <2>3, PlaceOffWire
  <2> QED BY <2>1, <2>2, <2>3
<1>4. CASE \/ CancelRequest \/ EncodeFails \/ ColumnListFails \/ BeginSend \/ WritePacket
           \/ WriteDone \/ WriteFails \/ \E o \in {"bulkrow", "bulkload"} : BulkWrite(o)
  <2>1. /\ UNCHANGED <<s2c, srvOut, srvOpen, buf, desync>> /\ (flushed' => flushed)
        /\ pc \in {"idle", "send", "write", "bulk"} /\ ~desync
        /\ pc' \in {"idle", "write", "bulk"} \/ (pc' \in Reading /\ ~mid')
    BY <1>2, <1>4 DEF CancelRequest, EncodeFails, ColumnListFails, BeginSend, WritePacket,
       WriteDone, WriteFails, BulkWrite, AfterWrite, FlagsInCall, Usable, connVars, wireVars, srvVars
  <2>2. (Within' <=> Within) /\ pc' \notin {"flush", "send"}
    BY <2>1
  <2> QED BY <2>1, <2>2, PlaceOffWire
<1>5. CASE FlushEnds
  <2>1. /\ UNCHANGED <<s2c, srvOut, srvOpen, buf>> /\ buf = << >> /\ ~srvOpen /\ s2c = << >>
        /\ pc' \in {"send", "idle"}
    BY <1>2, <1>5 DEF FlushEnds, wireVars, srvVars
  <2> QED BY <2>1, PlaceOffWire
<1>6. CASE ReadFails
  <2>1. /\ UNCHANGED <<s2c, srvOut, srvOpen, buf>> /\ buf = << >> /\ ~srvOpen /\ s2c = << >>
        /\ pc' \in {"closed", "idle"}
    BY <1>6 DEF ReadFails, Waiting, AfterError, connVars, wireVars, srvVars
  <2> QED BY <2>1, PlaceOffWire
<1>7. CASE CommandTimeout
  <2>1. /\ UNCHANGED <<s2c, srvOut, srvOpen, buf, flushed, mid>> /\ pc \in Reading /\ desync'
        /\ pc' \in {"closed", "idle"} \/ pc' = pc
    BY <1>7 DEF CommandTimeout, Waiting, AfterError, wireVars, srvVars
  <2> QED BY <2>1, PlaceOffWire
<1>1. CASE Drop
  <2>1. /\ UNCHANGED <<s2c, srvOut, srvOpen, buf, flushed, mid, desync>>
        /\ pc = "write" \/ (pc = "read" /\ ~mid)
        /\ pc' \in {"closed", "idle", "bulk"}
    BY <1>1 DEF Drop, NoSplit, AfterError, connVars, srvVars
  <2> QED BY <1>2, <2>1, PlaceOffWire DEF FlagsInCall
<1>8. CASE DropStream
  <2>1. /\ UNCHANGED <<s2c, srvOut, srvOpen, buf, flushed, mid>> /\ pc \in Reading /\ ~mid
        /\ pc' = "idle"
    BY <1>8 DEF DropStream, connVars, wireVars, srvVars
  <2> QED BY <2>1, PlaceOffWire
<1>9. CASE BulkRejected \/ BulkAbandoned \/ Close \/ Rejected \/ Closed \/ UNCHANGED vars
  <2>1. /\ UNCHANGED <<s2c, srvOut, srvOpen, buf, flushed, mid, desync>>
        /\ pc' = pc \/ (pc \in {"bulk", "idle"} /\ pc' \in {"idle", "closed"})
    BY <1>9 DEF BulkRejected, BulkAbandoned, Close, Rejected, Closed, vars, connVars, callVars,
       wireVars, srvVars
  <2> QED BY <1>2, <2>1, PlaceOffWire
<1> QED BY <1>1, <1>3, <1>4, <1>5, <1>6, <1>7, <1>8, <1>9

\* After the last packet of a message, passed over or read, the next one
\* starts between tokens.
LEMMA PlacePacket ==
    ASSUME PlaceInv, FlushPacket \/ PollRead
    PROVE  PlaceParts'
<1>1. /\ TypeOK /\ WireTokens /\ s2c # << >> /\ s2c' = Tail(s2c)
      /\ flushed' = Head(s2c).last /\ UNCHANGED <<srvOut, srvOpen, mid, desync>>
      /\ PollRead => buf' = Head(s2c).units /\ pc' = pc /\ pc \in Reading /\ buf = << >>
      /\ FlushPacket => /\ buf' = << >> /\ pc = "flush"
                        /\ pc' = IF Head(s2c).last THEN "send" ELSE "flush"
  BY DEF FlushPacket, PollRead, Waiting, PlaceInv, callVars, srvVars
<1>2. /\ WireTokens'
      /\ Head(s2c).units # << >> /\ WholeTokens(Head(s2c).units)
      /\ Head(s2c).last => ~EndsInside(Head(s2c).units)
      /\ s2c' # << >> => /\ StartsInside(s2c'[1].units) <=> EndsInside(Head(s2c).units)
                         /\ s2c'[Len(s2c')] = s2c[Len(s2c)]
      /\ s2c' = << >> => /\ s2c[Len(s2c)] = Head(s2c)
                         /\ srvOut # << >> => (StartsInside(srvOut) <=> EndsInside(Head(s2c).units))
  BY <1>1, WirePacket
<1>3. SentWhole'
  BY <1>1, <1>2 DEF PlaceInv, SentWhole, EndsInside
<1>4. CASE FlushPacket
  <2>1. ~WithinNext'
    BY <1>1, <1>4 DEF WithinNext, Within, Reading
  <2>2. InPlace'
    BY <1>1, <1>2, <1>4, <2>1 DEF InPlace, StartsInside
  <2>3. WholeTokens(buf)'
    BY <1>1, <1>4 DEF WholeTokens
  <2> QED BY <1>1, <1>2, <1>3, <1>4, <2>2, <2>3 DEF PlaceParts
<1>5. CASE PollRead
  <2>1. Head(s2c) = s2c[1]
    BY <1>1, TailFacts DEF TypeOK, WireTypes
  <2>2. StartsInside(buf') <=> Within'
    BY <1>1, <1>5, <2>1 DEF PlaceInv, InPlace, WithinNext, Within, Reading
  <2>3. WithinNext' <=> EndsInside(buf')
    BY <1>1, <1>2, <1>5 DEF WithinNext, EndsInside
  <2>4. srvOpen /\ s2c' = << >> /\ srvOut = << >> => ~EndsInside(buf')
    BY <1>1, <1>2, <1>5 DEF PlaceInv, SentWhole
  <2>5. InPlace'
    BY <1>1, <1>2, <1>5, <2>2, <2>3, <2>4 DEF InPlace, StartsInside
  <2>6. WholeTokens(buf)' /\ pc' \notin {"flush", "send"}
    BY <1>1, <1>2, <1>5 DEF WholeTokens, Reading
  <2> QED BY <1>2, <1>3, <2>5, <2>6 DEF PlaceParts
<1> QED BY <1>4, <1>5

LEMMA PlaceRead ==
    ASSUME PlaceInv, ReadTokenPart \/ ReadToken \/ Misparse
    PROVE  PlaceParts' /\ ~Misparse
<1>1. /\ buf \in Seq(Units) /\ buf # << >> /\ pc \in Reading
      /\ UNCHANGED <<s2c, srvOut, srvOpen, flushed, desync>>
  BY DEF ReadTokenPart, ReadToken, Misparse, Consume, PlaceInv, TypeOK, FieldTypes, srvVars
<1>2. WholeTokens(buf) /\ (StartsInside(buf) <=> mid)
  BY <1>1 DEF PlaceInv, InPlace, Within, Reading
<1>3. /\ ~Misparse /\ WholeTokens(buf')
      /\ buf' # << >> => /\ StartsInside(buf') <=> mid'
                         /\ EndsInside(buf') <=> EndsInside(buf)
      /\ buf' = << >> => (mid' <=> EndsInside(buf))
  BY <1>1, <1>2, BufferRead
<1>4. /\ pc' \in Reading \/ (pc' \in {"idle", "bulk"} /\ ~mid')
      /\ mid' \in BOOLEAN
  BY <1>1, <1>3 DEF ReadTokenPart, ReadToken, AfterToken, Reading
<1>5. Within' <=> mid'
  BY <1>4 DEF Within, Reading
<1>6. WithinNext' <=> WithinNext
  BY <1>1, <1>3, <1>5 DEF WithinNext, EndsInside
<1>7. InPlace'
  BY <1>1, <1>3, <1>5, <1>6 DEF PlaceInv, InPlace, StartsInside, Reading
<1>8. WireTokens' /\ SentWhole'
  BY <1>1 DEF PlaceInv, WireTokens, SentWhole, WholeTokens, StartsInside, EndsInside
<1>9. WholeTokens(buf)' /\ pc' \notin {"flush", "send"}
  BY <1>3, <1>4 DEF WholeTokens, Reading
<1> QED BY <1>3, <1>7, <1>8, <1>9 DEF PlaceParts

\* An answer begins between tokens; an acknowledgement takes the place of the
\* rest of an answer at the end of a token.
LEMMA PlaceServer ==
    ASSUME PlaceInv, SrvReceive \/ SrvAttention \/ SrvSend \/ SrvClose
    PROVE  PlaceParts'
<1>1. UNCHANGED <<connVars, callVars>>
  BY DEF SrvReceive, SrvAttention, SrvSend, SrvClose
<1>2. /\ WithinNext' <=> WithinNext
      /\ Within' <=> Within
      /\ WholeTokens(buf)'
      /\ pc' \in {"flush", "send"} => buf' = << >>
  BY <1>1 DEF PlaceInv, WithinNext, Within, EndsInside, WholeTokens, connVars, callVars
<1>3. CASE SrvReceive \/ SrvAttention
  <2>1. srvOpen /\ srvOpen' = srvOpen /\ s2c' = s2c
    BY <1>3 DEF SrvReceive, SrvAttention
  <2>2. srvOut' # << >> =>
          /\ WholeTokens(srvOut') /\ ~EndsInside(srvOut')
          /\ StartsInside(srvOut') <=> srvOut # << >> /\ StartsInside(srvOut)
    <3>1. CASE SrvReceive
      BY <3>1, ResponseWhole DEF PlaceInv, SrvReceive
    <3>2. CASE SrvAttention
      <4>1. /\ WholeTokens(<<"attn">>) /\ ~EndsInside(<<"attn">>) /\ ~StartsInside(<<"attn">>)
            /\ WholeTokens(<<"rowt", "attn">>) /\ ~EndsInside(<<"rowt", "attn">>)
            /\ StartsInside(<<"rowt", "attn">>)
        BY DEF WholeTokens, EndsInside, StartsInside
      <4>2. CASE srvOut = << >>
        BY <3>2, <4>1, <4>2 DEF SrvAttention
      <4>3. CASE srvOut # << >>
        <5>1. Head(srvOut) = srvOut[1]
          BY <4>3, TailFacts DEF PlaceInv, TypeOK, ServerTypes
        <5>2. srvOut' = IF StartsInside(srvOut) THEN <<"rowt", "attn">> ELSE <<"attn">>
          BY <3>2, <4>3, <5>1 DEF SrvAttention, StartsInside
        <5> QED BY <4>1, <4>3, <5>2
      <4> QED BY <4>2, <4>3
    <3> QED BY <1>3, <3>1, <3>2
  <2>3. srvOut' = << >> => srvOut = << >>
    BY <1>3 DEF SrvReceive, SrvAttention
  <2>4. s2c # << >> /\ srvOut' # << >> => (StartsInside(srvOut') <=> EndsInside(s2c[Len(s2c)].units))
    BY <2>1, <2>2 DEF PlaceInv, WireTokens, SentWhole
  <2>5. WireTokens'
    BY <2>1, <2>2, <2>4 DEF PlaceInv, WireTokens, WholeTokens, StartsInside, EndsInside
  <2>6. SentWhole'
    BY <2>1, <2>3 DEF PlaceInv, SentWhole, EndsInside
  <2>7. InPlace'
    <3> SUFFICES ASSUME pc \notin {"flush", "closed"}, desync => pc \in Reading
                 PROVE  InPlace'
      BY <1>1 DEF InPlace, connVars, callVars
    <3>1. s2c = << >> /\ srvOut' # << >> => (StartsInside(srvOut') <=> WithinNext)
      BY <2>1, <2>2 DEF PlaceInv, InPlace
    <3> QED BY <1>1, <1>2, <2>1, <2>3, <3>1 DEF PlaceInv, InPlace, StartsInside, connVars, callVars
  <2> QED BY <1>2, <2>5, <2>6, <2>7 DEF PlaceParts
<1>4. CASE SrvSend
  <2>1. /\ WireTokens' /\ s2c' # << >> /\ srvOut # << >>
        /\ s2c # << >> => s2c'[1] = s2c[1]
        /\ s2c = << >> => (StartsInside(s2c'[1].units) <=> StartsInside(srvOut))
        /\ srvOut' = << >> => ~EndsInside(s2c'[Len(s2c')].units)
    BY <1>4, WireSend DEF PlaceInv
  <2>2. srvOpen /\ srvOpen' = srvOpen
    BY <1>4 DEF SrvSend
  <2>3. SentWhole'
    BY <2>1, <2>2 DEF SentWhole, EndsInside
  <2>4. InPlace'
    <3> SUFFICES ASSUME pc \notin {"flush", "closed"}, desync => pc \in Reading
                 PROVE  InPlace'
      BY <1>1 DEF InPlace, connVars, callVars
    <3>1. StartsInside(s2c'[1].units) <=> WithinNext
      BY <2>1 DEF PlaceInv, InPlace
    <3> QED BY <1>1, <1>2, <2>1, <3>1 DEF PlaceInv, InPlace, StartsInside, connVars, callVars
  <2> QED BY <1>2, <2>1, <2>3, <2>4 DEF PlaceParts
<1>5. CASE SrvClose
  <2>1. s2c' = s2c /\ srvOut' = << >> /\ ~srvOpen'
    BY <1>5 DEF SrvClose
  <2>2. WireTokens' /\ SentWhole'
    BY <2>1 DEF PlaceInv, WireTokens, SentWhole, WholeTokens, StartsInside, EndsInside
  <2>3. InPlace'
    BY <1>1, <1>2, <2>1 DEF PlaceInv, InPlace, StartsInside, connVars, callVars
  <2> QED BY <1>2, <2>2, <2>3 DEF PlaceParts
<1> QED BY <1>3, <1>4, <1>5

LEMMA PlaceStep ==
    ASSUME NoSplit, PlaceInv, [Next]_vars
    PROVE  PlaceInv' /\ ~Misparse
<1>1. TypeOK' /\ FlagsInCall'
  BY TypeStep, FlagsStep DEF PlaceInv
<1>2. ~Misparse
  BY PlaceRead
<1>3. CASE \/ (\E o \in Calls : Call(o)) \/ StreamEnds \/ CancelRequest
           \/ Rejected \/ EncodeFails \/ ColumnListFails \/ FlushEnds \/ WriteFails
           \/ BeginSend \/ WritePacket \/ WriteDone
           \/ (\E o \in {"bulkrow", "bulkload"} : BulkWrite(o))
           \/ ReadFails \/ CommandTimeout \/ Drop \/ DropStream
           \/ BulkRejected \/ BulkAbandoned \/ Close \/ Closed \/ UNCHANGED vars
  BY <1>1, <1>2, <1>3, PlaceCalls DEF PlaceInv, PlaceParts
<1>4. CASE FlushPacket \/ PollRead
  BY <1>1, <1>2, <1>4, PlacePacket DEF PlaceInv, PlaceParts
<1>5. CASE ReadTokenPart \/ ReadToken \/ Misparse
  BY <1>1, <1>2, <1>5, PlaceRead DEF PlaceInv, PlaceParts
<1>6. CASE SrvReceive \/ SrvAttention \/ SrvSend \/ SrvClose
  BY <1>1, <1>2, <1>6, PlaceServer DEF PlaceInv, PlaceParts
<1> QED BY <1>3, <1>4, <1>5, <1>6 DEF Next, ClientStep, ServerStep

\* Only a misread token counts as one.
LEMMA NoneMisread ==
    ASSUME NoMisparse, [Next]_vars, ~Misparse
    PROVE  NoMisparse'
<1>1. CASE ReadTokenPart \/ ReadToken
  BY <1>1 DEF ReadTokenPart, ReadToken, NoMisparse
<1>2. CASE ~(ReadTokenPart \/ ReadToken)
  <2>1. UNCHANGED seen
    BY <1>2 DEF Next, ClientStep, ServerStep, Call, Rejected, CancelRequest, EncodeFails,
       ColumnListFails, FlushPacket, FlushEnds, BeginSend, WritePacket, WriteDone, WriteFails,
       PollRead, ReadFails, StreamEnds, CommandTimeout, Drop, DropStream, BulkWrite,
       BulkRejected, BulkAbandoned, Close, Closed, SrvReceive, SrvAttention, SrvSend, SrvClose, vars
  <2> QED BY <2>1 DEF NoMisparse
<1> QED BY <1>1, <1>2

\* Unless the application both cancels and drops futures inside a token or in
\* flush_stream, no byte from inside a token is taken for the start of one, whatever packets the
\* server cuts its responses into, whatever times out or is abandoned, and
\* whether or not a cancel succeeds.
THEOREM TokensInSync == NoCancel \/ NoSplit => (Spec => []NoMisparse)
<1> SUFFICES ASSUME NoCancel \/ NoSplit PROVE Spec => []NoMisparse
  OBVIOUS
<1>1. Init => NoMisparse
  BY DEF Init, NoToken, NoMisparse
<1>2. CASE NoCancel
  <2>1. Synced /\ [Next]_vars => Synced' /\ ~Misparse
    BY <1>2, SyncedStep, SyncRead DEF NoCancel, CancelRequest
  <2>2. Synced /\ NoMisparse /\ [Next]_vars => NoMisparse'
    BY <2>1, NoneMisread
  <2> QED BY <1>1, <2>1, <2>2, SyncedInit, PTL DEF Spec
<1>3. CASE NoSplit
  <2>1. PlaceInv /\ [Next]_vars => PlaceInv' /\ ~Misparse
    BY <1>3, PlaceStep
  <2>2. PlaceInv /\ NoMisparse /\ [Next]_vars => NoMisparse'
    BY <2>1, NoneMisread
  <2> QED BY <1>1, <2>1, <2>2, PlaceInit, PTL DEF Spec
<1> QED BY <1>2, <1>3

\* A cancel_query that returned Ok has read the acknowledgement and has left
\* nothing behind it (flush_done_attention), if the application drops the client
\* when a cancel fails, and no future inside a token or in flush_stream.
THEOREM CancelIsClean == DiscardOnCancelErr /\ NoSplit => (Spec => []CancelOkIsClean)
<1> SUFFICES ASSUME DiscardOnCancelErr, NoSplit PROVE Spec => []CancelOkIsClean
  OBVIOUS
<1>1. Init => PlaceInv /\ CancelInv
  BY PlaceInit, CancelInit
<1>2. PlaceInv /\ CancelInv /\ [Next]_vars => PlaceInv' /\ CancelInv'
  BY PlaceStep, CancelStep
<1>3. CancelInv => CancelOkIsClean
  BY DEF CancelInv
<1> QED BY <1>1, <1>2, <1>3, PTL DEF Spec

\* Under the same conditions the application may cancel as it likes: no call is
\* handed a token of another call's response (cancel_request reads the response
\* from where the last call left it).
THEOREM CancelsKeepApart == DiscardOnCancelErr /\ NoSplit => (Spec => []ResponseCorrelation)
<1> SUFFICES ASSUME DiscardOnCancelErr, NoSplit PROVE Spec => []ResponseCorrelation
  OBVIOUS
<1>1. Init => PlaceInv /\ CorrelatedBetween
  BY PlaceInit, BetweenInit
<1>2. PlaceInv /\ CorrelatedBetween /\ [Next]_vars => PlaceInv' /\ CorrelatedBetween'
  BY PlaceStep, BetweenStep
<1>3. CorrelatedBetween => ResponseCorrelation
  BY DEF CorrelatedBetween
<1> QED BY <1>1, <1>2, <1>3, PTL DEF Spec

-----------------------------------------------------------------------------
(***************************************************************************)
(* As long as every response is read to its end the descriptor follows the *)
(* session: whatever of a response has not been read would bring it there, *)
(* and what flush_stream discards changes no transaction.                  *)
(***************************************************************************)
\* No call and no stream is given up before the end of its response, and the
\* client is dropped when a cancel fails.
ReadsAll ==
    /\ Faults \intersect {"drop", "split", "unread"} = {}
    /\ "cancel" \in Faults => DiscardOnCancelErr

Changes(x) == \E i \in 1..Len(x) : x[i] \in {"begin", "end"}
HasDone(x) == \E i \in 1..Len(x) : x[i] \in Dones
\* No ENVCHANGE behind a DONE.
DoneLast(x) ==
    \A i, j \in 1..Len(x) : i < j /\ x[i] \in Dones => x[j] \notin {"begin", "end"}

\* The same of a response of which x has been received, the packets ps are
\* under way and y is still with the server.
Orderly(x, ps, y) ==
    /\ DoneLast(x) /\ DoneLast(y) /\ \A i \in 1..Len(ps) : DoneLast(ps[i].units)
    /\ HasDone(x) => ~Changes(y) /\ \A i \in 1..Len(ps) : ~Changes(ps[i].units)
    /\ \A i \in 1..Len(ps) : HasDone(ps[i].units) =>
          ~Changes(y) /\ \A j \in 1..Len(ps) : i < j => ~Changes(ps[j].units)

\* The session's transaction tx is the one that reading x and then the packets
\* ps makes of the descriptor d.
Leads(d, x, req, ps, tx) ==
    \/ \E i \in 1..Len(ps) :
          /\ Changes(ps[i].units) /\ tx = TxAfter(ps[i].units, ps[i].req, 0)
          /\ \A j \in 1..Len(ps) : i < j => ~Changes(ps[j].units)
    \/ tx = TxAfter(x, req, d) /\ \A i \in 1..Len(ps) : ~Changes(ps[i].units)

TxKnown == srvOpen => Leads(txDesc, buf, bufReq, s2c, srvTx)

\* While a response is read the server has the whole message.
AnswerHere == pc \in Reading /\ buf # << >> => c2s = << >>

\* Between two calls nothing is owed that changes a transaction.
Settled ==
    srvOpen /\ Usable /\ pc \in {"idle", "flush", "send"} =>
        /\ ~Changes(buf) /\ ~Changes(srvOut)
        /\ \A i \in 1..Len(s2c) : ~Changes(s2c[i].units)
        /\ \A i \in 1..Len(c2s) : ~c2s[i].eom

\* flush_stream runs on a usable connection.
FlushUsable == pc = "flush" => Usable

\* The answer to a transaction manager request.
TmAnswer ==
    op \in {"tmbegin", "tmend"} /\ pc \in {"write", "read", "stream"} =>
        /\ \A i \in 1..Len(c2s) : c2s[i].op = op
        /\ Orderly(buf, s2c, srvOut)

\* The inductive invariant.
TxInv == Synced /\ TxKnown /\ AnswerHere /\ Settled /\ FlushUsable /\ TmAnswer

\* A response without an ENVCHANGE leaves the transaction, one with an
\* ENVCHANGE sets it whatever it was.
LEMMA TxStill ==
    ASSUME NEW x, NEW req, NEW tx, ~Changes(x)
    PROVE  TxAfter(x, req, tx) = tx
  BY DEF TxAfter, Changes

LEMMA TxSet ==
    ASSUME NEW x, NEW req, NEW tx, NEW d, Changes(x)
    PROVE  TxAfter(x, req, tx) = TxAfter(x, req, d)
  BY DEF TxAfter, Changes

\* What the first token of a response does to the transaction.
FirstTx(u, req, tx) == CASE u = "begin" -> req [] u = "end" -> 0 [] OTHER -> tx

\* Reading a response token by token comes to the same as its last ENVCHANGE.
LEMMA TxHead ==
    ASSUME NEW x \in Seq(Units), x # << >>, NEW req, NEW tx
    PROVE  TxAfter(x, req, tx) = TxAfter(Tail(x), req, FirstTx(x[1], req, tx))
<1> DEFINE E == {"begin", "end"}
           y == Tail(x)
           C == {i \in 1..Len(x) : x[i] \in E}
           D == {i \in 1..Len(y) : y[i] \in E}
           d == FirstTx(x[1], req, tx)
<1>1. /\ Len(x) \in Nat \ {0} /\ Len(y) = Len(x) - 1
      /\ \A i \in 1..Len(y) : y[i] = x[i + 1]
  BY TailFacts
<1>2. \A i \in 1..Len(y) : i + 1 \in 1..Len(x)
  BY <1>1
<1>3. \A i \in 1..Len(x) : i = 1 \/ (i - 1 \in 1..Len(y) /\ (i - 1) + 1 = i)
  BY <1>1
<1>4. \A i \in D : i \in Nat /\ i > 0 /\ i + 1 \in C /\ y[i] = x[i + 1]
  BY <1>1, <1>2
<1>5. \A i \in C : i \in Nat /\ i > 0 /\ (i = 1 \/ (i - 1 \in D /\ (i - 1) + 1 = i /\ y[i - 1] = x[i]))
  <2> SUFFICES ASSUME NEW i \in C
               PROVE  i \in Nat /\ i > 0 /\ (i = 1 \/ (i - 1 \in D /\ (i - 1) + 1 = i /\ y[i - 1] = x[i]))
    OBVIOUS
  <2>1. i \in Nat /\ i > 0 /\ i \in 1..Len(x) /\ x[i] \in E
    BY <1>1
  <2>2. CASE i # 1
    <3>1. i - 1 \in 1..Len(y) /\ (i - 1) + 1 = i
      BY <1>3, <2>1, <2>2
    <3>2. y[i - 1] = x[i]
      BY <1>1, <3>1
    <3> QED BY <2>1, <3>1, <3>2
  <2> QED BY <2>1, <2>2
<1>6. 1 \in C <=> x[1] \in E
  BY <1>1
<1>7. /\ TxAfter(x, req, tx) = IF C = {} THEN tx
                               ELSE IF \E i \in C : x[i] = "begin" /\ \A j \in C : j <= i THEN req
                               ELSE 0
      /\ TxAfter(y, req, d) = IF D = {} THEN d
                              ELSE IF \E i \in D : y[i] = "begin" /\ \A j \in D : j <= i THEN req
                              ELSE 0
  BY DEF TxAfter
<1> HIDE DEF C, D, d, y
<1>8. CASE D = {}
  <2>1. \A i \in C : i = 1
    BY <1>5, <1>8
  <2>2. CASE x[1] \in E
    <3>1. 1 \in C /\ C # {}
      BY <1>6, <2>2
    <3>2. (\E i \in C : x[i] = "begin" /\ \A j \in C : j <= i) <=> x[1] = "begin"
      BY <2>1, <3>1
    <3>3. TxAfter(x, req, tx) = IF x[1] = "begin" THEN req ELSE 0
      BY <1>7, <3>1, <3>2
    <3>4. d = IF x[1] = "begin" THEN req ELSE 0
      BY <2>2 DEF d, FirstTx
    <3> QED BY <1>7, <1>8, <3>3, <3>4 DEF y, d
  <2>3. CASE x[1] \notin E
    <3>1. C = {}
      BY <1>6, <2>1, <2>3
    <3>2. d = tx
      BY <2>3 DEF d, FirstTx
    <3> QED BY <1>7, <1>8, <3>1, <3>2 DEF y, d
  <2> QED BY <2>2, <2>3
<1>9. CASE D # {}
  <2>1. C # {}
    BY <1>4, <1>9
  <2>2. ASSUME NEW i \in D, y[i] = "begin", \A j \in D : j <= i
        PROVE  \E k \in C : x[k] = "begin" /\ \A j \in C : j <= k
    <3>1. i + 1 \in C /\ x[i + 1] = "begin" /\ i \in Nat /\ i > 0
      BY <1>4, <2>2
    <3>2. ASSUME NEW j \in C PROVE j <= i + 1
      <4>1. CASE j = 1
        BY <3>1, <4>1
      <4>2. CASE j # 1
        <5>1. j \in Nat /\ j - 1 <= i
          BY <1>5, <2>2, <4>2
        <5> QED BY <3>1, <5>1
      <4> QED BY <4>1, <4>2
    <3> QED BY <3>1, <3>2
  <2>3. ASSUME NEW i \in C, x[i] = "begin", \A j \in C : j <= i
        PROVE  \E k \in D : y[k] = "begin" /\ \A j \in D : j <= k
    <3>1. PICK k \in D : TRUE
      BY <1>9
    <3>2. k + 1 <= i /\ k \in Nat /\ k > 0 /\ i \in Nat
      BY <1>4, <1>5, <2>3, <3>1
    <3>3. i # 1
      BY <3>2
    <3>4. i - 1 \in D /\ y[i - 1] = "begin"
      BY <1>5, <2>3, <3>3
    <3>5. ASSUME NEW j \in D PROVE j <= i - 1
      <4>1. j + 1 <= i /\ j \in Nat
        BY <1>4, <2>3
      <4> QED BY <3>2, <4>1
    <3> QED BY <3>4, <3>5
  <2>4. (\E k \in C : x[k] = "begin" /\ \A j \in C : j <= k) <=>
        (\E k \in D : y[k] = "begin" /\ \A j \in D : j <= k)
    BY <2>2, <2>3
  <2> DEFINE P == \E k \in C : x[k] = "begin" /\ \A j \in C : j <= k
             Q == \E k \in D : y[k] = "begin" /\ \A j \in D : j <= k
  <2>5. (P <=> Q) /\ TxAfter(x, req, tx) = (IF P THEN req ELSE 0)
        /\ TxAfter(y, req, d) = (IF Q THEN req ELSE 0)
    BY <1>7, <1>9, <2>1, <2>4, Zenon
  <2> HIDE DEF P, Q
  <2>6. TxAfter(x, req, tx) = TxAfter(y, req, d)
    BY <2>5
  <2> QED BY <2>6 DEF y, d
<1> QED BY <1>8, <1>9

\* The first packet is taken into the buffer.
LEMMA LeadsTake ==
    ASSUME NEW ps \in Seq(ServerPacket), ps # << >>, NEW d, NEW req, NEW tx,
           Leads(d, << >>, req, ps, tx)
    PROVE  Leads(d, Head(ps).units, Head(ps).req, Tail(ps), tx)
<1> DEFINE qs == Tail(ps)
<1>1. /\ Head(ps) = ps[1] /\ Len(ps) \in Nat \ {0} /\ Len(qs) = Len(ps) - 1
      /\ \A i \in 1..Len(qs) : qs[i] = ps[i + 1]
  BY TailFacts
<1>2. 1 \in 1..Len(ps) /\ \A i \in 1..Len(qs) : i + 1 \in 1..Len(ps) /\ 1 < i + 1
  BY <1>1
<1> HIDE DEF qs
<1>3. CASE \E i \in 1..Len(ps) :
              /\ Changes(ps[i].units) /\ tx = TxAfter(ps[i].units, ps[i].req, 0)
              /\ \A j \in 1..Len(ps) : i < j => ~Changes(ps[j].units)
  <2>1. PICK i \in 1..Len(ps) :
              /\ Changes(ps[i].units) /\ tx = TxAfter(ps[i].units, ps[i].req, 0)
              /\ \A j \in 1..Len(ps) : i < j => ~Changes(ps[j].units)
    BY <1>3
  <2>2. CASE i = 1
    <3>1. \A j \in 1..Len(qs) : ~Changes(qs[j].units)
      BY <1>1, <1>2, <2>1, <2>2
    <3>2. tx = TxAfter(ps[1].units, ps[1].req, d)
      BY <2>1, <2>2, TxSet
    <3> QED BY <1>1, <3>1, <3>2 DEF Leads, qs
  <2>3. CASE i # 1
    <3>1. i - 1 \in 1..Len(qs) /\ (i - 1) + 1 = i
      BY <1>1, <2>3
    <3>2. qs[i - 1] = ps[i]
      BY <1>1, <3>1
    <3>3. \A j \in 1..Len(qs) : i - 1 < j => ~Changes(qs[j].units)
      <4> SUFFICES ASSUME NEW j \in 1..Len(qs), i - 1 < j PROVE ~Changes(qs[j].units)
        OBVIOUS
      <4>1. j + 1 \in 1..Len(ps) /\ i < j + 1 /\ qs[j] = ps[j + 1]
        BY <1>1, <1>2
      <4> QED BY <2>1, <4>1
    <3> QED BY <2>1, <3>1, <3>2, <3>3 DEF Leads, qs
  <2> QED BY <2>2, <2>3
<1>4. CASE tx = TxAfter(<< >>, req, d) /\ \A i \in 1..Len(ps) : ~Changes(ps[i].units)
  <2>1. ~Changes(<< >>)
    BY DEF Changes
  <2>2. tx = d
    BY <1>4, <2>1, TxStill
  <2>3. tx = TxAfter(ps[1].units, ps[1].req, d)
    BY <1>2, <1>4, <2>2, TxStill
  <2>4. \A i \in 1..Len(qs) : ~Changes(qs[i].units)
    BY <1>1, <1>2, <1>4
  <2> QED BY <1>1, <2>3, <2>4 DEF Leads, qs
<1> QED BY <1>3, <1>4 DEF Leads

LEMMA OrderlyTake ==
    ASSUME NEW ps \in Seq(ServerPacket), ps # << >>, NEW y, Orderly(<< >>, ps, y)
    PROVE  Orderly(Head(ps).units, Tail(ps), y)
<1> DEFINE qs == Tail(ps)
<1>1. /\ Head(ps) = ps[1] /\ Len(ps) \in Nat \ {0} /\ Len(qs) = Len(ps) - 1
      /\ \A i \in 1..Len(qs) : qs[i] = ps[i + 1]
  BY TailFacts
<1>2. /\ 1 \in 1..Len(ps) /\ \A i \in 1..Len(qs) : i + 1 \in 1..Len(ps) /\ 1 < i + 1
      /\ \A i, j \in 1..Len(qs) : i < j => i + 1 < j + 1
  BY <1>1
<1> HIDE DEF qs
<1>3. DoneLast(ps[1].units) /\ DoneLast(y) /\ \A i \in 1..Len(qs) : DoneLast(qs[i].units)
  BY <1>1, <1>2 DEF Orderly
<1>4. HasDone(ps[1].units) => ~Changes(y) /\ \A i \in 1..Len(qs) : ~Changes(qs[i].units)
  BY <1>1, <1>2 DEF Orderly
<1>5. ASSUME NEW i \in 1..Len(qs), HasDone(qs[i].units)
      PROVE  ~Changes(y) /\ \A j \in 1..Len(qs) : i < j => ~Changes(qs[j].units)
  <2>1. i + 1 \in 1..Len(ps) /\ HasDone(ps[i + 1].units)
    BY <1>1, <1>2, <1>5
  <2>2. ~Changes(y) /\ \A j \in 1..Len(ps) : i + 1 < j => ~Changes(ps[j].units)
    BY <2>1 DEF Orderly
  <2> QED BY <1>1, <1>2, <2>2
<1>6. Orderly(ps[1].units, qs, y)
  BY <1>3, <1>4, <1>5 DEF Orderly
<1> QED BY <1>1, <1>6 DEF qs

\* The server sends a packet.
LEMMA LeadsSend ==
    ASSUME NEW ps \in Seq(ServerPacket), NEW p \in ServerPacket, NEW d, NEW x, NEW req, NEW tx,
           Leads(d, x, req, ps, tx)
    PROVE  Leads(d, x, req, Append(ps, p), TxAfter(p.units, p.req, tx))
<1> DEFINE qs == Append(ps, p)
           k == Len(ps)
<1>1. k \in Nat /\ Len(qs) = k + 1 /\ qs[k + 1] = p /\ \A i \in 1..k : qs[i] = ps[i]
  OBVIOUS
<1>2. \A i \in 1..Len(qs) : i \in 1..k \/ i = k + 1
  BY <1>1
<1>3. k + 1 \in 1..Len(qs) /\ \A i \in 1..k : i \in 1..Len(qs) /\ i < k + 1
  BY <1>1
<1>4. \A j \in 1..Len(qs) : ~(k + 1 < j)
  BY <1>1
<1> HIDE DEF qs, k
<1>5. CASE Changes(p.units)
  <2>1. TxAfter(p.units, p.req, tx) = TxAfter(p.units, p.req, 0)
    BY <1>5, TxSet
  <2> QED BY <1>1, <1>3, <1>4, <1>5, <2>1 DEF Leads, qs
<1>6. CASE ~Changes(p.units)
  <2>1. TxAfter(p.units, p.req, tx) = tx
    BY <1>6, TxStill
  <2>2. CASE \E i \in 1..k :
              /\ Changes(ps[i].units) /\ tx = TxAfter(ps[i].units, ps[i].req, 0)
              /\ \A j \in 1..k : i < j => ~Changes(ps[j].units)
    <3>1. PICK i \in 1..k :
              /\ Changes(ps[i].units) /\ tx = TxAfter(ps[i].units, ps[i].req, 0)
              /\ \A j \in 1..k : i < j => ~Changes(ps[j].units)
      BY <2>2
    <3>2. i \in 1..Len(qs) /\ qs[i] = ps[i]
      BY <1>1, <1>3
    <3>3. \A j \in 1..Len(qs) : i < j => ~Changes(qs[j].units)
      BY <1>1, <1>2, <1>6, <3>1
    <3> QED BY <2>1, <3>1, <3>2, <3>3 DEF Leads, qs
  <2>3. CASE tx = TxAfter(x, req, d) /\ \A i \in 1..k : ~Changes(ps[i].units)
    <3>1. \A i \in 1..Len(qs) : ~Changes(qs[i].units)
      BY <1>1, <1>2, <1>6, <2>3
    <3> QED BY <2>1, <2>3, <3>1 DEF Leads, qs
  <2> QED BY <2>2, <2>3 DEF Leads, k
<1> QED BY <1>5, <1>6

\* The two parts of a response that is cut.
LEMMA CutFacts ==
    ASSUME NEW y \in Seq(Units), NEW n \in 0..Len(y)
    PROVE  LET a == SubSeq(y, 1, n)
               b == SubSeq(y, n + 1, Len(y))
           IN /\ Changes(a) \/ Changes(b) => Changes(y)
              /\ HasDone(a) \/ HasDone(b) => HasDone(y)
              /\ DoneLast(y) => DoneLast(a) /\ DoneLast(b) /\ (HasDone(a) => ~Changes(b))
<1> DEFINE a == SubSeq(y, 1, n)
           b == SubSeq(y, n + 1, Len(y))
<1>1. Len(y) \in Nat /\ n \in Nat /\ n <= Len(y)
  OBVIOUS
<1>2. Len(a) = n /\ \A i \in 1..n : a[i] = y[i]
  BY <1>1
<1>3. Len(b) = Len(y) - n /\ \A i \in 1..(Len(y) - n) : b[i] = y[i + n]
  BY <1>1
<1>4. /\ \A i \in 1..n : i \in 1..Len(y)
      /\ \A i \in 1..(Len(y) - n) : i + n \in 1..Len(y)
      /\ \A i \in 1..n : \A j \in 1..(Len(y) - n) : i < j + n
      /\ \A i, j \in 1..(Len(y) - n) : i < j => i + n < j + n
  BY <1>1
<1> HIDE DEF a, b
<1>5. Changes(a) \/ Changes(b) => Changes(y)
  BY <1>2, <1>3, <1>4 DEF Changes
<1>6. HasDone(a) \/ HasDone(b) => HasDone(y)
  BY <1>2, <1>3, <1>4 DEF HasDone
<1>7. ASSUME DoneLast(y) PROVE DoneLast(a) /\ DoneLast(b) /\ (HasDone(a) => ~Changes(b))
  <2>1. DoneLast(a)
    BY <1>2, <1>4, <1>7 DEF DoneLast
  <2>2. DoneLast(b)
    <3> SUFFICES ASSUME NEW i \in 1..(Len(y) - n), NEW j \in 1..(Len(y) - n), i < j, b[i] \in Dones
                 PROVE  b[j] \notin {"begin", "end"}
      BY <1>3 DEF DoneLast
    <3>1. i + n \in 1..Len(y) /\ j + n \in 1..Len(y) /\ i + n < j + n
      BY <1>4
    <3> QED BY <1>3, <1>7, <3>1 DEF DoneLast
  <2>3. ASSUME HasDone(a) PROVE ~Changes(b)
    <3>1. PICK i \in 1..n : y[i] \in Dones
      BY <1>2, <2>3 DEF HasDone
    <3>2. ASSUME NEW j \in 1..(Len(y) - n) PROVE b[j] \notin {"begin", "end"}
      <4>1. i \in 1..Len(y) /\ j + n \in 1..Len(y) /\ i < j + n
        BY <1>4
      <4> QED BY <1>3, <1>7, <3>1, <4>1 DEF DoneLast
    <3> QED BY <1>3, <3>2 DEF Changes
  <2> QED BY <2>1, <2>2, <2>3
<1> QED BY <1>5, <1>6, <1>7 DEF a, b

LEMMA OrderlySend ==
    ASSUME NEW ps \in Seq(ServerPacket), NEW p \in ServerPacket, NEW x,
           NEW y \in Seq(Units), NEW n \in 0..Len(y), p.units = SubSeq(y, 1, n),
           Orderly(x, ps, y)
    PROVE  Orderly(x, Append(ps, p), SubSeq(y, n + 1, Len(y)))
<1> DEFINE qs == Append(ps, p)
           k == Len(ps)
           b == SubSeq(y, n + 1, Len(y))
<1>1. k \in Nat /\ Len(qs) = k + 1 /\ qs[k + 1] = p /\ \A i \in 1..k : qs[i] = ps[i]
  OBVIOUS
<1>2. \A i \in 1..Len(qs) : i \in 1..k \/ i = k + 1
  BY <1>1
<1>3. \A j \in 1..Len(qs) : ~(k + 1 < j)
  BY <1>1
<1>4. /\ Changes(p.units) \/ Changes(b) => Changes(y)
      /\ DoneLast(y) => DoneLast(p.units) /\ DoneLast(b) /\ (HasDone(p.units) => ~Changes(b))
  BY CutFacts
<1> HIDE DEF qs, k, b
<1>5. DoneLast(p.units) /\ DoneLast(b) /\ (HasDone(p.units) => ~Changes(b))
  BY <1>4 DEF Orderly
<1>6. \A i \in 1..Len(qs) : DoneLast(qs[i].units)
  BY <1>1, <1>2, <1>5 DEF Orderly, k
<1>7. HasDone(x) => ~Changes(b) /\ \A i \in 1..Len(qs) : ~Changes(qs[i].units)
  BY <1>1, <1>2, <1>4 DEF Orderly, k
<1>8. ASSUME NEW i \in 1..Len(qs), HasDone(qs[i].units)
      PROVE  ~Changes(b) /\ \A j \in 1..Len(qs) : i < j => ~Changes(qs[j].units)
  <2>1. CASE i \in 1..k
    <3>1. ~Changes(y) /\ \A j \in 1..k : i < j => ~Changes(ps[j].units)
      BY <1>1, <1>8, <2>1 DEF Orderly, k
    <3> QED BY <1>1, <1>2, <1>4, <3>1
  <2>2. CASE i = k + 1
    BY <1>1, <1>3, <1>5, <1>8, <2>2
  <2> QED BY <1>2, <2>1, <2>2
<1>9. Orderly(x, qs, b)
  BY <1>5, <1>6, <1>7, <1>8 DEF Orderly
<1> QED BY <1>9 DEF qs, b

\* The first token of the buffer is read.
LEMMA OrderlyRead ==
    ASSUME NEW x \in Seq(Units), x # << >>, NEW ps, NEW y, Orderly(x, ps, y)
    PROVE  /\ Orderly(Tail(x), ps, y)
           /\ x[1] \in Dones => /\ ~Changes(Tail(x)) /\ ~Changes(y)
                                /\ \A i \in 1..Len(ps) : ~Changes(ps[i].units)
<1> DEFINE t == Tail(x)
<1>1. /\ Len(x) \in Nat \ {0} /\ Len(t) = Len(x) - 1
      /\ \A i \in 1..Len(t) : t[i] = x[i + 1]
  BY TailFacts
<1>2. /\ 1 \in 1..Len(x) /\ \A i \in 1..Len(t) : i + 1 \in 1..Len(x) /\ 1 < i + 1
      /\ \A i, j \in 1..Len(t) : i < j => i + 1 < j + 1
  BY <1>1
<1> HIDE DEF t
<1>3. DoneLast(x)
  BY DEF Orderly
<1>4. DoneLast(t)
  <2> SUFFICES ASSUME NEW i \in 1..Len(t), NEW j \in 1..Len(t), i < j, t[i] \in Dones
               PROVE  t[j] \notin {"begin", "end"}
    BY DEF DoneLast
  <2> QED BY <1>1, <1>2, <1>3 DEF DoneLast
<1>5. HasDone(t) => HasDone(x)
  BY <1>1, <1>2 DEF HasDone
<1>6. Orderly(t, ps, y)
  BY <1>4, <1>5 DEF Orderly
<1>7. ASSUME x[1] \in Dones
      PROVE  /\ ~Changes(t) /\ ~Changes(y) /\ \A i \in 1..Len(ps) : ~Changes(ps[i].units)
  <2>1. HasDone(x)
    BY <1>2, <1>7 DEF HasDone
  <2>2. ~Changes(t)
    BY <1>1, <1>2, <1>3, <1>7 DEF DoneLast, Changes
  <2> QED BY <2>1, <2>2 DEF Orderly
<1> QED BY <1>6, <1>7 DEF t

LEMMA LeadsRead ==
    ASSUME NEW x \in Seq(Units), x # << >>, NEW ps, NEW d, NEW req, NEW tx,
           Leads(d, x, req, ps, tx)
    PROVE  Leads(FirstTx(x[1], req, d), Tail(x), req, ps, tx)
<1>1. TxAfter(x, req, d) = TxAfter(Tail(x), req, FirstTx(x[1], req, d))
  BY TxHead
<1> QED BY <1>1 DEF Leads

\* What the steps below keep.
TxParts == TxKnown /\ AnswerHere /\ Settled /\ FlushUsable /\ TmAnswer

\* A step off the wire that keeps the buffer, or drops one that changes no
\* transaction.
LEMMA TxOffWire ==
    ASSUME TxInv, UNCHANGED <<c2s, s2c, srvOpen, srvOut, srvTx, txDesc, bufReq>>,
           UNCHANGED buf \/ (buf' = << >> /\ (srvOpen => ~Changes(buf))),
           \/ UNCHANGED <<pc, op, buf>> /\ (Usable' => Usable)
           \/ pc' \in {"idle", "flush", "send", "bulk", "closed"},
           Settled', FlushUsable'
    PROVE  TxParts'
<1>1. TxKnown'
  <2> SUFFICES ASSUME srvOpen PROVE Leads(txDesc, buf', bufReq, s2c, srvTx)
    BY DEF TxKnown
  <2>1. Leads(txDesc, buf, bufReq, s2c, srvTx)
    BY DEF TxInv, TxKnown
  <2>2. CASE UNCHANGED buf
    BY <2>1, <2>2
  <2>3. CASE buf' = << >> /\ ~Changes(buf)
    <3>1. ~Changes(<< >>)
      BY DEF Changes
    <3>2. TxAfter(buf, bufReq, txDesc) = TxAfter(<< >>, bufReq, txDesc)
      BY <2>3, <3>1, TxStill
    <3> QED BY <2>1, <2>3, <3>2 DEF Leads
  <2> QED BY <2>2, <2>3
<1>2. AnswerHere' /\ TmAnswer'
  BY DEF TxInv, AnswerHere, TmAnswer, Reading
<1> QED BY <1>1, <1>2 DEF TxParts

\* Calls, ends of calls and what the application does between them.
LEMMA TxCalls ==
    ASSUME ReadsAll, TxInv,
           \/ (\E o \in Calls : Call(o)) \/ StreamEnds
           \/ Rejected \/ EncodeFails \/ ColumnListFails \/ FlushEnds \/ WriteFails
           \/ ReadFails \/ CommandTimeout \/ Drop \/ DropStream
           \/ BulkRejected \/ BulkAbandoned \/ Close \/ Closed \/ UNCHANGED vars
    PROVE  TxParts'
<1>1. ~Drop /\ ~DropStream
  BY DEF ReadsAll, Drop, DropStream
<1>2. UNCHANGED <<c2s, s2c, srvOpen, srvOut, srvTx, txDesc, bufReq>>
  BY <1>1 DEF Call, StreamEnds, Rejected, EncodeFails, ColumnListFails, FlushEnds, WriteFails,
     ReadFails, CommandTimeout, BulkRejected, BulkAbandoned, Close, Closed, vars, wireVars,
     srvVars, connVars
<1>3. Correlated /\ Settled /\ FlushUsable
  BY DEF TxInv, Synced
<1>4. CASE \E o \in Calls : Call(o)
  <2>1. /\ pc = "idle" /\ Usable /\ buf' = << >> /\ pc' \in {"flush", "send"}
        /\ UNCHANGED <<poisoned, desync>>
    BY <1>4 DEF Call, FlushStream
  <2>2. srvOpen => ~Changes(buf)
    BY <1>3, <2>1 DEF Settled
  <2>3. FlushUsable'
    BY <2>1 DEF FlushUsable, Usable
  <2>4. ~Changes(<< >>)
    BY DEF Changes
  <2>5. Settled'
    BY <1>2, <1>3, <2>1, <2>4 DEF Settled
  <2> QED BY <1>2, <2>1, <2>2, <2>3, <2>5, TxOffWire
<1>5. CASE StreamEnds
  <2>1. buf = << >> /\ flushed /\ buf' = << >>
    BY <1>5 DEF StreamEnds, IsEof, FlushStream
  <2>2. pc' \in {"idle", "closed"} \/ (Usable /\ pc' \in {"flush", "send"})
    BY <1>5 DEF StreamEnds, FlushStream, AfterError
  <2>3. UNCHANGED <<poisoned, desync>>
    BY <1>5 DEF StreamEnds
  <2>4. FlushUsable'
    BY <2>2, <2>3 DEF FlushUsable, Usable
  <2>5. Quiet'
    BY <1>2, <1>3, <2>1 DEF Correlated, OneInFlight, DrainedIsQuiet, Quiet
  <2>6. Settled'
    BY <2>1, <2>5 DEF Quiet, Settled, Changes
  <2> QED BY <1>2, <2>1, <2>2, <2>4, <2>6, TxOffWire
<1>6. CASE EncodeFails \/ ColumnListFails \/ BulkAbandoned
  <2>1. UNCHANGED buf /\ pc' = "idle" /\ pc \in {"send", "bulk"} /\ UNCHANGED <<poisoned, desync>>
    BY <1>6 DEF EncodeFails, ColumnListFails, BulkAbandoned, connVars
  <2>2. /\ buf = << >> /\ s2c = << >> /\ srvOut = << >>
        /\ \A i \in 1..Len(c2s) : ~c2s[i].eom
    BY <1>3, <2>1 DEF Correlated, OwnBuffer, OneInFlight, DrainedIsQuiet, Quiet,
       NothingBeforeEnd, Building
  <2>3. Settled'
    BY <1>2, <2>1, <2>2 DEF Settled, Changes
  <2>4. FlushUsable'
    BY <2>1 DEF FlushUsable
  <2> QED BY <1>2, <2>1, <2>3, <2>4, TxOffWire
<1>7. CASE FlushEnds \/ WriteFails \/ ReadFails
  <2>1. UNCHANGED buf /\ pc' \in {"idle", "send", "bulk", "closed"} /\ ~srvOpen
    BY <1>7 DEF FlushEnds, WriteFails, ReadFails, AfterError, connVars
  <2>2. Settled' /\ FlushUsable'
    BY <1>2, <2>1 DEF Settled, FlushUsable
  <2> QED BY <1>2, <2>1, <2>2, TxOffWire
<1>8. CASE CommandTimeout
  <2>1. /\ UNCHANGED <<buf, op>> /\ desync' /\ pc' \in {pc, "idle", "closed"}
        /\ pc' = "stream" \/ pc' \in {"idle", "closed"}
    BY <1>8 DEF CommandTimeout, AfterError
  <2>2. ~Usable' /\ pc' # "flush"
    BY <2>1 DEF Usable
  <2>3. Settled' /\ FlushUsable'
    BY <2>2 DEF Settled, FlushUsable
  <2> QED BY <1>2, <2>1, <2>2, <2>3, TxOffWire
<1>9. CASE BulkRejected \/ Close
  <2>1. /\ UNCHANGED <<buf, poisoned, desync>>
        /\ pc' = "closed" \/ (pc' = "idle" /\ ~Usable)
    BY <1>9 DEF BulkRejected, Close, connVars
  <2>2. Settled' /\ FlushUsable'
    BY <2>1 DEF Settled, FlushUsable, Usable
  <2> QED BY <1>2, <2>1, <2>2, TxOffWire
<1>10. CASE Rejected \/ Closed \/ UNCHANGED vars
  <2>1. UNCHANGED <<buf, pc, op, poisoned, desync>>
    BY <1>10 DEF Rejected, Closed, vars, connVars, callVars
  <2>2. Settled' /\ FlushUsable' /\ (Usable' => Usable)
    BY <1>2, <1>3, <2>1 DEF Settled, FlushUsable, Usable
  <2> QED BY <1>2, <2>1, <2>2, TxOffWire
<1> QED
  BY <1>1, <1>4, <1>5, <1>6, <1>7, <1>8, <1>9, <1>10

\* Writing a message.
LEMMA TxWrites ==
    ASSUME TxInv, BeginSend \/ WritePacket \/ WriteDone \/ \E o \in {"bulkrow", "bulkload"} : BulkWrite(o)
    PROVE  TxParts'
<1>1. /\ UNCHANGED <<s2c, srvOpen, srvOut, srvTx, txDesc, bufReq, buf>> /\ buf = << >>
      /\ pc' \in {"write", "read", "stream", "bulk"}
  BY DEF BeginSend, WritePacket, WriteDone, BulkWrite, AfterWrite, TxInv, Synced, Correlated,
     OwnBuffer, wireVars, srvVars
<1>2. TxKnown'
  BY <1>1 DEF TxInv, TxKnown
<1>3. AnswerHere' /\ Settled' /\ FlushUsable'
  BY <1>1 DEF AnswerHere, Settled, FlushUsable
<1>4. TmAnswer'
  <2> SUFFICES ASSUME op' \in {"tmbegin", "tmend"}
               PROVE  (\A i \in 1..Len(c2s') : c2s'[i].op = op') /\ Orderly(buf, s2c, srvOut)
    BY <1>1 DEF TmAnswer
  <2>1. CASE BeginSend
    <3>1. c2s' = << >> /\ s2c = << >> /\ srvOut = << >>
      BY <2>1 DEF BeginSend, TxInv, Synced, Correlated, OneInFlight, DrainedIsQuiet, Quiet, wireVars
    <3> QED BY <1>1, <3>1 DEF Orderly, DoneLast, HasDone, Changes
  <2>2. CASE WritePacket
    <3>1. op' = op /\ pc = "write" /\ c2s \in Seq(ClientPacket)
      BY <2>2 DEF WritePacket, TxInv, Synced, Correlated, TypeOK, WireTypes
    <3>2. (\A i \in 1..Len(c2s) : c2s[i].op = op) /\ Orderly(buf, s2c, srvOut)
      BY <3>1 DEF TxInv, TmAnswer
    <3>3. CASE c2s' = c2s
      BY <3>1, <3>2, <3>3
    <3>4. CASE c2s' # c2s
      <4>1. PICK p \in ClientPacket : p.op = op /\ c2s' = Append(c2s, p)
        <5>1. c2s' = Append(c2s, [req |-> nreq, op |-> op, eom |-> out = 1 /\ op # "bulkrow"])
          BY <2>2, <3>4 DEF WritePacket, Put
        <5>2. [req |-> nreq, op |-> op, eom |-> out = 1 /\ op # "bulkrow"] \in ClientPacket
          BY DEF ClientPacket, TxInv, Synced, Correlated, TypeOK, CallTypes
        <5> QED BY <5>1, <5>2
      <4>2. /\ Len(c2s') = Len(c2s) + 1 /\ Len(c2s) \in Nat /\ c2s'[Len(c2s) + 1] = p
            /\ \A i \in 1..Len(c2s) : c2s'[i] = c2s[i]
        BY <3>1, <4>1, AppendFacts
      <4>3. \A i \in 1..Len(c2s') : i \in 1..Len(c2s) \/ i = Len(c2s) + 1
        BY <4>2
      <4> QED BY <3>1, <3>2, <4>1, <4>2, <4>3
    <3> QED BY <3>3, <3>4
  <2>3. CASE WriteDone
    BY <2>3 DEF WriteDone, TxInv, TmAnswer, wireVars
  <2>4. CASE \E o \in {"bulkrow", "bulkload"} : BulkWrite(o)
    BY <2>4 DEF BulkWrite
  <2> QED BY <2>1, <2>2, <2>3, <2>4
<1> QED BY <1>2, <1>3, <1>4 DEF TxParts

\* What flush_stream discards changes no transaction.
LEMMA TxFlush ==
    ASSUME TxInv, FlushPacket
    PROVE  TxParts'
<1>1. /\ pc = "flush" /\ s2c # << >> /\ s2c' = Tail(s2c) /\ pc' \in {"flush", "send"}
      /\ UNCHANGED <<c2s, srvOpen, srvOut, srvTx, txDesc, bufReq, buf, poisoned, desync>>
  BY DEF FlushPacket, srvVars
<1>2. s2c \in Seq(ServerPacket) /\ Usable
  BY <1>1 DEF TxInv, Synced, Correlated, TypeOK, WireTypes, FlushUsable
<1>3. /\ Len(s2c) \in Nat \ {0} /\ Len(s2c') = Len(s2c) - 1
      /\ \A i \in 1..Len(s2c') : s2c'[i] = s2c[i + 1]
  BY <1>1, <1>2, TailFacts
<1>4. \A i \in 1..Len(s2c') : i + 1 \in 1..Len(s2c)
  BY <1>3
<1>5. ASSUME srvOpen
      PROVE  /\ ~Changes(buf) /\ ~Changes(srvOut) /\ \A i \in 1..Len(c2s) : ~c2s[i].eom
             /\ \A i \in 1..Len(s2c) : ~Changes(s2c[i].units)
  BY <1>1, <1>2, <1>5 DEF TxInv, Settled
<1>6. srvOpen => \A i \in 1..Len(s2c') : ~Changes(s2c'[i].units)
  BY <1>3, <1>4, <1>5
<1>7. TxKnown'
  <2> SUFFICES ASSUME srvOpen PROVE Leads(txDesc, buf, bufReq, s2c', srvTx)
    BY <1>1 DEF TxKnown
  <2>1. Leads(txDesc, buf, bufReq, s2c, srvTx)
    BY DEF TxInv, TxKnown
  <2>2. srvTx = TxAfter(buf, bufReq, txDesc)
    BY <1>5, <2>1 DEF Leads
  <2> QED BY <1>6, <2>2 DEF Leads
<1>8. Settled' /\ FlushUsable'
  BY <1>1, <1>2, <1>5, <1>6 DEF Settled, FlushUsable, Usable
<1>9. AnswerHere' /\ TmAnswer'
  BY <1>1 DEF AnswerHere, TmAnswer, Reading
<1> QED BY <1>7, <1>8, <1>9 DEF TxParts

\* The next packet is read into the buffer.
LEMMA TxPollRead ==
    ASSUME TxInv, PollRead
    PROVE  TxParts'
<1>1. /\ pc \in {"read", "stream"} /\ buf = << >> /\ s2c # << >> /\ s2c' = Tail(s2c)
      /\ buf' = Head(s2c).units /\ bufReq' = Head(s2c).req
      /\ UNCHANGED <<pc, op, c2s, srvOpen, srvOut, srvTx, txDesc>>
  BY DEF PollRead, Waiting, Reading, srvVars, callVars
<1>2. s2c \in Seq(ServerPacket) /\ c2s = << >>
  BY <1>1 DEF TxInv, Synced, Correlated, TypeOK, WireTypes, OneInFlight, OnePlace
<1>3. TxKnown'
  BY <1>1, <1>2, LeadsTake DEF TxInv, TxKnown
<1>4. TmAnswer'
  BY <1>1, <1>2, OrderlyTake DEF TxInv, TmAnswer
<1>5. AnswerHere' /\ Settled' /\ FlushUsable'
  BY <1>1, <1>2 DEF AnswerHere, Settled, FlushUsable
<1> QED BY <1>3, <1>4, <1>5 DEF TxParts

\* A token is read.
LEMMA TxRead ==
    ASSUME TxInv, ReadTokenPart \/ ReadToken
    PROVE  TxParts'
<1>1. /\ pc \in {"read", "stream"} /\ buf # << >> /\ buf \in Seq(Units) /\ buf' = Tail(buf)
      /\ UNCHANGED <<bufReq, s2c, c2s, srvOpen, srvOut, srvTx, op, poisoned, desync>>
      /\ Head(buf) = buf[1]
  BY TailFacts DEF ReadTokenPart, ReadToken, Consume, Reading, srvVars, TxInv, Synced, Correlated,
     TypeOK, FieldTypes
<1>2. txDesc' = FirstTx(buf[1], bufReq, txDesc)
  BY <1>1 DEF ReadTokenPart, ReadToken, FirstTx, Descriptor
<1>3. pc' \in {"read", "stream", "idle", "bulk"} /\ op # "cancel"
  BY <1>1 DEF ReadTokenPart, ReadToken, AfterToken, TxInv, Synced, Correlated, NoAttention
<1>4. c2s = << >>
  BY <1>1 DEF TxInv, AnswerHere, Reading
<1>5. TxKnown'
  BY <1>1, <1>2, LeadsRead DEF TxInv, TxKnown
<1>6. op \in {"tmbegin", "tmend"} =>
        /\ Orderly(buf', s2c, srvOut)
        /\ buf[1] \in Dones => /\ ~Changes(buf') /\ ~Changes(srvOut)
                               /\ \A i \in 1..Len(s2c) : ~Changes(s2c[i].units)
  BY <1>1, OrderlyRead DEF TxInv, TmAnswer
<1>7. TmAnswer' /\ AnswerHere' /\ FlushUsable'
  BY <1>1, <1>3, <1>4, <1>6 DEF TmAnswer, AnswerHere, FlushUsable
<1>8. Settled'
  <2> SUFFICES ASSUME pc' = "idle"
               PROVE  /\ ~Changes(buf') /\ ~Changes(srvOut)
                      /\ \A i \in 1..Len(s2c) : ~Changes(s2c[i].units)
    BY <1>1, <1>3, <1>4 DEF Settled
  <2>1. (op \in {"tmbegin", "tmend"} /\ buf[1] \in Dones) \/ op = "bulkins"
    BY <1>1, <1>3 DEF ReadTokenPart, ReadToken, AfterToken
  <2>2. CASE op = "bulkins"
    <3>1. Len(buf) = 1 /\ flushed
      BY <1>1, <2>2 DEF TxInv, Synced, Correlated, BulkInsertAnswer
    <3>2. buf' = << >>
      BY <1>1, <3>1, TailFacts
    <3>3. s2c = << >> /\ srvOut = << >>
      BY <3>1 DEF TxInv, Synced, Correlated, OneInFlight, DrainedIsQuiet, Quiet
    <3> QED BY <3>2, <3>3 DEF Changes
  <2> QED BY <1>6, <2>1, <2>2
<1> QED BY <1>5, <1>7, <1>8 DEF TxParts

\* The server takes a packet, and perhaps the whole message.
LEMMA TxReceive ==
    ASSUME TxInv, SrvReceive
    PROVE  TxParts'
<1>1. /\ c2s # << >> /\ c2s \in Seq(ClientPacket) /\ c2s' = Tail(c2s) /\ srvOut = << >>
      /\ s2c = << >> /\ UNCHANGED <<connVars, callVars, s2c, srvOpen, srvTx>>
  BY DEF SrvReceive, TxInv, Synced, Correlated, TypeOK, WireTypes, OneInFlight, OnePlace
<1>2. /\ Head(c2s) = c2s[1] /\ Len(c2s) \in Nat \ {0} /\ Len(c2s') = Len(c2s) - 1
      /\ \A i \in 1..Len(c2s') : c2s'[i] = c2s[i + 1]
  BY <1>1, TailFacts
<1>3. 1 \in 1..Len(c2s) /\ \A i \in 1..Len(c2s') : i + 1 \in 1..Len(c2s)
  BY <1>2
<1>4. c2s[1].eom \/ srvOut' = << >>
  BY <1>1, <1>2 DEF SrvReceive
<1>5. TxKnown' /\ FlushUsable'
  BY <1>1 DEF TxInv, TxKnown, FlushUsable, Usable, connVars, callVars
<1>6. pc \in {"write", "read", "stream"} => buf = << >>
  BY <1>1 DEF TxInv, AnswerHere, Reading, Synced, Correlated, OwnBuffer
<1>7. AnswerHere'
  BY <1>1, <1>6 DEF AnswerHere, Reading, connVars, callVars
<1>8. Settled'
  <2> SUFFICES ASSUME srvOpen, Usable, pc \in {"idle", "flush", "send"}
               PROVE  /\ ~Changes(buf) /\ ~Changes(srvOut')
                      /\ \A i \in 1..Len(s2c) : ~Changes(s2c[i].units)
                      /\ \A i \in 1..Len(c2s') : ~c2s'[i].eom
    BY <1>1 DEF Settled, Usable, connVars, callVars
  <2>1. /\ ~Changes(buf) /\ ~Changes(srvOut)
        /\ \A i \in 1..Len(s2c) : ~Changes(s2c[i].units)
        /\ \A i \in 1..Len(c2s) : ~c2s[i].eom
    BY DEF TxInv, Settled
  <2>2. srvOut' = srvOut
    BY <1>1, <1>3, <1>4, <2>1
  <2> QED BY <1>2, <1>3, <2>1, <2>2
<1>9. TmAnswer'
  <2> SUFFICES ASSUME op \in {"tmbegin", "tmend"}, pc \in {"write", "read", "stream"}
               PROVE  /\ \A i \in 1..Len(c2s') : c2s'[i].op = op
                      /\ Orderly(buf, s2c, srvOut')
    BY <1>1 DEF TmAnswer, connVars, callVars
  <2>1. \A i \in 1..Len(c2s) : c2s[i].op = op
    BY DEF TxInv, TmAnswer
  <2>2. DoneLast(srvOut')
    <3>1. CASE srvOut' = << >>
      BY <3>1 DEF DoneLast
    <3>2. CASE srvOut' # << >>
      <4>1. srvOut' \in Responses[op]
        BY <1>2, <1>3, <1>4, <2>1, <3>2 DEF SrvReceive
      <4> QED BY <4>1, TransactionAssumption DEF DoneLast
    <3> QED BY <3>1, <3>2
  <2>3. Orderly(<< >>, << >>, srvOut')
    BY <2>2 DEF Orderly, DoneLast, HasDone
  <2> QED BY <1>1, <1>2, <1>3, <1>6, <2>1, <2>3
<1> QED BY <1>5, <1>7, <1>8, <1>9 DEF TxParts

\* The server sends a packet: the session's transaction changes as the
\* descriptor will once the packet is read.
LEMMA TxSend ==
    ASSUME TxInv, SrvSend
    PROVE  TxParts'
<1>1. PICK n \in 1..Len(srvOut) :
        /\ s2c' = Append(s2c, [req |-> srvReq, units |-> SubSeq(srvOut, 1, n),
                               last |-> n = Len(srvOut)])
        /\ srvOut' = SubSeq(srvOut, n + 1, Len(srvOut))
        /\ srvTx' = TxAfter(SubSeq(srvOut, 1, n), srvReq, srvTx)
  BY DEF SrvSend
<1>2. UNCHANGED <<connVars, callVars, c2s, srvOpen>>
  BY DEF SrvSend
<1> DEFINE p == [req |-> srvReq, units |-> SubSeq(srvOut, 1, n), last |-> n = Len(srvOut)]
<1>3. srvOut \in Seq(Units) /\ s2c \in Seq(ServerPacket) /\ srvReq \in Nat /\ n \in 0..Len(srvOut)
  BY DEF TxInv, Synced, Correlated, TypeOK, ServerTypes, WireTypes
<1>4. p.units = SubSeq(srvOut, 1, n) /\ p.req = srvReq
  OBVIOUS
<1>5. p \in ServerPacket
  <2>1. SubSeq(srvOut, 1, n) \in Seq(Units)
    BY <1>3
  <2> QED BY <1>3, <2>1 DEF ServerPacket
<1>6. s2c' = Append(s2c, p)
  BY <1>1
<1> HIDE DEF p
<1>7. TxKnown'
  BY <1>1, <1>2, <1>3, <1>4, <1>5, <1>6, LeadsSend DEF TxInv, TxKnown, connVars
<1>8. AnswerHere' /\ FlushUsable'
  BY <1>2 DEF TxInv, AnswerHere, FlushUsable, Usable, connVars, callVars
<1>9. TmAnswer'
  <2> SUFFICES ASSUME op \in {"tmbegin", "tmend"}, pc \in {"write", "read", "stream"}
               PROVE  (\A i \in 1..Len(c2s) : c2s[i].op = op) /\ Orderly(buf, s2c', srvOut')
    BY <1>2 DEF TmAnswer, connVars, callVars
  <2>1. (\A i \in 1..Len(c2s) : c2s[i].op = op) /\ Orderly(buf, s2c, srvOut)
    BY DEF TxInv, TmAnswer
  <2> QED BY <1>1, <1>3, <1>4, <1>5, <1>6, <2>1, OrderlySend
<1>10. Settled'
  <2> SUFFICES ASSUME srvOpen, Usable, pc \in {"idle", "flush", "send"}
               PROVE  /\ ~Changes(buf) /\ ~Changes(srvOut')
                      /\ \A i \in 1..Len(s2c') : ~Changes(s2c'[i].units)
                      /\ \A i \in 1..Len(c2s) : ~c2s[i].eom
    BY <1>2 DEF Settled, Usable, connVars, callVars
  <2>1. /\ ~Changes(buf) /\ ~Changes(srvOut)
        /\ \A i \in 1..Len(s2c) : ~Changes(s2c[i].units)
        /\ \A i \in 1..Len(c2s) : ~c2s[i].eom
    BY DEF TxInv, Settled
  <2>2. ~Changes(p.units) /\ ~Changes(srvOut')
    BY <1>1, <1>3, <1>4, <2>1, CutFacts
  <2>3. /\ Len(s2c') = Len(s2c) + 1 /\ Len(s2c) \in Nat /\ s2c'[Len(s2c) + 1] = p
        /\ \A i \in 1..Len(s2c) : s2c'[i] = s2c[i]
    BY <1>3, <1>5, <1>6, AppendFacts
  <2>4. \A i \in 1..Len(s2c') : i \in 1..Len(s2c) \/ i = Len(s2c) + 1
    BY <2>3
  <2> QED BY <2>1, <2>2, <2>3, <2>4
<1> QED BY <1>7, <1>8, <1>9, <1>10 DEF TxParts

LEMMA TxClose ==
    ASSUME TxInv, SrvClose
    PROVE  TxParts'
<1>1. /\ UNCHANGED <<connVars, callVars, s2c>> /\ c2s' = << >> /\ srvOut' = << >> /\ ~srvOpen'
  BY DEF SrvClose
<1>2. TxKnown' /\ Settled' /\ AnswerHere' /\ FlushUsable'
  BY <1>1 DEF TxInv, TxKnown, Settled, AnswerHere, FlushUsable, Usable, connVars, callVars
<1>3. DoneLast(<< >>) /\ ~Changes(<< >>)
  BY DEF DoneLast, Changes
<1>4. TmAnswer'
  BY <1>1, <1>3 DEF TxInv, TmAnswer, Orderly, connVars, callVars
<1> QED BY <1>2, <1>4 DEF TxParts

LEMMA TxStep ==
    ASSUME ReadsAll, TxInv, [Next]_vars, ~CancelRequest
    PROVE  TxInv'
<1>1. Synced'
  BY SyncedStep DEF TxInv
<1>2. CASE ReadTokenPart \/ ReadToken \/ Misparse
  <2>1. ~Misparse
    BY <1>2, SyncRead DEF TxInv
  <2> QED BY <1>1, <1>2, <2>1, TxRead DEF TxInv, TxParts
<1>3. CASE SrvAttention
  <2>1. Head(c2s) = c2s[1] /\ 1 \in 1..Len(c2s)
    BY <1>3, TailFacts DEF SrvAttention, TxInv, Synced, Correlated, TypeOK, WireTypes
  <2> QED BY <1>3, <2>1 DEF SrvAttention, TxInv, Synced, Correlated, NoAttention
<1>4. CASE \/ (\E o \in Calls : Call(o)) \/ StreamEnds
           \/ Rejected \/ EncodeFails \/ ColumnListFails \/ FlushEnds \/ WriteFails
           \/ ReadFails \/ CommandTimeout \/ Drop \/ DropStream
           \/ BulkRejected \/ BulkAbandoned \/ Close \/ Closed \/ UNCHANGED vars
  BY <1>1, <1>4, TxCalls DEF TxInv, TxParts
<1>5. CASE BeginSend \/ WritePacket \/ WriteDone \/ \E o \in {"bulkrow", "bulkload"} : BulkWrite(o)
  BY <1>1, <1>5, TxWrites DEF TxInv, TxParts
<1>6. CASE FlushPacket \/ PollRead
  BY <1>1, <1>6, TxFlush, TxPollRead DEF TxInv, TxParts
<1>7. CASE SrvReceive \/ SrvSend \/ SrvClose
  BY <1>1, <1>7, TxReceive, TxSend, TxClose DEF TxInv, TxParts
<1> QED
  BY <1>2, <1>3, <1>4, <1>5, <1>6, <1>7 DEF Next, ClientStep, ServerStep

-----------------------------------------------------------------------------
(***************************************************************************)
(* A cancel starts between two calls, so that nothing it may cut short or  *)
(* read past changes a transaction.  The session and the client keep the   *)
(* one they have until the next call.                                      *)
(***************************************************************************)
CancelChangesNone ==
    op = "cancel" /\ pc # "closed" /\ srvOpen =>
        /\ txDesc = srvTx /\ ~Changes(buf) /\ ~Changes(srvOut)
        /\ \A i \in 1..Len(s2c) : ~Changes(s2c[i].units)
        /\ \A i \in 1..Len(c2s) : c2s[i].eom => c2s[i].op = "cancel"

\* The inductive invariant: between two cancels TxInv holds.
TxBetween ==
    /\ CorrelatedBetween /\ CancelChangesNone
    /\ op # "cancel" => TxInv

LEMMA StillTail ==
    ASSUME NEW x \in Seq(Units), x # << >>, ~Changes(x)
    PROVE  ~Changes(Tail(x)) /\ Head(x) \notin {"begin", "end"}
<1>1. /\ Head(x) = x[1] /\ Len(x) \in Nat \ {0} /\ Len(Tail(x)) = Len(x) - 1
      /\ \A i \in 1..Len(Tail(x)) : Tail(x)[i] = x[i + 1]
  BY TailFacts
<1>2. 1 \in 1..Len(x) /\ \A i \in 1..Len(Tail(x)) : i + 1 \in 1..Len(x)
  BY <1>1
<1> QED BY <1>1, <1>2 DEF Changes

\* What a cancel reads, sends or waits for changes no transaction.
LEMMA CancelReadsNoChange ==
    ASSUME TxBetween, op = "cancel", ReadTokenPart \/ ReadToken \/ PollRead
    PROVE  CancelChangesNone'
<1> SUFFICES ASSUME srvOpen PROVE CancelChangesNone'
  BY DEF CancelChangesNone, ReadTokenPart, ReadToken, PollRead, srvVars
<1>1. pc # "closed" /\ UNCHANGED <<c2s, srvVars, op>>
  BY DEF ReadTokenPart, ReadToken, PollRead, Waiting, Reading, callVars
<1>2. /\ txDesc = srvTx /\ ~Changes(buf) /\ ~Changes(srvOut)
      /\ \A i \in 1..Len(s2c) : ~Changes(s2c[i].units)
      /\ \A i \in 1..Len(c2s) : c2s[i].eom => c2s[i].op = "cancel"
  BY <1>1 DEF TxBetween, CancelChangesNone
<1>3. buf \in Seq(Units) /\ s2c \in Seq(ServerPacket)
  BY DEF TxBetween, CorrelatedBetween, CancelInv, TypeOK, FieldTypes, WireTypes
<1>4. CASE ReadTokenPart \/ ReadToken
  <2>1. ~Changes(Tail(buf)) /\ Head(buf) \notin {"begin", "end"}
    BY <1>2, <1>3, <1>4, StillTail DEF ReadTokenPart, ReadToken
  <2>2. buf' = Tail(buf) /\ s2c' = s2c /\ txDesc' = txDesc
    BY <1>4, <2>1 DEF ReadTokenPart, ReadToken, Consume, Descriptor
  <2> QED BY <1>1, <1>2, <2>1, <2>2 DEF CancelChangesNone, srvVars
<1>5. CASE PollRead
  <2>1. buf' = Head(s2c).units /\ s2c' = Tail(s2c) /\ txDesc' = txDesc /\ s2c # << >>
    BY <1>5 DEF PollRead
  <2>2. /\ Head(s2c) = s2c[1] /\ Len(s2c) \in Nat \ {0} /\ Len(s2c') = Len(s2c) - 1
        /\ \A i \in 1..Len(s2c') : s2c'[i] = s2c[i + 1]
    BY <1>3, <2>1, TailFacts
  <2>3. 1 \in 1..Len(s2c) /\ \A i \in 1..Len(s2c') : i + 1 \in 1..Len(s2c)
    BY <2>2
  <2>4. ~Changes(buf)' /\ \A i \in 1..Len(s2c') : ~Changes(s2c'[i].units)
    BY <1>2, <2>1, <2>2, <2>3 DEF Changes
  <2> QED BY <1>1, <1>2, <2>1, <2>4 DEF CancelChangesNone, Changes, srvVars
<1> QED BY <1>4, <1>5

\* Neither does what the server sends while it is in progress.
LEMMA CancelServerNoChange ==
    ASSUME TxBetween, op = "cancel", SrvReceive \/ SrvAttention \/ SrvSend
    PROVE  CancelChangesNone'
<1> SUFFICES ASSUME pc # "closed" PROVE CancelChangesNone'
  BY DEF CancelChangesNone, SrvReceive, SrvAttention, SrvSend, callVars
<1>1. srvOpen /\ UNCHANGED <<connVars, callVars, srvOpen>>
  BY DEF SrvReceive, SrvAttention, SrvSend
<1>2. /\ txDesc = srvTx /\ ~Changes(buf) /\ ~Changes(srvOut)
      /\ \A i \in 1..Len(s2c) : ~Changes(s2c[i].units)
      /\ \A i \in 1..Len(c2s) : c2s[i].eom => c2s[i].op = "cancel"
  BY <1>1 DEF TxBetween, CancelChangesNone
<1>3. srvOut \in Seq(Units) /\ s2c \in Seq(ServerPacket) /\ c2s \in Seq(ClientPacket) /\ srvReq \in Nat
  BY DEF TxBetween, CorrelatedBetween, CancelInv, TypeOK, ServerTypes, WireTypes
<1>4. CASE SrvReceive \/ SrvAttention
  <2>1. c2s # << >> /\ c2s' = Tail(c2s) /\ s2c' = s2c /\ srvTx' = srvTx
    BY <1>4 DEF SrvReceive, SrvAttention
  <2>2. /\ Head(c2s) = c2s[1] /\ Len(c2s) \in Nat \ {0} /\ Len(c2s') = Len(c2s) - 1
        /\ \A i \in 1..Len(c2s') : c2s'[i] = c2s[i + 1]
    BY <1>3, <2>1, TailFacts
  <2>3. 1 \in 1..Len(c2s) /\ \A i \in 1..Len(c2s') : i + 1 \in 1..Len(c2s)
    BY <2>2
  <2>4. \A i \in 1..Len(c2s') : c2s'[i].eom => c2s'[i].op = "cancel"
    BY <1>2, <2>2, <2>3
  <2>5. SrvReceive => srvOut' = srvOut
    BY <1>2, <2>2, <2>3 DEF SrvReceive
  <2>6. SrvAttention => srvOut' \in {<<"attn">>, <<"rowt", "attn">>}
    BY DEF SrvAttention
  <2>7. ~Changes(<<"attn">>) /\ ~Changes(<<"rowt", "attn">>)
    BY DEF Changes
  <2>8. ~Changes(srvOut')
    BY <1>2, <1>4, <2>5, <2>6, <2>7
  <2> QED BY <1>1, <1>2, <2>1, <2>4, <2>8 DEF CancelChangesNone, Changes, connVars, callVars
<1>5. CASE SrvSend
  <2>1. PICK n \in 1..Len(srvOut) :
          /\ s2c' = Append(s2c, [req |-> srvReq, units |-> SubSeq(srvOut, 1, n),
                                 last |-> n = Len(srvOut)])
          /\ srvOut' = SubSeq(srvOut, n + 1, Len(srvOut))
          /\ srvTx' = TxAfter(SubSeq(srvOut, 1, n), srvReq, srvTx)
    BY <1>5 DEF SrvSend
  <2> DEFINE a == SubSeq(srvOut, 1, n)
             p == [req |-> srvReq, units |-> a, last |-> n = Len(srvOut)]
  <2>2. ~Changes(a) /\ ~Changes(srvOut')
    <3>1. n \in 0..Len(srvOut)
      BY <1>3
    <3> QED BY <1>2, <1>3, <2>1, <3>1, CutFacts
  <2>3. p \in ServerPacket /\ p.units = a
    <3>1. a \in Seq(Units)
      BY <1>3
    <3> QED BY <1>3, <3>1 DEF ServerPacket
  <2>4. srvTx' = srvTx
    BY <2>1, <2>2, TxStill
  <2>5. s2c' = Append(s2c, p) /\ c2s' = c2s
    BY <1>5, <2>1 DEF SrvSend
  <2> HIDE DEF a, p
  <2>6. /\ Len(s2c') = Len(s2c) + 1 /\ Len(s2c) \in Nat /\ s2c'[Len(s2c) + 1] = p
        /\ \A i \in 1..Len(s2c) : s2c'[i] = s2c[i]
    BY <1>3, <2>3, <2>5, AppendFacts
  <2>7. \A i \in 1..Len(s2c') : i \in 1..Len(s2c) \/ i = Len(s2c) + 1
    BY <2>6
  <2>8. \A i \in 1..Len(s2c') : ~Changes(s2c'[i].units)
    BY <1>2, <2>2, <2>3, <2>6, <2>7
  <2> QED BY <1>1, <1>2, <2>2, <2>4, <2>5, <2>8 DEF CancelChangesNone, Changes, connVars, callVars
<1> QED BY <1>4, <1>5

LEMMA CancelNoChange ==
    ASSUME ReadsAll, ~Misparse, TxBetween, op = "cancel", [Next]_vars,
           ~\E o \in Calls : Call(o)
    PROVE  CancelChangesNone'
<1>1. pc \notin {"flush", "send", "bulk"}
  BY DEF TxBetween, CorrelatedBetween, CancelInv, CancelPlaces
<1>2. ~Drop /\ ~DropStream
  BY DEF ReadsAll, Drop, DropStream
<1>3. CASE ReadTokenPart \/ ReadToken \/ PollRead
  BY <1>3, CancelReadsNoChange
<1>4. CASE SrvReceive \/ SrvAttention \/ SrvSend
  BY <1>4, CancelServerNoChange
<1>5. CASE SrvClose
  BY <1>5 DEF SrvClose, CancelChangesNone
<1>6. CASE WritePacket
  <2>1. /\ UNCHANGED <<buf, txDesc, pc, op, s2c, srvVars>> /\ pc # "closed"
        /\ c2s' = Put([req |-> nreq, op |-> op, eom |-> out = 1 /\ op # "bulkrow"])
    BY <1>6 DEF WritePacket
  <2> DEFINE p == [req |-> nreq, op |-> op, eom |-> out = 1 /\ op # "bulkrow"]
  <2>2. c2s \in Seq(ClientPacket) /\ nreq \in Nat /\ op \in Ops
    BY DEF TxBetween, CorrelatedBetween, CancelInv, TypeOK, WireTypes, CallTypes
  <2>3. p \in ClientPacket /\ p.op = "cancel"
    BY <2>2 DEF ClientPacket
  <2>4. c2s' = Append(c2s, p) \/ c2s' = c2s
    BY <2>1 DEF Put
  <2> HIDE DEF p
  <2>5. ASSUME NEW i \in 1..Len(c2s'), srvOpen PROVE c2s'[i].eom => c2s'[i].op = "cancel"
    <3>1. \A j \in 1..Len(c2s) : c2s[j].eom => c2s[j].op = "cancel"
      BY <2>1, <2>5 DEF TxBetween, CancelChangesNone
    <3>2. CASE c2s' = Append(c2s, p)
      <4>1. /\ Len(c2s') = Len(c2s) + 1 /\ Len(c2s) \in Nat /\ c2s'[Len(c2s) + 1] = p
            /\ \A j \in 1..Len(c2s) : c2s'[j] = c2s[j]
        BY <2>2, <2>3, <3>2, AppendFacts
      <4>2. i \in 1..Len(c2s) \/ i = Len(c2s) + 1
        BY <4>1
      <4> QED BY <2>3, <3>1, <4>1, <4>2
    <3> QED BY <2>4, <3>1, <3>2
  <2> QED BY <2>1, <2>5 DEF TxBetween, CancelChangesNone, Changes, srvVars
<1>7. CASE \/ Rejected \/ CancelRequest \/ EncodeFails \/ ColumnListFails \/ FlushPacket
           \/ FlushEnds \/ BeginSend \/ WriteDone \/ WriteFails \/ ReadFails \/ StreamEnds
           \/ CommandTimeout \/ Drop \/ DropStream
           \/ (\E o \in {"bulkrow", "bulkload"} : BulkWrite(o))
           \/ BulkRejected \/ BulkAbandoned \/ Close \/ Closed \/ UNCHANGED vars
  <2>1. /\ UNCHANGED <<buf, txDesc, s2c, c2s, srvOpen, srvOut, srvTx>>
        /\ pc = "closed" => pc' = "closed"
    BY <1>1, <1>2, <1>7 DEF Rejected, CancelRequest, EncodeFails, ColumnListFails, FlushPacket,
       FlushEnds, BeginSend, WriteDone, WriteFails, ReadFails, Waiting, Reading, StreamEnds,
       CommandTimeout, BulkWrite, BulkRejected, BulkAbandoned, Close, Closed,
       vars, connVars, callVars, wireVars, srvVars
  <2> QED BY <2>1 DEF TxBetween, CancelChangesNone, Changes
<1> QED BY <1>3, <1>4, <1>5, <1>6, <1>7 DEF Next, ClientStep, ServerStep

\* A cancel starts with the transaction known to both.
LEMMA CancelStartsSettled ==
    ASSUME TxInv, CancelRequest
    PROVE  CancelChangesNone'
<1> SUFFICES ASSUME srvOpen PROVE CancelChangesNone'
  BY DEF CancelRequest, CancelChangesNone, srvVars
<1>1. /\ UNCHANGED <<buf, txDesc, s2c, c2s, srvOut, srvTx>> /\ pc = "idle" /\ Usable
  BY DEF CancelRequest, wireVars, srvVars
<1>2. /\ ~Changes(buf) /\ ~Changes(srvOut)
      /\ \A i \in 1..Len(s2c) : ~Changes(s2c[i].units)
      /\ \A i \in 1..Len(c2s) : ~c2s[i].eom
  BY <1>1 DEF TxInv, Settled
<1>3. txDesc = srvTx
  <2>1. srvTx = TxAfter(buf, bufReq, txDesc)
    BY <1>2 DEF TxInv, TxKnown, Leads
  <2> QED BY <1>2, <2>1, TxStill
<1> QED BY <1>1, <1>2, <1>3 DEF CancelChangesNone, Changes

\* The first call after a cancel starts with the transaction known to both.
LEMMA CallAfterCancelTx ==
    ASSUME TxBetween, op = "cancel", NEW o \in Calls, Call(o), TypeOK'
    PROVE  TxInv'
<1>1. /\ c2s' = << >> /\ s2c' = << >> /\ srvOut' = << >> /\ buf' = << >>
      /\ pc' = "send" /\ pc = "idle" /\ UNCHANGED <<txDesc, srvVars, bufReq>>
  BY DEF TxBetween, CorrelatedBetween, CancelDone, Call, FlushStream, IsEof, Quiet, wireVars, srvVars
<1>2. Correlated'
  BY CallAfterCancel DEF TxBetween
<1>3. WireTokens' /\ InSync'
  BY <1>1 DEF WireTokens, InSync, WholeTokens
<1>4. ~Changes(<< >>)
  BY DEF Changes
<1>5. TxKnown'
  <2>1. srvOpen => srvTx = txDesc
    BY <1>1 DEF TxBetween, CancelChangesNone
  <2>2. TxAfter(<< >>, bufReq, txDesc) = txDesc
    BY <1>4, TxStill
  <2> QED BY <1>1, <2>1, <2>2 DEF TxKnown, Leads, srvVars
<1>6. AnswerHere' /\ Settled' /\ FlushUsable' /\ TmAnswer'
  BY <1>1, <1>4 DEF AnswerHere, Settled, FlushUsable, TmAnswer, Reading
<1> QED BY <1>2, <1>3, <1>5, <1>6 DEF TxInv, Synced

LEMMA TxBetweenStep ==
    ASSUME ReadsAll, DiscardOnCancelErr, ~Misparse, TxBetween, [Next]_vars
    PROVE  TxBetween'
<1>1. CorrelatedBetween' /\ TypeOK'
  BY BetweenStep DEF TxBetween, CorrelatedBetween, CancelInv
<1>2. CASE op = "cancel" /\ \E o \in Calls : Call(o)
  <2>1. TxInv' /\ op' # "cancel"
    BY <1>1, <1>2, CallAfterCancelTx DEF Call, Calls
  <2> QED BY <1>1, <2>1 DEF TxBetween, CancelChangesNone
<1>3. CASE op = "cancel" /\ ~\E o \in Calls : Call(o)
  <2>1. op' = "cancel"
    BY <1>3, WithinCancel DEF TxBetween
  <2> QED BY <1>1, <1>3, <2>1, CancelNoChange DEF TxBetween
<1>4. CASE op # "cancel" /\ CancelRequest
  <2>1. op' = "cancel"
    BY <1>4 DEF CancelRequest
  <2> QED BY <1>1, <1>4, <2>1, CancelStartsSettled DEF TxBetween
<1>5. CASE op # "cancel" /\ ~CancelRequest
  <2>1. TxInv'
    BY <1>5, TxStep DEF TxBetween
  <2>2. op' # "cancel"
    BY <2>1 DEF TxInv, Synced, Correlated, NoAttention
  <2> QED BY <1>1, <2>1, <2>2 DEF TxBetween, CancelChangesNone
<1> QED BY <1>2, <1>3, <1>4, <1>5

LEMMA TxInit == Init => TxInv
<1> SUFFICES ASSUME Init PROVE TxInv
  OBVIOUS
<1>1. /\ s2c = << >> /\ srvOut = << >> /\ c2s = << >> /\ buf = << >> /\ pc = "idle"
      /\ txDesc = 0 /\ srvTx = 0
  BY DEF Init
<1>2. ~Changes(<< >>)
  BY DEF Changes
<1>3. TxAfter(<< >>, bufReq, 0) = 0
  BY <1>2, TxStill
<1>4. TxKnown
  BY <1>1, <1>3 DEF TxKnown, Leads
<1> QED BY <1>1, <1>2, <1>4, SyncedInit DEF TxInv, AnswerHere, Settled, FlushUsable, TmAnswer

\* Before a message is sent nothing is left to read.
LEMMA SentFresh == TxInv => DescriptorFresh
<1> SUFFICES ASSUME TxInv, pc = "send", srvOpen PROVE txDesc = srvTx
  BY DEF DescriptorFresh
<1>1. s2c = << >> /\ buf = << >>
  BY DEF TxInv, Synced, Correlated, OneInFlight, DrainedIsQuiet, Quiet, OwnBuffer
<1>2. Leads(txDesc, << >>, bufReq, << >>, srvTx)
  BY <1>1 DEF TxInv, TxKnown
<1>3. ~Changes(<< >>)
  BY DEF Changes
<1>4. srvTx = TxAfter(<< >>, bufReq, txDesc)
  BY <1>2 DEF Leads
<1> QED BY <1>3, <1>4, TxStill

\* As long as no call or stream is given up before the end of its response,
\* the descriptor in the header of a request is that of the transaction the
\* session is in: what begins or ends one has been read by then, whatever
\* times out, fails to encode, is cancelled, is abandoned or closes.
THEOREM DescriptorIsFresh == ReadsAll => (Spec => []DescriptorFresh)
<1> SUFFICES ASSUME ReadsAll PROVE Spec => []DescriptorFresh
  OBVIOUS
<1>1. CASE NoCancel
  <2>1. TxInv /\ [Next]_vars => TxInv'
    BY <1>1, TxStep DEF NoCancel, CancelRequest
  <2> QED BY <2>1, TxInit, SentFresh, PTL DEF Spec
<1>2. CASE DiscardOnCancelErr
  <2>1. Init => PlaceInv /\ TxBetween
    BY PlaceInit, TxInit, BetweenInit DEF TxBetween, CancelChangesNone, Init
  <2>2. PlaceInv /\ TxBetween /\ [Next]_vars => PlaceInv' /\ TxBetween'
    BY <1>2, PlaceStep, TxBetweenStep DEF ReadsAll, NoSplit
  <2>3. TxBetween => DescriptorFresh
    BY SentFresh DEF TxBetween, DescriptorFresh, CorrelatedBetween, CancelInv, CancelPlaces
  <2> QED BY <2>1, <2>2, <2>3, PTL DEF Spec
<1> QED BY <1>1, <1>2 DEF ReadsAll, NoCancel

==============================================================================
