---------------------------- MODULE LookupProofs ----------------------------
(***************************************************************************)
(* connect_named returns a stream to an address of the host, on a port that *)
(* came to the socket of that address's attempt, or the error of an attempt *)
(* when all have failed: for any set of addresses.                          *)
(***************************************************************************)
EXTENDS Lookup, SequenceTheorems, TLAPS

States == {"none", "send", "recv", "connect", "failed", "connected", "dropped"}

Datagrams == [to : Addrs, from : Addrs, body : {"question", "reply"}, data : Replies]

LookupTypes ==
    /\ plan \in [instance : BOOLEAN, multi : BOOLEAN, runtime : {"tokio", "smol"},
                 addrs : Seq(Addrs)]
    /\ todo \in Seq(Addrs)
    /\ attempt \in [Addrs -> States]
    /\ named \in [Addrs -> Addrs \cup {Nobody, Stranger}]
    /\ dgrams \subseteq Datagrams
    /\ first_error \in Addrs \cup {Nobody}
    /\ result \in {"not asked", "dns error", "pending", "connected", "error", "not found"}

\* Nothing has been tried before the resolver has answered.
NotYet ==
    result \in {"not asked", "dns error"} =>
        todo = <<>> /\ \A a \in Addrs : attempt[a] = "none"

\* The addresses that are left are untried, and each is there once.
LeftUntried ==
    \A i \in DOMAIN todo :
        /\ attempt[todo[i]] = "none"
        /\ \A j \in DOMAIN todo : todo[i] = todo[j] => i = j

\* The addresses tried and to be tried are those the host resolved to.
OfTheHost ==
    /\ \A j \in DOMAIN todo : \E i \in DOMAIN plan.addrs : plan.addrs[i] = todo[j]
    /\ \A a \in Addrs : attempt[a] # "none" => \E i \in DOMAIN plan.addrs : plan.addrs[i] = a

\* A datagram that was asked for goes to the socket of the address it is from.
OwnReplies == \A d \in dgrams : d.to = d.from

\* Only an instance is asked for, and an attempt that has come to its TCP
\* connection knows the port from its own socket.
PortKnown ==
    \A a \in Addrs :
        /\ attempt[a] \in {"send", "recv"} => plan.instance
        /\ attempt[a] \in {"none", "send", "recv"} => named[a] = Nobody
        /\ attempt[a] \in {"connect", "connected"} =>
               named[a] \in IF plan.instance THEN {a, Stranger} ELSE {Nobody}

\* Attempts are dropped only by the one that succeeds.
OneWinner ==
    IF result = "connected"
    THEN \E a \in Addrs :
            /\ attempt[a] = "connected"
            /\ \A b \in Addrs \ {a} : attempt[b] \in {"none", "failed", "dropped"}
    ELSE \A a \in Addrs : attempt[a] \notin {"connected", "dropped"}

\* An error is kept from the first failure on.
ErrorKept ==
    IF first_error = Nobody THEN \A a \in Addrs : attempt[a] # "failed"
    ELSE attempt[first_error] = "failed"

\* Addresses tried in turn: until one has failed, none but the first has been
\* tried.
FirstOfAll ==
    ~plan.multi =>
        IF first_error # Nobody
        THEN plan.addrs # <<>> /\ first_error = plan.addrs[1]
        ELSE \/ todo = plan.addrs /\ \A a \in Addrs : attempt[a] = "none"
             \/ /\ plan.addrs # <<>> /\ attempt[plan.addrs[1]] # "none"
                /\ \A a \in Addrs \ {plan.addrs[1]} : attempt[a] = "none"

\* connect_named gave up with nothing left to try.
GaveUp ==
    result \in {"error", "not found"} =>
        /\ todo = <<>> /\ Trying = {}
        /\ (result = "not found") <=> (first_error = Nobody)

LookupInv == /\ LookupTypes /\ NotYet /\ LeftUntried /\ OfTheHost /\ OwnReplies /\ PortKnown
             /\ OneWinner /\ ErrorKept /\ FirstOfAll /\ GaveUp

-----------------------------------------------------------------------------
\* An empty list of addresses has no indices.
LEMMA NoIndices == DOMAIN <<>> = {}
<1>1. <<>> \in Seq({}) /\ Len(<<>>) = 0
    BY EmptySeq
<1> QED BY <1>1

\* A look-up starts with nothing asked and nothing tried.
LEMMA InitInv == Idle => LookupInv
<1> SUFFICES ASSUME Idle PROVE LookupInv
    OBVIOUS
<1> USE AddrsAssumption DEF Idle
<1>1. LookupTypes
    <2>1. <<>> \in Seq(Addrs)
        BY EmptySeq
    <2>2. plan \in [instance : BOOLEAN, multi : BOOLEAN, runtime : {"tokio", "smol"},
                    addrs : Seq(Addrs)]
        BY <2>1
    <2> QED BY <2>1, <2>2 DEF LookupTypes, States
<1>2. NotYet /\ OwnReplies /\ PortKnown /\ OneWinner /\ ErrorKept
    BY DEF NotYet, OwnReplies, PortKnown, OneWinner, ErrorKept
<1>3. LeftUntried /\ OfTheHost
    BY NoIndices DEF LeftUntried, OfTheHost
<1>4. FirstOfAll /\ GaveUp
    BY DEF FirstOfAll, GaveUp
<1> QED BY <1>1, <1>2, <1>3, <1>4 DEF LookupInv

\* The resolver answers.
LEMMA ResolveInv ==
    ASSUME LookupInv, NEW i \in BOOLEAN, NEW m \in BOOLEAN, NEW r \in {"tokio", "smol"},
           Resolve(i, m, r)
    PROVE  LookupInv'
<1>a. todo' \in Seq(Addrs) /\ \A x, y \in DOMAIN todo' : todo'[x] = todo'[y] => x = y
    <2>1. CASE todo' = <<>>
        BY <2>1
    <2>2. ASSUME NEW n \in 0..MaxAddrs, NEW s \in [1..n -> Addrs],
                 \A x, y \in 1..n : s[x] = s[y] => x = y, todo' = s
          PROVE  /\ todo' \in Seq(Addrs)
                 /\ \A x, y \in DOMAIN todo' : todo'[x] = todo'[y] => x = y
        <3>1. n \in Nat
            BY AddrsAssumption
        <3>2. s \in Seq(Addrs) /\ DOMAIN s = 1..n
            BY <3>1, SeqDef
        <3> QED BY <2>2, <3>2
    <2> QED BY <2>1, <2>2 DEF Resolve
<1>1. LookupTypes'
    <2>1. plan' \in [instance : BOOLEAN, multi : BOOLEAN, runtime : {"tokio", "smol"},
                     addrs : Seq(Addrs)]
        BY <1>a DEF Resolve
    <2> QED BY <1>a, <2>1 DEF LookupInv, LookupTypes, Resolve
<1>2. NotYet'
    BY DEF LookupInv, NotYet, Resolve
<1>3. LeftUntried'
    <2>1. \A a \in Addrs : attempt'[a] = "none"
        BY DEF Resolve, LookupInv, NotYet
    <2>2. \A x \in DOMAIN todo' : todo'[x] \in Addrs
        BY <1>a
    <2> QED BY <1>a, <2>1, <2>2 DEF LeftUntried
<1>4. OwnReplies'
    BY DEF LookupInv, OwnReplies, Resolve
<1>5. PortKnown'
    BY DEF LookupInv, PortKnown, LookupTypes, Resolve, Returned, NotYet
<1>6. OneWinner'
    BY DEF LookupInv, OneWinner, Resolve
<1>7. ErrorKept'
    BY DEF LookupInv, ErrorKept, Resolve
<1>8. FirstOfAll'
    <2>1. first_error = Nobody
        BY DEF LookupInv, LookupTypes, NotYet, ErrorKept, Resolve
    <2> QED BY <1>1, <2>1 DEF LookupInv, LookupTypes, FirstOfAll, NotYet, Resolve
<1>9. GaveUp'
    BY DEF LookupInv, GaveUp, Trying, Resolve
<1>10. OfTheHost'
    BY <1>a DEF LookupInv, NotYet, OfTheHost, Resolve
<1> QED BY <1>1, <1>2, <1>3, <1>4, <1>5, <1>6, <1>7, <1>8, <1>9, <1>10 DEF LookupInv

\* All addresses are tried at once.
LEMMA StartAllInv ==
    ASSUME LookupInv, StartAll
    PROVE  LookupInv'
<1>1. LookupTypes'
    BY DEF LookupInv, LookupTypes, StartAll, Begin, States, Returned, Trying
<1>2. NotYet'
    BY DEF LookupInv, NotYet, StartAll
<1>3. LeftUntried'
    BY DEF LookupInv, LeftUntried, StartAll
<1>4. OwnReplies'
    BY DEF LookupInv, OwnReplies, StartAll
<1>5. PortKnown'
    BY DEF LookupInv, PortKnown, LookupTypes, StartAll, Begin, Returned, LeftUntried
<1>6. OneWinner'
    BY DEF LookupInv, OneWinner, LookupTypes, StartAll, Begin, Returned
<1>7. ErrorKept'
    BY DEF LookupInv, ErrorKept, LookupTypes, StartAll, Begin, Returned, LeftUntried
<1>8. FirstOfAll'
    BY DEF LookupInv, FirstOfAll, StartAll
<1>9. GaveUp'
    BY DEF LookupInv, GaveUp, Trying, StartAll
<1>10. OfTheHost'
    <2>1. \A a \in Addrs : attempt'[a] # "none" =>
              attempt[a] # "none" \/ \E i \in DOMAIN todo : todo[i] = a
        BY DEF StartAll
    <2> QED BY <2>1, NoIndices DEF LookupInv, OfTheHost, StartAll
<1> QED BY <1>1, <1>2, <1>3, <1>4, <1>5, <1>6, <1>7, <1>8, <1>9, <1>10 DEF LookupInv

\* The next address is tried.
LEMMA StartNextInv ==
    ASSUME LookupInv, StartNext
    PROVE  LookupInv'
<1>1. LookupTypes'
    BY DEF LookupInv, LookupTypes, StartNext, Begin, States, Returned, Trying
<1>2. NotYet'
    BY DEF LookupInv, NotYet, StartNext
<1>3. LeftUntried'
    BY DEF LookupInv, LeftUntried, LookupTypes, StartNext, Begin, Returned
<1>4. OwnReplies'
    BY DEF LookupInv, OwnReplies, StartNext
<1>5. PortKnown'
    BY DEF LookupInv, PortKnown, LookupTypes, StartNext, Begin, Returned, LeftUntried
<1>6. OneWinner'
    BY DEF LookupInv, OneWinner, LookupTypes, StartNext, Begin, Returned
<1>7. ErrorKept'
    BY DEF LookupInv, ErrorKept, LookupTypes, StartNext, Begin, Returned, LeftUntried
<1>8. FirstOfAll'
    BY DEF LookupInv, FirstOfAll, LookupTypes, StartNext, Begin, States, Returned,
           Trying, OneWinner, ErrorKept
<1>9. GaveUp'
    BY DEF LookupInv, GaveUp, Trying, StartNext
<1>10. OfTheHost'
    <2>1. /\ 1 \in DOMAIN todo /\ todo[1] = Head(todo)
          /\ \A i \in DOMAIN todo' : i + 1 \in DOMAIN todo /\ todo'[i] = todo[i + 1]
        <3>1. todo \in Seq(Addrs) /\ todo # <<>> /\ todo' = Tail(todo)
            BY DEF LookupInv, LookupTypes, StartNext
        <3>2. Len(todo) \in Nat \ {0} /\ DOMAIN todo = 1..Len(todo) /\ DOMAIN todo' = 1..(Len(todo) - 1)
            BY <3>1
        <3>3. \A i \in 1..(Len(todo) - 1) : todo'[i] = todo[i + 1]
            BY <3>1
        <3> QED BY <3>1, <3>2, <3>3
    <2>2. \A a \in Addrs : attempt'[a] # "none" => attempt[a] # "none" \/ todo[1] = a
        BY <2>1 DEF LookupInv, LookupTypes, StartNext
    <2> QED BY <2>1, <2>2 DEF LookupInv, OfTheHost, StartNext
<1> QED BY <1>1, <1>2, <1>3, <1>4, <1>5, <1>6, <1>7, <1>8, <1>9, <1>10 DEF LookupInv

\* An attempt fails, whatever the reason.
LEMMA FailedInv ==
    ASSUME LookupInv, NEW a \in Addrs, ~Returned, a \in Trying, Failed(a),
           dgrams' \subseteq dgrams
    PROVE  LookupInv'
<1>1. LookupTypes'
    BY DEF LookupInv, LookupTypes, Failed, States, Returned, Trying
<1>2. NotYet'
    BY DEF LookupInv, NotYet, LookupTypes, Failed, Returned
<1>3. LeftUntried'
    BY DEF LookupInv, LeftUntried, LookupTypes, Failed, States, Returned, Trying
<1>4. OwnReplies'
    BY DEF LookupInv, OwnReplies, Failed
<1>5. PortKnown'
    BY DEF LookupInv, PortKnown, Failed
<1>6. OneWinner'
    BY DEF LookupInv, OneWinner, LookupTypes, Failed, Returned
<1>7. ErrorKept'
    BY AddrsAssumption DEF LookupInv, ErrorKept, LookupTypes, Failed
<1>8. FirstOfAll'
    BY DEF LookupInv, FirstOfAll, LookupTypes, Failed, States, Returned, Trying
<1>9. GaveUp'
    BY DEF LookupInv, GaveUp, Trying, Failed
<1>10. OfTheHost'
    <2>1. \A b \in Addrs : attempt'[b] # "none" => attempt[b] # "none"
        BY DEF LookupInv, LookupTypes, Failed, Trying
    <2> QED BY <2>1 DEF LookupInv, OfTheHost, Failed
<1> QED BY <1>1, <1>2, <1>3, <1>4, <1>5, <1>6, <1>7, <1>8, <1>9, <1>10 DEF LookupInv

\* The browser has been asked.
LEMMA AdvanceInv ==
    ASSUME LookupInv, NEW a \in Addrs, Ask(a), ~Failed(a)
    PROVE  LookupInv'
<1>a. [to |-> a, from |-> a, body |-> "question", data |-> <<>>] \in Datagrams
    <2>1. <<>> \in Replies
        BY DEF Replies
    <2> QED BY <2>1 DEF Datagrams
<1>1. LookupTypes'
    <2>1. dgrams' \subseteq Datagrams
        BY <1>a DEF LookupInv, LookupTypes, Ask, Socket
    <2> QED BY <2>1 DEF LookupInv, LookupTypes, States, Ask
<1>2. NotYet'
    BY DEF LookupInv, NotYet, Ask
<1>3. LeftUntried'
    BY DEF LookupInv, LeftUntried, LookupTypes, Ask, Returned
<1>4. OwnReplies'
    <2> SUFFICES ASSUME NEW e \in dgrams' PROVE e.to = e.from
        BY DEF OwnReplies
    <2>1. e \in dgrams \/ e = [to |-> a, from |-> a, body |-> "question", data |-> <<>>]
        BY DEF Ask, Socket
    <2> QED BY <2>1 DEF LookupInv, OwnReplies
<1>5. PortKnown'
    BY DEF LookupInv, PortKnown, LookupTypes, Ask
<1>6. OneWinner'
    BY DEF LookupInv, OneWinner, LookupTypes, Ask
<1>7. ErrorKept'
    BY DEF LookupInv, ErrorKept, LookupTypes, Ask
<1>8. FirstOfAll'
    BY DEF LookupInv, FirstOfAll, LookupTypes, Ask
<1>9. GaveUp'
    BY DEF LookupInv, GaveUp, Trying, Ask
<1>10. OfTheHost'
    <2>1. \A b \in Addrs : attempt'[b] # "none" => attempt[b] # "none"
        BY DEF LookupInv, LookupTypes, Ask, Trying
    <2> QED BY <2>1 DEF LookupInv, OfTheHost, Ask
<1> QED BY <1>1, <1>2, <1>3, <1>4, <1>5, <1>6, <1>7, <1>8, <1>9, <1>10 DEF LookupInv

\* The browser has named a port.
LEMMA NamedInv ==
    ASSUME LookupInv, NEW a \in Addrs, NEW d \in dgrams \cup Strays(a), Recv(a, d),
           ReplyPort(d.data)
    PROVE  LookupInv'
<1>a. d.from \in {a, Stranger}
    BY DEF LookupInv, OwnReplies, Recv, Socket, Strays
<1>1. LookupTypes'
    <2>1. named' \in [Addrs -> Addrs \cup {Nobody, Stranger}]
        BY <1>a DEF LookupInv, LookupTypes, Recv
    <2>2. dgrams' \subseteq Datagrams /\ attempt' \in [Addrs -> States]
        BY DEF LookupInv, LookupTypes, Recv, States
    <2> QED BY <2>1, <2>2 DEF LookupInv, LookupTypes, Recv
<1>2. NotYet'
    BY DEF LookupInv, NotYet, Recv
<1>3. LeftUntried'
    BY DEF LookupInv, LeftUntried, LookupTypes, Recv, Returned
<1>4. OwnReplies'
    BY DEF LookupInv, OwnReplies, Recv
<1>5. PortKnown'
    BY <1>a DEF LookupInv, LookupTypes, PortKnown, Recv
<1>6. OneWinner'
    BY DEF LookupInv, OneWinner, LookupTypes, Recv
<1>7. ErrorKept'
    BY DEF LookupInv, ErrorKept, LookupTypes, Recv
<1>8. FirstOfAll'
    BY DEF LookupInv, FirstOfAll, LookupTypes, Recv
<1>9. GaveUp'
    BY DEF LookupInv, GaveUp, Trying, Recv
<1>10. OfTheHost'
    <2>1. \A b \in Addrs : attempt'[b] # "none" => attempt[b] # "none"
        BY DEF LookupInv, LookupTypes, Recv, Trying
    <2> QED BY <2>1 DEF LookupInv, OfTheHost, Recv
<1> QED BY <1>1, <1>2, <1>3, <1>4, <1>5, <1>6, <1>7, <1>8, <1>9, <1>10 DEF LookupInv

\* A connection is opened.
LEMMA ConnectedInv ==
    ASSUME LookupInv, NEW a \in Addrs, Connected(a)
    PROVE  LookupInv'
<1>1. LookupTypes'
    BY DEF LookupInv, LookupTypes, Connected, States, Returned, Trying
<1>2. NotYet'
    BY DEF LookupInv, NotYet, Connected
<1>3. LeftUntried'
    BY DEF LookupInv, LeftUntried, LookupTypes, Connected, States, Returned, Trying
<1>4. OwnReplies'
    BY DEF LookupInv, OwnReplies, Connected
<1>5. PortKnown'
    BY DEF LookupInv, PortKnown, Connected
<1>6. OneWinner'
    BY DEF LookupInv, OneWinner, LookupTypes, Connected, States, Returned, Trying
<1>7. ErrorKept'
    BY DEF LookupInv, ErrorKept, LookupTypes, Connected, States, Returned, Trying
<1>8. FirstOfAll'
    BY DEF LookupInv, FirstOfAll, LookupTypes, Connected, States, Returned, Trying
<1>9. GaveUp'
    BY DEF LookupInv, GaveUp, Trying, Connected
<1>10. OfTheHost'
    <2>1. \A b \in Addrs : attempt'[b] # "none" => attempt[b] # "none"
        BY DEF LookupInv, LookupTypes, Connected, Trying
    <2> QED BY <2>1 DEF LookupInv, OfTheHost, Connected
<1> QED BY <1>1, <1>2, <1>3, <1>4, <1>5, <1>6, <1>7, <1>8, <1>9, <1>10 DEF LookupInv

\* No address is left.
LEMMA GiveUpInv ==
    ASSUME LookupInv, GiveUp
    PROVE  LookupInv'
<1>1. LookupTypes'
    BY DEF LookupInv, LookupTypes, GiveUp
<1>2. NotYet'
    BY DEF LookupInv, NotYet, GiveUp
<1>3. LeftUntried'
    BY DEF LookupInv, LeftUntried, GiveUp
<1>4. OwnReplies'
    BY DEF LookupInv, OwnReplies, GiveUp
<1>5. PortKnown'
    BY DEF LookupInv, PortKnown, GiveUp
<1>6. OneWinner'
    BY DEF LookupInv, OneWinner, LookupTypes, GiveUp, Returned
<1>7. ErrorKept'
    BY DEF LookupInv, ErrorKept, GiveUp
<1>8. FirstOfAll'
    BY DEF LookupInv, FirstOfAll, GiveUp
<1>9. GaveUp'
    BY DEF LookupInv, GaveUp, Trying, GiveUp
<1>10. OfTheHost'
    BY DEF LookupInv, LookupTypes, OfTheHost, GiveUp
<1> QED BY <1>1, <1>2, <1>3, <1>4, <1>5, <1>6, <1>7, <1>8, <1>9, <1>10 DEF LookupInv

\* Datagrams arrive or are lost.
LEMMA NetworkInv ==
    ASSUME LookupInv, Network
    PROVE  LookupInv'
<1>1. LookupTypes'
    BY DEF LookupInv, LookupTypes, Network, Browser, Lose, States, Datagrams
<1>2. NotYet'
    BY DEF LookupInv, NotYet, Network, Browser, Lose
<1>3. LeftUntried'
    BY DEF LookupInv, LeftUntried, Network, Browser, Lose
<1>4. OwnReplies'
    <2> SUFFICES ASSUME NEW e \in dgrams' PROVE e.to = e.from
        BY DEF OwnReplies
    <2>1. CASE e \in dgrams
        BY <2>1 DEF LookupInv, OwnReplies
    <2>2. CASE e \notin dgrams
        <3>1. PICK d \in dgrams, r \in Replies : e = [d EXCEPT !.body = "reply", !.data = r]
            BY <2>2 DEF Network, Browser, Lose
        <3>2. d \in Datagrams /\ d.to = d.from
            BY DEF LookupInv, LookupTypes, OwnReplies
        <3> QED BY <3>1, <3>2 DEF Datagrams
    <2> QED BY <2>1, <2>2
<1>5. PortKnown'
    BY DEF LookupInv, PortKnown, Network, Browser, Lose
<1>6. OneWinner'
    BY DEF LookupInv, OneWinner, Network, Browser, Lose
<1>7. ErrorKept'
    BY DEF LookupInv, ErrorKept, Network, Browser, Lose
<1>8. FirstOfAll'
    BY DEF LookupInv, FirstOfAll, Network, Browser, Lose
<1>9. GaveUp'
    BY DEF LookupInv, GaveUp, Trying, Network, Browser, Lose
<1>10. OfTheHost'
    BY DEF LookupInv, LookupTypes, OfTheHost, Network, Browser, Lose
<1> QED BY <1>1, <1>2, <1>3, <1>4, <1>5, <1>6, <1>7, <1>8, <1>9, <1>10 DEF LookupInv

\* What the invariant says answers the property.
LEMMA InvFaithful == LookupInv => LookupFaithful
<1> SUFFICES ASSUME LookupInv PROVE LookupFaithful
    OBVIOUS
<1>1. OwnPort
    <2> SUFFICES ASSUME result = "connected" PROVE OwnPort
        BY DEF OwnPort
    <2>1. PICK a \in Addrs : /\ attempt[a] = "connected"
                             /\ \A b \in Addrs \ {a} : attempt[b] \in {"none", "failed", "dropped"}
        BY DEF LookupInv, OneWinner
    <2>2. PICK i \in DOMAIN plan.addrs : plan.addrs[i] = a
        BY <2>1 DEF LookupInv, OfTheHost
    <2>3. named[a] \in IF plan.instance THEN {a, Stranger} ELSE {Nobody}
        BY <2>1 DEF LookupInv, PortKnown
    <2>4. Trying = {}
        BY <2>1 DEF Trying
    <2> QED BY <2>1, <2>2, <2>3, <2>4 DEF OwnPort
<1>2. GivesUpLast
    <2> SUFFICES ASSUME result \in {"error", "not found"} PROVE GivesUpLast
        BY DEF GivesUpLast
    <2>1. \A a \in Addrs : attempt[a] \in {"none", "failed"}
        BY DEF LookupInv, LookupTypes, States, GaveUp, Trying, OneWinner
    <2>2. (result = "not found") <=> (\A a \in Addrs : attempt[a] = "none")
        BY <2>1 DEF LookupInv, LookupTypes, GaveUp, ErrorKept
    <2>3. result = "error" => /\ attempt[first_error] = "failed"
                              /\ ~plan.multi => first_error = plan.addrs[1]
        BY DEF LookupInv, GaveUp, ErrorKept, FirstOfAll
    <2> QED BY <2>1, <2>2, <2>3 DEF LookupInv, GaveUp, GivesUpLast
<1> QED BY <1>1, <1>2 DEF LookupFaithful

\* Every step of connect_named, of its timers and of the network.
LEMMA NextInv == LookupInv /\ [LookupNext]_lookupVars => LookupInv'
<1> SUFFICES ASSUME LookupInv, [LookupNext]_lookupVars PROVE LookupInv'
    OBVIOUS
<1>1. CASE AskFor
    BY <1>1, ResolveInv DEF AskFor
<1>2. CASE StartAll \/ StartNext \/ GiveUp
    BY <1>2, StartAllInv, StartNextInv, GiveUpInv
<1>3. ASSUME NEW a \in Addrs, Ask(a) PROVE LookupInv'
    <2>1. CASE Failed(a)
        <3>1. ~Returned /\ a \in Trying
            BY <1>3 DEF Ask, Trying
        <3>2. dgrams' \subseteq dgrams
            BY <1>3, <2>1 DEF Ask, Failed, LookupInv, LookupTypes
        <3> QED BY <2>1, <3>1, <3>2, FailedInv
    <2>2. CASE ~Failed(a)
        BY <1>3, <2>2, AdvanceInv
    <2> QED BY <2>1, <2>2
<1>4. ASSUME NEW a \in Addrs, NEW d \in dgrams \cup Strays(a), Recv(a, d) PROVE LookupInv'
    <2>1. CASE ReplyPort(d.data)
        BY <1>4, <2>1, NamedInv
    <2>2. CASE ~ReplyPort(d.data)
        BY <1>4, <2>2, FailedInv DEF Recv, Trying
    <2> QED BY <2>1, <2>2
<1>5. ASSUME NEW a \in Addrs, Connected(a) \/ Refused(a) PROVE LookupInv'
    BY <1>5, ConnectedInv, FailedInv DEF Refused, Trying
<1>6. CASE Timer
    BY <1>6, FailedInv DEF Timer, TokioTimeout, SmolTimeout, Trying
<1>7. CASE Network
    BY <1>7, NetworkInv
<1>8. CASE UNCHANGED lookupVars
    <2>1. (LookupTypes /\ NotYet /\ LeftUntried /\ OwnReplies /\ PortKnown)'
        BY <1>8 DEF lookupVars, LookupInv, LookupTypes, NotYet, LeftUntried, OwnReplies, PortKnown
    <2>2. (OneWinner /\ ErrorKept /\ FirstOfAll /\ GaveUp)'
        BY <1>8 DEF lookupVars, LookupInv, OneWinner, ErrorKept, FirstOfAll, GaveUp, Trying
    <2>3. OfTheHost'
        BY <1>8 DEF lookupVars, LookupInv, OfTheHost
    <2> QED BY <2>1, <2>2, <2>3 DEF LookupInv
<1> QED BY <1>1, <1>2, <1>3, <1>4, <1>5, <1>6, <1>7, <1>8 DEF LookupNext, Client, Stray

\* However many addresses there are, tried in turn or all at once, whatever the
\* network loses or delays and whoever else writes to the sockets:
\* connect_named returns a stream to an address the host resolved to, on a port
\* that is no other attempt's answer, or gives up with the first error when
\* every address has failed.
THEOREM FindsOwnInstance == LookupSpec => []LookupFaithful
<1>1. LookupSpec => []LookupInv
    BY InitInv, NextInv, PTL DEF LookupSpec
<1> QED BY <1>1, InvFaithful, PTL

=============================================================================
