------------------------------- MODULE Lookup -------------------------------
(***************************************************************************)
(* sql_browser.rs, sql_browser/tokio.rs and sql_browser/smol.rs:            *)
(* connect_named.  The host resolves to addresses; each is tried, one after *)
(* the other or (multi_subnet_failover) all at once.  To try an address of  *)
(* a named instance, the SQL Browser at the address is asked for its port   *)
(* by UDP, with a timeout; then a TCP connection is opened.                 *)
(*                                                                         *)
(* Datagrams may be lost or late, and anybody may send one: the socket is   *)
(* not connected and recv does not look at the sender.  The two runtimes    *)
(* differ only in how they report the timeout.                              *)
(***************************************************************************)
EXTENDS Naturals, Sequences, FiniteSets

CONSTANTS
    Nobody,     \* no address
    Stranger,   \* whoever answers a question of this look-up without being asked
    Addrs,      \* addresses a host may resolve to
    MaxAddrs    \* how many it resolves to at most (bound)

ASSUME AddrsAssumption ==
    Nobody \notin Addrs /\ Stranger \notin Addrs \cup {Nobody} /\ MaxAddrs \in Nat

VARIABLES
    plan,       \* what connect_named was given: instance?, multi?, runtime
    todo,       \* addresses not tried yet, in the resolver's order
    attempt,    \* address -> where its connect_addr is
    named,      \* address -> who named its port (Nobody: it was configured)
    dgrams,     \* datagrams under way to a socket
    first_error,
    result      \* what connect_named returns

lookupVars == <<plan, todo, attempt, named, dgrams, first_error, result>>

Returned == result # "pending"
Trying == {a \in Addrs : attempt[a] \in {"send", "recv", "connect"}}

Idle ==
    /\ plan = [instance |-> FALSE, multi |-> FALSE, runtime |-> "tokio",
               addrs |-> <<>>]
    /\ todo = <<>> /\ attempt = [a \in Addrs |-> "none"]
    /\ named = [a \in Addrs |-> Nobody]
    /\ dgrams = {} /\ first_error = Nobody /\ result = "not asked"

-----------------------------------------------------------------------------
(* connect_named                                                            *)

\* connect_addr begins with the browser when there is an instance name.
Begin == IF plan.instance THEN "send" ELSE "connect"

\* net::lookup_host: a resolver error is returned at once; otherwise the
\* attempts start, all of them or the first.
Resolve(instance, multi, runtime) ==
    /\ result = "not asked"
    /\ \/ result' = "dns error" /\ todo' = <<>>
       \/ \E n \in 0..MaxAddrs : \E s \in [1..n -> Addrs] :
            /\ \A i, j \in 1..n : s[i] = s[j] => i = j
            /\ todo' = s /\ result' = "pending"
    /\ plan' = [instance |-> instance, multi |-> multi, runtime |-> runtime,
                addrs |-> todo']
    /\ UNCHANGED <<attempt, named, dgrams, first_error>>

\* The futures of all addresses are polled together.
StartAll ==
    /\ ~Returned /\ plan.multi /\ todo # <<>>
    /\ attempt' = [a \in Addrs |-> IF a \in {todo[i] : i \in DOMAIN todo}
                                   THEN Begin ELSE attempt[a]]
    /\ todo' = <<>>
    /\ UNCHANGED <<plan, named, dgrams, first_error, result>>

\* The next address of the loop, once the one before has failed.
StartNext ==
    /\ ~Returned /\ ~plan.multi /\ todo # <<>> /\ Trying = {}
    /\ attempt' = [attempt EXCEPT ![Head(todo)] = Begin]
    /\ todo' = Tail(todo)
    /\ UNCHANGED <<plan, named, dgrams, first_error, result>>

\* An attempt returns an error: get_or_insert keeps the first one.
Failed(a) ==
    /\ attempt' = [attempt EXCEPT ![a] = "failed"]
    /\ first_error' = IF first_error = Nobody THEN a ELSE first_error
    /\ UNCHANGED <<plan, todo, named, result>>

\* No address is left.
GiveUp ==
    /\ ~Returned /\ todo = <<>> /\ Trying = {}
    /\ result' = IF first_error = Nobody THEN "not found" ELSE "error"
    /\ UNCHANGED <<plan, todo, attempt, named, dgrams, first_error>>

-----------------------------------------------------------------------------
(* connect_addr                                                             *)

\* A slip: one socket for all attempts.
OneSocket(a) == CHOOSE b \in Addrs : TRUE

\* UdpSocket::bind: each attempt has a socket of its own.
Socket(a) == a

\* bind and send_to; the question reaches the browser, or is lost.
Ask(a) ==
    /\ ~Returned /\ attempt[a] = "send"
    /\ \/ /\ attempt' = [attempt EXCEPT ![a] = "recv"]
          /\ dgrams' \in {dgrams, dgrams \cup {[to |-> Socket(a), from |-> a,
                                                body |-> "question",
                                                data |-> <<>>]}}
          /\ UNCHANGED <<plan, todo, named, first_error, result>>
       \/ Failed(a) /\ UNCHANGED dgrams

\* What a browser may answer: nothing behind the header, a runt without a
\* header, or fields separated by `;` of which some may be "tcp".
Replies == {<<>>, <<"header">>, <<"header", "np", "pipe">>,
            <<"header", "tcp", "port">>, <<"header", "tcp", "np", "port">>,
            <<"header", "tcp", "np", "tcp", "port">>, <<"header", "tcp">>}

\* The browser answers.
Browser(d) ==
    /\ d.body = "question"
    /\ \E r \in Replies :
          dgrams' = (dgrams \ {d}) \cup {[d EXCEPT !.body = "reply", !.data = r]}
    /\ UNCHANGED <<plan, todo, attempt, named, first_error, result>>

\* A datagram is lost on the way.
Lose(d) ==
    /\ dgrams' = dgrams \ {d}
    /\ UNCHANGED <<plan, todo, attempt, named, first_error, result>>

\* What may come from somebody else to a socket that is open: forged, gone
\* astray, or late from an earlier look-up.
Strays(a) == [to : {Socket(a)}, from : {Stranger}, body : {"reply"}, data : Replies]

\* get_port_from_sql_browser_reply: behind the last "tcp;" of what follows
\* the three-byte header; a reply without a header, a "tcp;" or a number is
\* an error.
ReplyPort(reply) ==
    LET tcp == {i \in DOMAIN reply : i < Len(reply) /\ reply[i] = "tcp"}
        last == CHOOSE i \in tcp : \A j \in tcp : j <= i
    IN tcp # {} /\ reply[last + 1] = "port"

\* recv in time, of the first datagram there is; one without a port is an
\* error.
Recv(a, d) ==
    /\ ~Returned /\ attempt[a] = "recv"
    /\ d.to = Socket(a) /\ d.body # "question"
    /\ dgrams' = dgrams \ {d}
    /\ IF ~ReplyPort(d.data) THEN Failed(a)
       ELSE /\ attempt' = [attempt EXCEPT ![a] = "connect"]
            /\ named' = [named EXCEPT ![a] = d.from]
            /\ UNCHANGED <<plan, todo, first_error, result>>

\* A slip: the timeout is around send_to.
TokioTimeoutOnSend(a) ==
    /\ plan.runtime = "tokio" /\ ~Returned /\ attempt[a] = "send"
    /\ Failed(a) /\ UNCHANGED dgrams

\* tokio: time::timeout around recv; whatever is on its way to the socket is
\* dropped with it.
TokioTimeout(a) ==
    /\ plan.runtime = "tokio" /\ ~Returned /\ attempt[a] = "recv"
    /\ Failed(a) /\ UNCHANGED dgrams

\* smol: the socket raced against a timer; an error of recv itself is
\* reported as it is.
SmolTimeout(a) ==
    /\ plan.runtime = "smol" /\ ~Returned /\ attempt[a] = "recv"
    /\ Failed(a) /\ UNCHANGED dgrams

\* TcpStream::connect succeeds: connect_named returns and the attempts that
\* are left are dropped.
Connected(a) ==
    /\ ~Returned /\ attempt[a] = "connect"
    /\ attempt' = [b \in Addrs |-> IF b = a THEN "connected"
                                   ELSE IF b \in Trying THEN "dropped"
                                   ELSE attempt[b]]
    /\ result' = "connected"
    /\ UNCHANGED <<plan, todo, named, dgrams, first_error>>

\* ... or the connection is refused, or set_nodelay fails.
Refused(a) ==
    /\ ~Returned /\ attempt[a] = "connect"
    /\ Failed(a) /\ UNCHANGED dgrams

Client ==
    \/ StartAll \/ StartNext \/ GiveUp
    \/ \E a \in Addrs : Ask(a) \/ Connected(a) \/ Refused(a)
    \/ \E a \in Addrs : \E d \in dgrams : Recv(a, d)

\* A stranger's datagram is the first there is.  Nobody can count on one.
Stray == \E a \in Addrs : \E d \in Strays(a) : Recv(a, d)

Timer == \E a \in Addrs : TokioTimeout(a) \/ SmolTimeout(a)

Network == \E d \in dgrams : Browser(d) \/ Lose(d)

\* A look-up: the resolver, then attempts, timers and the network.
AskFor == \E instance, multi \in BOOLEAN, runtime \in {"tokio", "smol"} :
              Resolve(instance, multi, runtime)

LookupNext == AskFor \/ Client \/ Stray \/ Timer \/ Network

LookupSpec == Idle /\ [][LookupNext]_lookupVars

-----------------------------------------------------------------------------
(* Properties                                                               *)

\* A stream is handed out only for an address the host resolved to, whose
\* connection was opened, and nothing of the other attempts is left open.  Its
\* port was configured; or else it came to that attempt's own socket, from the
\* browser it asked or a stranger, and is never the answer to another attempt.
OwnPort ==
    result = "connected" =>
        /\ Trying = {}
        /\ \E i \in DOMAIN plan.addrs :
              /\ attempt[plan.addrs[i]] = "connected"
              /\ \A b \in Addrs \ {plan.addrs[i]} : attempt[b] # "connected"
              /\ named[plan.addrs[i]] \in IF plan.instance THEN {plan.addrs[i], Stranger}
                                          ELSE {Nobody}

\* connect_named gives up only when every address it got has been tried and
\* has failed; addresses tried in turn are tried in the resolver's order, and
\* the error reported is that of the first.
GivesUpLast ==
    result \in {"error", "not found"} =>
        /\ todo = <<>>
        /\ \A a \in Addrs : attempt[a] \in {"none", "failed"}
        /\ (result = "not found") <=> (\A a \in Addrs : attempt[a] = "none")
        /\ result = "error" => attempt[first_error] = "failed"
        /\ result = "error" /\ ~plan.multi => first_error = plan.addrs[1]

\* connect_named returns a stream to an address of the host, on the port its own
\* question was answered with, or the error of an attempt when all have failed.
LookupFaithful == OwnPort /\ GivesUpLast

\* The look-up ends, although replies may never come.
LookupEnds == (result = "pending") ~> Returned

=============================================================================
