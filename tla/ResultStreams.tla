---------------------------- MODULE ResultStreams ----------------------------
(***************************************************************************)
(* What becomes of the tokens of a response: TokenStream::try_unfold        *)
(* decodes them with the metadata kept in the connection's Context, and one *)
(* of its consumers turns them into items for the application: QueryStream  *)
(* (which peeks), CommandStream, ExecuteResult, and the two folds of Client *)
(* that look up columns. The Context outlives the response: a call may find *)
(* there what an earlier one, perhaps abandoned half-way, has left.         *)
(*                                                                          *)
(* The server's response is chosen token by token as it is read. How its    *)
(* bytes get here, timeouts and the draining of an abandoned response are   *)
(* the subject of TdsConnection.                                            *)
(***************************************************************************)
EXTENDS Integers, Sequences, FiniteSets, FiniteSetsExt

CONSTANTS
    Metas,      \* column lists
    AltIds,     \* ids of COMPUTE clauses
    Tokens,     \* the tokens a server may send, of Token below
    MaxTokens,  \* bound on the tokens of a response
    MaxCalls    \* bound on the calls on one connection

NoMeta == "no metadata"
NoIndex == -1
NoError == 0

Types == {"meta", "altmeta", "row", "altrow", "error", "done", "doneproc",
          "doneinproc", "status", "value", "other"}

\* The status of a DONE token, as far as is_final and rows tell it apart.
DoneStatus == {"final", "count", "more"}

\* m: columns of a metadata token, status of a done token. n: the id of a
\* COMPUTE clause, an error's code, a row count, a return status or value.
Token == [t : Types, m : Metas \cup DoneStatus \cup {NoMeta}, n : Nat]

\* What a poll of the token stream yields besides a token.
Nothing == [t |-> "nothing", m |-> NoMeta, n |-> 0]
End     == [t |-> "end", m |-> NoMeta, n |-> 0]
Err(e)  == [t |-> "err", m |-> NoMeta, n |-> e]

ServerErrors == {tk.n : tk \in {x \in Tokens : x.t = "error"}}
Protocol == 99  \* Error::Protocol, or any other that is not the server's

ASSUME TokensAssumption ==
    /\ Tokens \subseteq Token
    /\ NoMeta \notin Metas
    /\ Metas \cap DoneStatus = {}
    /\ {NoError, Protocol} \cap ServerErrors = {}
    /\ \A tk \in Tokens :
          /\ tk.t \in {"meta", "altmeta"} => tk.m \in Metas
          /\ tk.t \in {"altmeta", "altrow"} => tk.n \in AltIds
ASSUME BoundsAssumption == MaxTokens \in Nat /\ MaxCalls \in Nat

VARIABLES
    lastMeta, altMetas,    \* Context, for the life of the connection
    calls,                 \* calls made
    pc,                    \* what the application has called, or holds
    kind,                  \* which consumer
    read,                  \* tokens decoded so far; a row has in m the metadata
                           \* it was decoded with and in n its position
    lastError, live,       \* TokenStream: last_error; the unfold has not ended
    item,                  \* Peekable: the token produced and not yet consumed
    columns, index,        \* QueryStream, CommandStream
    got,                   \* items handed to the application (history)
    start,                 \* how many of them before into_results (history)
    acc,                   \* what a collecting call has gathered
    told,                  \* errors returned by a poll of the stream (history)
    ended,                 \* a poll returned None (history)
    answer,                \* what columns() returned (history)
    outcome                \* of a collecting call

context == <<lastMeta, altMetas>>
tokenStream == <<context, read, lastError, live>>
stream == <<columns, index>>
history == <<got, start, told, ended, answer>>
vars == <<tokenStream, calls, pc, kind, item, stream, history, acc, outcome>>

Streams == {"query", "command"}          \* consumers the application polls
Folds == {"execute", "tvp", "table"}     \* consumers that run to the end
Reading == {"forward", "columns", "next", "collect", "fold"}

\* The accumulators of into_results, into_command_result, ExecuteResult::new
\* and the folds; current and cols are options: empty or a single element.
Empty == [results |-> <<>>, current |-> <<>>, status |-> 0, values |-> <<>>,
          counts |-> <<>>, cols |-> <<>>]

-----------------------------------------------------------------------------
(* TokenStream *)

Init ==
    /\ lastMeta = NoMeta /\ altMetas = [i \in AltIds |-> NoMeta]
    /\ calls = 0 /\ pc = "idle" /\ kind = "query"
    /\ read = <<>> /\ lastError = NoError /\ live = FALSE /\ item = Nothing
    /\ columns = NoMeta /\ index = NoIndex
    /\ got = <<>> /\ start = 0 /\ acc = Empty /\ outcome = "none"
    /\ told = {} /\ ended = FALSE /\ answer = NoMeta

\* Nothing read yet, or nothing left of what was.
Fresh ==
    /\ read' = <<>> /\ lastError' = NoError /\ item' = Nothing
    /\ columns' = NoMeta /\ index' = NoIndex
    /\ got' = <<>> /\ start' = 0 /\ acc' = Empty /\ outcome' = "none"
    /\ told' = {} /\ ended' = FALSE /\ answer' = NoMeta

\* A call sends its request and makes a new stream; the Context is kept.
Call(k) ==
    /\ pc = "idle" /\ calls < MaxCalls
    /\ calls' = calls + 1 /\ kind' = k
    /\ pc' = CASE k = "query" -> "forward"
               [] k = "command" -> "open"
               [] k \in Folds -> "fold"
    /\ live' = TRUE /\ Fresh
    /\ UNCHANGED context

\* The metadata a row token is decoded with, if there is any.
MetaOf(tk) == IF tk.t = "row" THEN lastMeta ELSE altMetas[tk.n]

\* A slip of SetContext: COMPUTE metadata replaces that of the result set.
SetContextAny(tk) ==
    /\ lastMeta' = IF tk.t \in {"meta", "altmeta"} THEN tk.m ELSE lastMeta
    /\ altMetas' = IF tk.t = "altmeta" THEN [altMetas EXCEPT ![tk.n] = tk.m] ELSE altMetas

SetContext(tk) ==
    /\ lastMeta' = IF tk.t = "meta" THEN tk.m ELSE lastMeta
    /\ altMetas' = IF tk.t = "altmeta" THEN [altMetas EXCEPT ![tk.n] = tk.m] ELSE altMetas

\* A slip of KeepError: the last error wins.
KeepLastError(tk) == lastError' = IF tk.t = "error" THEN tk.n ELSE lastError

KeepError(tk) ==
    lastError' = IF tk.t = "error" /\ lastError = NoError THEN tk.n ELSE lastError

\* A token of the kinds that need no metadata.
DecodePlain(tk) ==
    /\ tk.t \notin {"row", "altrow"}
    /\ item' = tk /\ read' = Append(read, tk)
    /\ SetContext(tk) /\ KeepError(tk)
    /\ UNCHANGED live

DecodeRow(tk) ==
    /\ tk.t \in {"row", "altrow"}
    /\ LET decoded == [t |-> tk.t, m |-> MetaOf(tk),
                       n |-> IF tk.t = "row" THEN Len(read) + 1 ELSE tk.n]
       IN IF MetaOf(tk) = NoMeta
          THEN /\ item' = Err(Protocol) /\ live' = FALSE
               /\ UNCHANGED read
          ELSE /\ item' = decoded /\ read' = Append(read, decoded)
               /\ UNCHANGED live
    /\ UNCHANGED <<context, lastError>>

\* is_eof: an error seen on the way is returned now.
EndItem == IF lastError = NoError THEN End ELSE Err(lastError)

AtEof ==
    /\ item' = EndItem /\ live' = FALSE
    /\ UNCHANGED <<context, read, lastError>>

\* The transport fails, the deadline passes, or the bytes are no valid token.
ReadFails ==
    /\ item' = Err(Protocol) /\ live' = FALSE
    /\ UNCHANGED <<context, read, lastError>>

\* The unfold has ended; Fuse keeps yielding None.
Fused == ~live /\ item' = End /\ UNCHANGED tokenStream

\* One poll of the token stream.
Unfold ==
    /\ pc \in Reading /\ item = Nothing
    /\ \/ /\ live /\ Len(read) < MaxTokens
          /\ \E tk \in Tokens : DecodePlain(tk) \/ DecodeRow(tk)
       \/ live /\ (AtEof \/ ReadFails)
       \/ Fused
    /\ UNCHANGED <<calls, pc, kind, stream, history, acc, outcome>>

-----------------------------------------------------------------------------
(* QueryStream and CommandStream *)

\* query() looks for the first result set before it returns the stream.
ForwardToMetadata ==
    /\ pc = "forward" /\ item # Nothing
    /\ pc' = CASE item.t = "err" -> "idle"
               [] item.t \in {"meta", "end"} -> "open"
               [] OTHER -> "forward"
    /\ item' = IF item.t = "meta" THEN item ELSE Nothing
    /\ told' = IF item.t = "err" THEN told \cup {item.n} ELSE told
    /\ UNCHANGED <<tokenStream, calls, kind, stream, got, start, ended, answer, acc, outcome>>

\* A slip of Peeked: the columns of the next result set are not taken over.
CachedColumns == columns

Peeked == IF item.t = "meta" THEN item.m ELSE columns

\* A slip of KeptPeeked: columns() consumes the metadata it has looked at.
KeptErrors == item.t \in {"err", "row"}

KeptPeeked == item.t \in {"err", "meta", "row"}

\* columns(): what it peeks at stays, unless it is neither metadata nor a row.
Columns ==
    /\ pc = "columns" /\ item # Nothing
    /\ item' = IF KeptPeeked THEN item ELSE Nothing
    /\ columns' = Peeked
    /\ IF item.t \in {"meta", "row", "end"}
       THEN pc' = "open" /\ answer' = Peeked
       ELSE /\ pc' = IF item.t = "err" THEN "open" ELSE "columns"
            /\ UNCHANGED answer
    /\ UNCHANGED <<tokenStream, calls, kind, index, got, start, told, ended, acc, outcome>>

\* TokenDone::rows and is_final.
Rows(tk) == IF tk.m = "count" THEN tk.n ELSE 0
IsFinal(tk) == tk.m = "final"

\* Tokens that tell how many rows a statement has affected.
CountsRows(tk) == \/ tk.t \in {"done", "doneinproc"}
                  \/ tk.t = "doneproc" /\ ~IsFinal(tk)

NextIndex == IF index = NoIndex THEN 0 ELSE index + 1

\* The item poll_next makes of a token: cols and idx for metadata and rows,
\* data a row's values (its position and how they were decoded) or a number.
Item(tk) ==
    [t |-> IF CountsRows(tk) THEN "affected" ELSE tk.t,
     cols |-> CASE tk.t = "meta" -> tk.m [] tk.t = "row" -> columns [] OTHER -> NoMeta,
     idx |-> CASE tk.t = "meta" -> NextIndex
               [] tk.t = "row" -> (IF index = NoIndex THEN 0 ELSE index)
               [] OTHER -> NoIndex,
     data |-> CASE tk.t = "row" -> <<tk.m, tk.n>>
                [] tk.t \in {"status", "value"} -> <<NoMeta, tk.n>>
                [] CountsRows(tk) -> <<NoMeta, Rows(tk)>>
                [] OTHER -> <<NoMeta, 0>>]

Yields(tk) ==
    \/ tk.t = "meta"
    \/ tk.t = "row" /\ columns # NoMeta
    \/ kind = "command" /\ (tk.t \in {"status", "value"} \/ CountsRows(tk))

\* A slip of Collect: a result set is opened by its first row.
CollectRowsOnly(a, it) ==
    CASE it.t = "meta" -> [a EXCEPT !.results = @ \o a.current, !.current = <<>>]
      [] it.t = "row" -> [a EXCEPT !.current =
                              IF @ = <<>> THEN << <<it>> >> ELSE << Append(@[1], it) >>]
      [] it.t = "status" -> [a EXCEPT !.status = it.data[2]]
      [] it.t = "value" -> [a EXCEPT !.values = Append(@, it.data[2])]
      [] it.t = "affected" -> [a EXCEPT !.counts = Append(@, it.data[2])]

\* collect_results and into_command_result, one item.
Collect(a, it) ==
    CASE it.t = "meta" -> [a EXCEPT !.results = @ \o a.current, !.current = << <<>> >>]
      [] it.t = "row" -> [a EXCEPT !.current =
                              IF @ = <<>> THEN << <<it>> >> ELSE << Append(@[1], it) >>]
      [] it.t = "status" -> [a EXCEPT !.status = it.data[2]]
      [] it.t = "value" -> [a EXCEPT !.values = Append(@, it.data[2])]
      [] it.t = "affected" -> [a EXCEPT !.counts = Append(@, it.data[2])]

\* The last result set is pushed when the stream ends.
Collected(a) == [a EXCEPT !.results = @ \o a.current, !.current = <<>>]

\* An error ends a collecting call, which returns nothing else; a stream in the
\* application's hands stays there.
PollFails(e) ==
    /\ told' = told \cup {e}
    /\ IF pc = "next" THEN pc' = "open" /\ UNCHANGED outcome
                      ELSE pc' = "idle" /\ outcome' = "err"
    /\ UNCHANGED <<stream, got, ended, acc>>

PollEnds ==
    /\ ended' = TRUE
    /\ IF pc = "next" THEN pc' = "open" /\ UNCHANGED <<acc, outcome>>
                      ELSE pc' = "idle" /\ acc' = Collected(acc) /\ outcome' = "ok"
    /\ UNCHANGED <<stream, got, told>>

PollYields ==
    /\ columns' = IF item.t = "meta" THEN item.m ELSE columns
    /\ index' = IF item.t = "meta" THEN NextIndex ELSE index
    /\ got' = Append(got, Item(item))
    /\ IF pc = "next" THEN pc' = "open" /\ UNCHANGED acc
                      ELSE acc' = Collect(acc, Item(item)) /\ UNCHANGED pc
    /\ UNCHANGED <<told, ended, outcome>>

\* poll_next, under next() or in the loop of a collecting call.
PollNext ==
    /\ pc \in {"next", "collect"} /\ item # Nothing
    /\ item' = Nothing
    /\ CASE item.t = "err" -> PollFails(item.n)
         [] item.t = "end" -> PollEnds
         [] Yields(item) -> PollYields
         [] item.t = "row" /\ ~Yields(item) -> PollFails(Protocol)
         [] OTHER -> UNCHANGED <<pc, stream, got, told, ended, acc, outcome>>
    /\ UNCHANGED <<tokenStream, calls, kind, start, answer>>

-----------------------------------------------------------------------------
(* Calls that fold the token stream to its end *)

\* fetch_column_metadata: the first result set is the table's; rows are its
\* collations (each has a name: one that had none would be left out).
FoldTable(a, tk) ==
    CASE tk.t = "meta" /\ a.cols = <<>> -> [a EXCEPT !.cols = <<tk.m>>]
      [] tk.t = "row" -> [a EXCEPT !.values = Append(@, tk.n)]
      [] OTHER -> a

\* query_run_for_metadata.
FoldTvp(a, tk) == IF tk.t = "meta" THEN [a EXCEPT !.cols = <<tk.m>>] ELSE a

\* ExecuteResult::new.
FoldExecute(a, tk) ==
    IF CountsRows(tk) THEN [a EXCEPT !.counts = Append(@, Rows(tk))] ELSE a

Fold(a, tk) == CASE kind = "table" -> FoldTable(a, tk)
                 [] kind = "tvp" -> FoldTvp(a, tk)
                 [] kind = "execute" -> FoldExecute(a, tk)

\* A table without columns is an error.
FoldEnds == /\ pc' = "idle"
            /\ IF kind = "table" /\ acc.cols = <<>>
               THEN outcome' = "err" /\ told' = told \cup {Protocol}
               ELSE outcome' = "ok" /\ UNCHANGED told
            /\ UNCHANGED acc

FoldStep ==
    /\ pc = "fold" /\ item # Nothing
    /\ item' = Nothing
    /\ CASE item.t = "err" -> /\ pc' = "idle" /\ outcome' = "err"
                              /\ told' = told \cup {item.n} /\ UNCHANGED acc
         [] item.t = "end" -> FoldEnds
         [] OTHER -> acc' = Fold(acc, item) /\ UNCHANGED <<pc, outcome, told>>
    /\ UNCHANGED <<tokenStream, calls, kind, stream, got, start, ended, answer>>

-----------------------------------------------------------------------------
(* The application *)

\* It polls the stream, asks for columns, or collects what is left.
Ask(what) ==
    /\ pc = "open"
    /\ what = "columns" => kind = "query"
    /\ pc' = what
    /\ start' = IF what = "collect" THEN Len(got) ELSE start
    /\ UNCHANGED <<tokenStream, calls, kind, item, stream, got, told, ended, answer, acc, outcome>>

\* The future of next() or columns() is dropped; the stream keeps what it read.
GiveUp ==
    /\ pc \in {"columns", "next"} /\ item = Nothing
    /\ pc' = "open"
    /\ UNCHANGED <<tokenStream, calls, kind, item, stream, history, acc, outcome>>

\* The stream, or a call that owns it, is dropped; the Context stays.
DropStream ==
    /\ pc \in {"forward", "open", "collect", "fold"}
    /\ item = Nothing \/ pc = "open"
    /\ pc' = "idle" /\ live' = FALSE /\ Fresh
    /\ UNCHANGED <<context, calls, kind>>

Next ==
    \/ \E k \in Streams \cup Folds : Call(k)
    \/ Unfold \/ ForwardToMetadata \/ Columns \/ PollNext \/ FoldStep
    \/ \E what \in {"columns", "next", "collect"} : Ask(what)
    \/ GiveUp \/ DropStream

Spec == Init /\ [][Next]_vars

-----------------------------------------------------------------------------
(* Properties *)

IsToken(x) == x.t \in Types

\* The tokens the consumer has taken: the one peeked at is not among them.
Taken == IF IsToken(item) THEN SubSeq(read, 1, Len(read) - 1) ELSE read

Positions(s, type) == {i \in 1..Len(s) : s[i].t = type}
Before(S, i) == {j \in S : j < i}

\* The columns of the result set that position i of s belongs to.
OwnColumns(s, i) ==
    LET metas == Before(Positions(s, "meta"), i)
    IN IF metas = {} THEN NoMeta ELSE s[Max(metas)].m

\* Rows are decoded with the metadata of their own result set, COMPUTE rows with
\* that of their own clause, whatever the Context holds from an earlier call or
\* from a COMPUTE clause between two rows (Context::set_last_meta, set_alt_meta).
DecodedWithOwnMetadata ==
    \A i \in 1..Len(read) :
       /\ (read[i].t = "row" /\ OwnColumns(read, i) # NoMeta)
             => read[i].m = OwnColumns(read, i)
       /\ LET own == {j \in Before(Positions(read, "altmeta"), i) : read[j].n = read[i].n}
          IN (read[i].t = "altrow" /\ own # {}) => read[i].m = read[Max(own)].m

\* The item a stream owes the application for position i of s; a row without
\* metadata of its own is owed as an error instead.
Owed(s, i) ==
    \/ s[i].t = "meta"
    \/ s[i].t = "row" /\ OwnColumns(s, i) # NoMeta
    \/ /\ kind = "command"
       /\ \/ s[i].t \in {"status", "value", "done", "doneinproc"}
          \/ s[i].t = "doneproc" /\ s[i].m # "final"

OwedPositions(s) == {i \in 1..Len(s) : Owed(s, i)}

\* The k-th smallest element of S.
Nth(S, k) == CHOOSE i \in S : Cardinality(Before(S, i)) = k - 1

\* The number, from 0, of the result set that position i of s belongs to.
ResultSet(s, i) == Cardinality({j \in Positions(s, "meta") : j <= i}) - 1

\* The item g tells the application what position i of s says.
Tells(g, s, i) ==
    CASE s[i].t = "meta" -> g.cols = s[i].m /\ g.idx = ResultSet(s, i)
      [] s[i].t = "row" -> /\ g.cols = OwnColumns(s, i)
                           /\ g.idx = ResultSet(s, i)
                           /\ g.data = <<g.cols, i>>
      [] OTHER -> g.data[2] = IF s[i].t \in {"status", "value"} \/ s[i].m = "count"
                              THEN s[i].n ELSE 0

\* What a stream hands out is what its response says, in order, each row with the
\* columns and the number of its own result set and nothing lost or repeated,
\* however next(), columns() and futures given up interleave (poll_next, columns,
\* forward_to_metadata).
ItemsFaithful ==
    kind \in Streams =>
       /\ Len(got) = Cardinality(OwedPositions(Taken))
       /\ \A k \in 1..Len(got) : Tells(got[k], Taken, Nth(OwedPositions(Taken), k))

\* columns() answers with the next result set's columns when it stands before
\* one, and with those of the rows it stands in otherwise (doc of columns()).
ColumnsAnswer ==
    [][(pc = "columns" /\ pc' = "open" /\ item # Nothing /\ item.t # "err") =>
          answer' = OwnColumns(read, Len(read) + 1)]_vars

\* A response with an ERROR token never ends as if it had succeeded, even if rows
\* follow the error or columns() was the first to meet it: before the end a poll
\* or the collecting call has returned an error, the first the server sent unless
\* the response was malformed (get_error, the end of try_unfold).
ErrorReported ==
    LET errors == Positions(read, "error")
        first == {read[i].n : i \in {j \in errors : j = Min(errors)}}
    IN /\ told \cap ServerErrors \subseteq first
       /\ ((ended \/ outcome = "ok") /\ Protocol \notin told) => first \subseteq told
       /\ ((ended \/ outcome = "ok") /\ first # {}) => told # {}

\* The elements of s at the positions S, in order.
Where(s, S) == [k \in 1..Cardinality(S) |-> s[Nth(S, k)]]
OfType(s, type) == Where(s, Positions(s, type))
Numbers(s) == [i \in 1..Len(s) |-> s[i].data[2]]

\* Every position in s at which `into_results` has to open a result set.
Openings(s) == Positions(s, "meta") \cup
               {i \in Positions(s, "row") : \A j \in 1..(i-1) : s[j].t \notin {"meta", "row"}}

\* The result sets of a sequence of items: one per opening, with the rows up to
\* the next one.
RowsOf(s, k) == {i \in Positions(s, "row") : Cardinality(Before(Openings(s), i + 1)) = k}
ResultSets(s) == [k \in 1..Cardinality(Openings(s)) |-> Where(s, RowsOf(s, k))]

\* The tokens of s that count rows.
Counted(s) == Where(s, {i \in 1..Len(s) : CountsRows(s[i])})

\* What a collecting call returns is what the response holds from where it was
\* called: every result set in its place, empty ones included, the last return
\* status, all values and counts in order (collect_results, into_command_result,
\* ExecuteResult::new, fetch_column_metadata, query_run_for_metadata).
ResultFaithful ==
    outcome = "ok" =>
    LET rest == SubSeq(got, start + 1, Len(got))
        statuses == OfType(rest, "status")
        metas == OfType(read, "meta")
        counted == Counted(read)
    IN CASE kind \in Streams ->
              /\ acc.results = ResultSets(rest)
              /\ acc.status = IF statuses = <<>> THEN 0 ELSE statuses[Len(statuses)].data[2]
              /\ acc.values = Numbers(OfType(rest, "value"))
              /\ acc.counts = Numbers(OfType(rest, "affected"))
         [] kind = "execute" ->
              acc.counts = [i \in 1..Len(counted) |-> IF counted[i].m = "count"
                                                      THEN counted[i].n ELSE 0]
         [] kind = "tvp" ->
              acc.cols = IF metas = <<>> THEN <<>> ELSE << metas[Len(metas)].m >>
         [] kind = "table" ->
              acc.cols = << metas[1].m >> /\ Len(acc.values) = Len(OfType(read, "row"))

==============================================================================
