----------------------------- MODULE Statements -----------------------------
(***************************************************************************)
(* What an application asks for, from the call to what the server reads:    *)
(* query.rs, command.rs and the requests of client.rs (queries, procedures  *)
(* with table-valued parameters, batches, transactions, bulk loads).        *)
(*                                                                         *)
(* Statements run on a connection that answers; what may go wrong there is  *)
(* TdsConnection's subject.  A parameter's name is <<units, number>>; the   *)
(* names of a bulk load, which end up in SQL, are texts of SqlText.         *)
(***************************************************************************)
EXTENDS Requests, SqlText

CONSTANTS
    Inputs,         \* values to bind
    InputNames,     \* names of a procedure's parameters
    TableTypes,     \* [db_type, cols, rows]: table types, their columns as
                    \* the server describes them, and rows to send
    MaxBound,       \* how many parameters are bound
    Schemas,        \* tables of the server: [table, ask, columns, selected]
    Descriptor      \* the transaction the session is in

VARIABLES
    stmt,           \* the Query or Command being built
    request,        \* what its encoding gave
    arrived         \* what the server reads out of it

statementVars == <<stmt, request, arrived>>

NoStmt == [kind |-> "none"]
NoScalar == [k |-> "none", v |-> <<>>]
Unsent == [kind |-> "unsent"]
StatementIdle == stmt = NoStmt /\ request = Unsent /\ arrived = Unsent

\* Names that the crate makes itself.
StmtName == <<2, 98>>
ParamsName == <<2, 99>>
Placeholder(i) == <<3, 100 + i>>
Anonymous == <<0, 0>>
ExecuteSQL == 10
ByRefValue == 1
DeclarationUnits == 4      \* the length of one declaration in `params`

-----------------------------------------------------------------------------
(* query.rs                                                                 *)

NewQuery(sql) ==
    stmt = NoStmt /\ stmt' = [kind |-> "query", sql |-> sql, params |-> <<>>]
    /\ UNCHANGED <<request, arrived>>

bind(d) ==
    /\ stmt.kind = "query" /\ request = Unsent /\ Len(stmt.params) < MaxBound
    /\ stmt' = [stmt EXCEPT !.params = Append(@, d)]
    /\ UNCHANGED <<request, arrived>>

Scalarly(name, flags, d) == [name |-> name, flags |-> flags, value |-> d, table |-> <<>>]

\* rpc_params
rpc_params(sql) == <<Scalarly(StmtName, 0, [k |-> "String", v |-> sql]),
                     Scalarly(ParamsName, 0, [k |-> "I32", v |-> <<0>>])>>

\* The parameter named "params" gets the declarations.
with_declarations(ps, units) ==
    [i \in DOMAIN ps |-> IF i = Min({j \in DOMAIN ps : ps[j].name = ParamsName})
        THEN [ps[i] EXCEPT !.value = [k |-> "String", v |-> <<units, Ascii>>]] ELSE ps[i]]

\* rpc_perform_query: each parameter is named and declared.
rpc_perform_query(sql, params) ==
    LET named == [i \in DOMAIN params |-> Scalarly(Placeholder(i), 0, params[i])]
    IN [desc |-> Descriptor, proc |-> [id |-> ExecuteSQL, name |-> Anonymous],
        params |-> with_declarations(rpc_params(sql) \o named,
                                     DeclarationUnits * Len(params))]

\* execute and query
ExecQuery ==
    /\ stmt.kind = "query" /\ request = Unsent
    /\ request' = [kind |-> "rpc",
                   bytes |-> RpcEncode(rpc_perform_query(stmt.sql, stmt.params)),
                   declared |-> [i \in DOMAIN stmt.params |-> type_name(stmt.params[i])]]
    /\ UNCHANGED <<stmt, arrived>>

-----------------------------------------------------------------------------
(* command.rs                                                               *)

NewCommand(proc_name) ==
    stmt = NoStmt /\ stmt' = [kind |-> "command", name |-> proc_name, params |-> <<>>]
    /\ UNCHANGED <<request, arrived>>

\* bind_param, bind_out_param, bind_table, bind_table_with_dbtype
Bound(param) ==
    /\ stmt.kind = "command" /\ request = Unsent /\ Len(stmt.params) < MaxBound
    /\ stmt' = [stmt EXCEPT !.params = Append(@, param)]
    /\ UNCHANGED <<request, arrived>>
bind_param(name, d) == Bound([name |-> name, out |-> FALSE, data |-> d, of |-> <<>>])
bind_out_param(name, d) == Bound([name |-> name, out |-> TRUE, data |-> d, of |-> <<>>])
bind_table(name, type) == Bound([name |-> name, out |-> FALSE, data |-> NoScalar,
                                of |-> <<type>>])

\* TypeInfoTvp::new: the schema is what stands before the first dot.
SplitOnce(db_type) ==
    LET dots == {i \in DOMAIN db_type : db_type[i] = "."}
        at == Min(dots)
    IN IF dots = {} THEN <<<<>>, db_type>>
       ELSE <<SubSeq(db_type, 1, at - 1), SubSeq(db_type, at + 1, Len(db_type))>>

\* A slip: every parameter is an input.
RpcFlagsIn(p) == 0
RpcFlags(p) == IF p.out THEN ByRefValue ELSE 0

\* build_rpc_params: one RPC parameter for each that was bound.  The metadata
\* of a table comes from the server, for the type that is named.
RpcParamOf(p) ==
    LET type == p.of[1]
        split == SplitOnce(type.db_type)
        counted(text) == <<Len(text), text>>
    IN IF p.of = <<>> THEN Scalarly(p.name, RpcFlags(p), p.data)
       ELSE [name |-> p.name, flags |-> RpcFlags(p), value |-> NoScalar,
             table |-> [schema |-> counted(split[1]), name |-> counted(split[2]),
                        cols |-> type.cols, rows |-> type.rows]]

Valid(p) == p.of = <<>> \/ Accepted(p.of[1].db_type)

\* exec: validation, one metadata query per table, rpc_run_command.
ExecCommand ==
    /\ stmt.kind = "command" /\ request = Unsent
    /\ request' =
         [kind |-> "rpc", declared |-> <<>>,
          bytes |-> IF \E i \in DOMAIN stmt.params : ~Valid(stmt.params[i])
                    THEN Err("invalid type name")
                    ELSE RpcEncode([desc |-> Descriptor,
                                    proc |-> [id |-> 0, name |-> stmt.name],
                                    params |-> [i \in DOMAIN stmt.params |->
                                                    RpcParamOf(stmt.params[i])]])]
    /\ UNCHANGED <<stmt, arrived>>

-----------------------------------------------------------------------------
(* Transactions and batches (client.rs)                                     *)

Levels == 0..5

\* begin_transaction_with_isolation, commit_transaction, rollback_transaction,
\* save_transaction
Transact(kind, level, name) ==
    /\ stmt = NoStmt
    /\ kind # "begin" => level = 0
    /\ kind # "save" => name = Anonymous
    /\ stmt' = [kind |-> "transaction", op |-> kind, level |-> level, name |-> name]
    /\ request' = [kind |-> "transaction", declared |-> <<>>,
                   bytes |-> TransactionEncode(Descriptor, kind, level, name)]
    /\ UNCHANGED arrived

simple_query(text) ==
    /\ stmt = NoStmt
    /\ stmt' = [kind |-> "batch", sql |-> text]
    /\ request' = [kind |-> "batch", declared |-> <<>>,
                   bytes |-> Ok(BatchEncode(Descriptor, text))]
    /\ UNCHANGED arrived

-----------------------------------------------------------------------------
(* Bulk load (client.rs)                                                    *)

declares_collation(ti) ==
    ti.c = "sized" /\ ti.ty \in {"BigChar", "BigVarChar", "Text", "NChar", "NVarchar", "NText"}

\* Letters, digits and underscores.
validate_collation_name(name) == name # <<>> /\ \A i \in DOMAIN name : name[i] \in {"a", "A", "_"}

bulk_column_is_target(col, keep_identity) ==
    is_updateable(col) \/ (keep_identity /\ is_identity(col))

\* bulk_column_list: every column with its type and, for a string, the
\* collation the table has for it.
bulk_column_list(columns, collations) ==
    LET entry(col) == [name |-> col.name, type |-> ColumnSql(col.ti),
                       collate |-> IF declares_collation(col.ti)
                                   THEN column_collation(col.name, collations) ELSE <<>>]
    IN [i \in DOMAIN columns |-> entry(columns[i])]

\* bulk_insert_with_options: the names are checked, the server is asked for
\* the columns and the collations of the table, and told what will come.
bulk_insert_with_options(schema, options, hints) ==
    LET targets == SelectSeq(schema.selected, LAMBDA col :
                       bulk_column_is_target(col, "KEEP_IDENTITY" \in options))
        collations == [i \in DOMAIN schema.columns |->
                           <<schema.columns[i].name, schema.columns[i].collation>>]
        list == bulk_column_list(targets, collations)
    IN /\ stmt = NoStmt
       /\ stmt' = [kind |-> "bulk", schema |-> schema, options |-> options]
       /\ request' =
            [kind |-> "bulk",
             bytes |-> IF \/ ~Accepted(schema.table)
                          \/ \E i \in DOMAIN schema.ask : ~Accepted(schema.ask[i])
                          \/ \E i \in DOMAIN hints : ~Accepted(hints[i])
                       THEN Err("invalid name")
                       ELSE IF \E i \in DOMAIN list : /\ list[i].collate # <<>>
                                                      /\ ~validate_collation_name(list[i].collate)
                       THEN Err("invalid collation") ELSE Ok(<<>>),
             asked |-> table_collations_sql(schema.table, 2008),
             list |-> list, clauses |-> BulkClauses(options, hints),
             metadata |-> [i \in DOMAIN targets |->
                               [targets[i] EXCEPT !.table = schema.table]]]
       /\ UNCHANGED arrived

-----------------------------------------------------------------------------
(* The server's reading of a request.                                       *)

\* The headers of a request; `v` is the transaction descriptor in them.
Headers(r) ==
    On(Take(Take(Take(Take(r, 4), 4), 2), 8), LAMBDA desc :
    On(Take(desc, 4), LAMBDA t : Yield(t, desc.v)))
\* The rows of a table-valued parameter, up to its end token.
TvpRows(r, tis) ==
    LET next(s, u) ==
            IF s.bad \/ s.v.done THEN s
            ELSE On(Take(s, 1), LAMBDA token :
                     CASE token.v = 0 -> Yield(token, [s.v EXCEPT !.done = TRUE])
                       [] token.v = 1 -> On(RowDecode(token, tis), LAMBDA row :
                              Yield(row, [s.v EXCEPT !.rows = Append(@, row.v)]))
                       [] OTHER -> Bad(r))
    IN FoldLeft(next, Yield(r, [done |-> FALSE, rows |-> <<>>]), r.rest)

TvpRead(r) ==
    LET column(s) == On(BaseDecode(s), LAMBDA base : On(read_b_varchar(base), LAMBDA t :
                         Yield(t, base.v.ti)))
    IN On(read_b_varchar(Take(Take(r, 1), 1)), LAMBDA schema :
       On(read_b_varchar(schema), LAMBDA name : On(Take(name, 2), LAMBDA count :
       On(Repeat(column, count, IF count.v = U16Max THEN 0 ELSE count.v), LAMBDA cols :
       On(Take(cols, 1), LAMBDA start : On(TvpRows(start, cols.v), LAMBDA t :
           Yield(t, [schema |-> schema.v, name |-> name.v, rows |-> t.v.rows])))))))

RpcParamRead(r) ==
    LET table(s) == s.rest # <<>> /\ Head(s.rest) = <<1, 243>>
    IN On(read_b_varchar(r), LAMBDA name : On(Take(name, 1), LAMBDA flags :
       On(IF table(flags) THEN TvpRead(flags)
          ELSE On(TypeInfoDecode(flags), LAMBDA ti : ColumnDataDecode(ti, ti.v)), LAMBDA d :
           Yield(d, [name |-> name.v, flags |-> flags.v, table |-> table(flags),
                     value |-> d.v]))))

\* A procedure by its number or by its name.
ProcRead(r) ==
    IF r.rest # <<>> /\ Head(r.rest)[1] = 4
    THEN On(Take(r, 4), LAMBDA id : Yield(id, [id |-> id.v \div Holds(2), name |-> Anonymous]))
    ELSE On(read_us_varchar(r), LAMBDA name : Yield(name, [id |-> 0, name |-> name.v]))

RpcRead(r) ==
    On(Headers(r), LAMBDA desc : On(ProcRead(desc), LAMBDA proc :
    On(Take(proc, 2), LAMBDA at : On(RepeatToEnd(RpcParamRead, at), LAMBDA t :
        Yield(t, [desc |-> desc.v, id |-> proc.v.id, name |-> proc.v.name,
                  params |-> t.v])))))

TransactionRead(r) ==
    On(Headers(r), LAMBDA desc : On(Take(desc, 2), LAMBDA type :
    On(IF type.v = TransactionType.begin THEN Take(type, 1) ELSE Yield(type, 0), LAMBDA level :
    On(read_b_varchar(level), LAMBDA name :
    On(IF type.v \in {TransactionType.commit, TransactionType.rollback}
       THEN Take(name, 1) ELSE name, LAMBDA t :
        Yield(t, [desc |-> desc.v, type |-> type.v, level |-> level.v, name |-> name.v]))))))

BatchRead(r) ==
    On(Headers(r), LAMBDA desc :
    On(IF desc.rest = <<>> THEN Yield(desc, 0) ELSE Take(desc, Head(desc.rest)[1]), LAMBDA t :
        Yield(t, [desc |-> desc.v, text |-> t.v])))

RequestRead(kind, r) ==
    CASE kind = "rpc" -> RpcRead(r)
      [] kind = "transaction" -> TransactionRead(r)
      [] kind = "batch" -> BatchRead(r)

ServerReads ==
    /\ request.kind \in {"rpc", "transaction", "batch"} /\ arrived = Unsent
    /\ ~IsErr(request.bytes)
    /\ \E t \in {RequestRead(request.kind, Reader(request.bytes.ok))} :
         arrived' = IF t.bad \/ t.rest # <<>> THEN [kind |-> "unreadable"]
                    ELSE [kind |-> "read", v |-> t.v]
    /\ UNCHANGED <<stmt, request>>

-----------------------------------------------------------------------------
(* Properties                                                               *)

\* A value as it was bound; a NULL without a type of its own is a NULL.
Same(got, d) == got = d \/ (got.v = <<>> /\ d.v = <<>>)

TooLong(name) == name[1] > U8Max

\* The rows of a table under the types the server gave, a fixed type as its
\* nullable one.
SameRows(got, rows) ==
    /\ Len(got) = Len(rows)
    /\ \A j \in DOMAIN rows : /\ Len(got[j]) = Len(rows[j])
                              /\ \A i \in DOMAIN rows[j] : Same(got[j][i], rows[j][i])

\* The server takes the two texts that come with a table to be the names of the
\* schema and the type themselves: no text is taken apart there, no bracket off.
NamesType(table, db_type) ==
    LET parts == Parts(db_type)
    IN /\ IF Len(parts) = 1 THEN table.schema[1] = 0
          ELSE table.schema[2] = FromEnd(parts, 1)
       /\ table.name[2] = FromEnd(parts, 0)

\* A type name of one part or two, without brackets.
PlainType(db_type) ==
    /\ \A i \in DOMAIN db_type : db_type[i] \notin {"[", "]"}
    /\ Len(Parts(db_type)) <= 2

\* What the server reads is what the application built: the statement and the
\* procedure, every parameter once, in its order, under its name, by reference
\* exactly if it is an output, with its value or all the rows of its table;
\* each placeholder declared; the transaction the session is in.  A table
\* names its type if that is plainly written (TypeNamesArrive, for other names,
\* does not hold).  What is refused has a name that is too long or is not one
\* (Query, Command, TokenRpcRequest, TypeInfoTvp, TransactionManagerRequest,
\* BatchRequest).
RequestsArrive ==
    /\ request.kind = "rpc" /\ IsErr(request.bytes) =>
         \E i \in DOMAIN stmt.params :
             /\ stmt.kind = "command"
             /\ \/ TooLong(stmt.params[i].name) \/ ~Valid(stmt.params[i])
                \/ stmt.params[i].of # <<>> /\ \E part \in Range(SplitOnce(stmt.params[i].of[1].db_type)) :
                        TooLong(<<Len(part)>>)
    /\ arrived # Unsent =>
         /\ arrived.kind = "read"
         /\ arrived.v.desc = Descriptor
         /\ CASE stmt.kind = "query" ->
                   LET ps == arrived.v.params
                       said == ps[2].value.v[1]
                   IN /\ arrived.v.id = ExecuteSQL
                      /\ Len(ps) = 2 + Len(stmt.params) /\ said = DeclarationUnits * Len(stmt.params)
                      /\ ps[1].name = StmtName /\ ps[1].value = [k |-> "String", v |-> stmt.sql]
                      /\ ps[2].name = ParamsName /\ ps[2].value.k = "String"
                      /\ \A i \in DOMAIN stmt.params :
                           /\ ps[2 + i].name = Placeholder(i) /\ ps[2 + i].flags = 0
                           /\ Same(ps[2 + i].value, stmt.params[i])
              [] stmt.kind = "command" ->
                   LET ps == arrived.v.params
                   IN /\ arrived.v.id = 0 /\ arrived.v.name = stmt.name
                      /\ Len(ps) = Len(stmt.params)
                      /\ \A i \in DOMAIN ps :
                           LET p == stmt.params[i]
                           IN /\ ps[i].name = p.name
                              /\ (ps[i].flags = ByRefValue) = p.out
                              /\ ps[i].table = (p.of # <<>>)
                              /\ IF p.of = <<>> THEN Same(ps[i].value, p.data)
                                 ELSE /\ PlainType(p.of[1].db_type) =>
                                             NamesType(ps[i].value, p.of[1].db_type)
                                      /\ SameRows(ps[i].value.rows, p.of[1].rows)
              [] stmt.kind = "transaction" ->
                   /\ arrived.v.type = TransactionType[stmt.op]
                   /\ arrived.v.level = stmt.level /\ arrived.v.name = stmt.name
              [] stmt.kind = "batch" -> stmt.sql[1] = 0 \/ arrived.v.text = stmt.sql[2]

\* INSERT BULK announces exactly the columns that the rows will have, in their
\* order: those that can be written, an identity only when it is to be kept;
\* and every string column with the collation that this very column has in
\* the table, or with none when it cannot be told, never with another
\* column's (bulk_insert_with_options, bulk_column_list, column_collation).
BulkDeclares ==
    request.kind = "bulk" /\ ~IsErr(request.bytes) =>
        LET schema == stmt.schema
            meant(name) ==
                LET exact == {i \in DOMAIN schema.columns : schema.columns[i].name = name}
                    like == {i \in DOMAIN schema.columns :
                                LowerName(schema.columns[i].name) = LowerName(name)}
                IN IF exact # {} THEN exact ELSE like
        IN /\ Len(request.list) = Len(request.metadata)
           /\ \A i \in DOMAIN request.list :
                LET entry == request.list[i]
                    col == request.metadata[i]
                IN /\ entry.name = col.name
                   /\ is_updateable(col) \/ "KEEP_IDENTITY" \in stmt.options
                   /\ entry.collate # <<>> =>
                        \A j \in meant(col.name) : schema.columns[j].collation = entry.collate
           /\ \A i \in DOMAIN schema.selected :
                is_updateable(schema.selected[i]) =>
                    \E j \in DOMAIN request.metadata : request.metadata[j].name = schema.selected[i].name

\* Queries, commands, transaction requests and INSERT BULK statements reach
\* the server as the application put them together, or are refused.
StatementsArrive == RequestsArrive /\ BulkDeclares

\* A table parameter reaches the server under the type its name denotes:
\* "multi-part names (`dbo.MyType`) and already-bracketed names (`[my type]`)
\* keep working unchanged" (command.rs, validate_db_type_identifier).
TypeNamesArrive ==
    stmt.kind = "command" /\ arrived.kind = "read" =>
        \A i \in DOMAIN stmt.params :
            stmt.params[i].of # <<>> =>
                NamesType(arrived.v.params[i].value, stmt.params[i].of[1].db_type)

=============================================================================
