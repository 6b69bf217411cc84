------------------------------ MODULE SqlText ------------------------------
(***************************************************************************)
(* The SQL that client.rs and command.rs put together around names which    *)
(* T-SQL does not let them send as parameters: table, column and type names *)
(* of a bulk load or a table-valued parameter.                              *)
(*                                                                         *)
(* A text is a sequence of one-letter strings.  "^" stands for a control    *)
(* character, "-" for every other character without a meaning of its own.   *)
(***************************************************************************)
EXTENDS Naturals, SequencesExt

\* Letters, digits and the punctuation of names and types.
Regular == {"a", "A", "_", ".", "@", "#", "*"}

\* A slip: a name may end inside brackets.
EndsInBracket(m) == m.mode \in {"out", "in", "closing", "shut"} /\ m.depth = 0

\* Where the scan of validate_sql_identifier may end.
EndsWell(m) == m.mode \in {"out", "closing", "shut"} /\ m.depth = 0

\* One character of the scan.  "closing": a `]` that is doubled, or ends its
\* part; "shut": behind the `)` that closes a type's arguments.
ScanChar(m, c) ==
    CASE m.mode = "bad" -> m
      [] m.mode = "in" -> IF c = "]" THEN [m EXCEPT !.mode = "closing"] ELSE m
      [] m.mode = "closing" ->
           [m EXCEPT !.mode = IF c = "]" THEN "in" ELSE IF c = "." THEN "out" ELSE "bad"]
      [] m.mode = "shut" -> [m EXCEPT !.mode = "bad"]
      [] m.mode = "out" ->
           CASE c = "[" -> [m EXCEPT !.mode = "in"]
             [] c = "(" -> [m EXCEPT !.depth = @ + 1]
             [] c = ")" /\ m.depth > 0 ->
                  [mode |-> IF m.depth = 1 THEN "shut" ELSE "out", depth |-> m.depth - 1]
             [] c \in {" ", ","} /\ m.depth > 0 -> m
             [] c \in Regular -> m
             [] OTHER -> [m EXCEPT !.mode = "bad"]

\* validate_sql_identifier
Accepted(ident) ==
    /\ \A i \in DOMAIN ident : ident[i] # "^"
    /\ EndsWell(FoldLeft(ScanChar, [mode |-> "out", depth |-> 0], ident))

\* split_multipart_identifier: the parts without their brackets.
Parts(ident) ==
    LET put(s, c) == [s EXCEPT !.parts[Len(s.parts)] = Append(@, c), !.mode =
                         IF s.mode = "closing" THEN "in" ELSE @]
        next(s, c) ==
            CASE s.mode = "in" -> IF c = "]" THEN [s EXCEPT !.mode = "closing"] ELSE put(s, c)
              [] s.mode = "closing" /\ c = "]" -> put(s, c)
              [] OTHER -> IF c = "[" THEN [s EXCEPT !.mode = "in"]
                          ELSE IF c = "." THEN [mode |-> "out", parts |-> Append(s.parts, <<>>)]
                          ELSE put([s EXCEPT !.mode = "out"], c)
    IN FoldLeft(next, [mode |-> "out", parts |-> <<<<>>>>], ident).parts

Twice(q, name) ==
    FlattenSeq([i \in DOMAIN name |-> IF name[i] = q THEN <<q, q>> ELSE <<name[i]>>])

quote_identifier(name) == <<"[">> \o Twice("]", name) \o <<"]">>

\* The n-th part from the end, or nothing.
FromEnd(parts, n) == IF n < Len(parts) THEN parts[Len(parts) - n] ELSE <<>>

\* A name inside a string literal.
Literal(part) == IF part = <<>> THEN <<>> ELSE quote_identifier(Twice("'", part))

\* table_collations_sql: the database to ask, the procedure, and the text of
\* the literal.
table_collations_sql(table, version) ==
    LET parts == Parts(table)
        name == FromEnd(parts, 0)
        schema == FromEnd(parts, 1)
        catalog == FromEnd(parts, 2)
    IN [catalog |-> IF catalog # <<>> THEN quote_identifier(catalog)
                    ELSE IF name # <<>> /\ name[1] = "#" THEN <<"tempdb">> ELSE <<>>,
        procedure |-> IF version >= 2008 THEN "sp_tablecollations_100"
                                         ELSE "sp_tablecollations_90",
        literal |-> Literal(schema) \o <<".">> \o Literal(name)]

-----------------------------------------------------------------------------
(* Columns of a bulk load                                                   *)

\* to_lowercase
LowerName(name) == [i \in DOMAIN name |-> IF name[i] = "A" THEN "a" ELSE name[i]]

\* column_collation: by exact name, else by a unique name in another case.
column_collation(name, collations) ==
    LET exact == {i \in DOMAIN collations : collations[i][1] = name}
        like == {i \in DOMAIN collations : LowerName(collations[i][1]) = LowerName(name)}
    IN IF exact # {} THEN collations[Min(exact)][2]
       ELSE IF Cardinality(like) = 1 THEN collations[CHOOSE i \in like : TRUE][2]
       ELSE <<>>

\* build_insert_bulk_sql: the options that have a keyword, in their order, and
\* the order hints.
BulkClauses(options, hints) ==
    SelectSeq(<<"CHECK_CONSTRAINTS", "TABLOCK", "KEEP_NULLS", "FIRE_TRIGGERS">>,
              LAMBDA o : o \in options)
    \o (IF hints = <<>> THEN <<>> ELSE <<"ORDER">>)

-----------------------------------------------------------------------------
(* What the server makes of it                                              *)

\* A name is parts joined by dots, each written plainly or in brackets.
WrittenName(parts, bracketed) ==
    LET part(i) == (IF i = 1 THEN <<>> ELSE <<".">>) \o
                   (IF bracketed[i] THEN quote_identifier(parts[i]) ELSE parts[i])
    IN FlattenSeq([i \in DOMAIN parts |-> part(i)])

\* What of a text is a name: some way of writing its own parts.
IsName(ident) ==
    LET parts == Parts(ident)
        plain(part) == \A i \in DOMAIN part : part[i] \in Regular
    IN \E bracketed \in [DOMAIN parts -> BOOLEAN] :
          /\ WrittenName(parts, bracketed) = ident
          /\ \A i \in DOMAIN parts : bracketed[i] \/ plain(parts[i])

\* A quoted literal read back, and the names in it.
Unquoted(text) ==
    FoldLeft(LAMBDA s, c : IF s.half THEN [out |-> Append(s.out, c), half |-> FALSE]
                           ELSE IF c = "'" THEN [s EXCEPT !.half = TRUE]
                           ELSE [s EXCEPT !.out = Append(@, c)],
             [out |-> <<>>, half |-> FALSE], text)

\* A text is accepted if and only if it is a name: one that is written in any of
\* T-SQL's ways passes, and nothing passes that would be read as a name and
\* something behind it.  Not said of texts with type arguments or with a bracket
\* in the middle of a part, which is let through (see the README); an empty part
\* and `*` count as names.
NameOrNot(ident) ==
    LET midword == \E i \in DOMAIN ident : i > 1 /\ ident[i] = "[" /\ ident[i - 1] # "."
                      /\ FoldLeft(ScanChar, [mode |-> "out", depth |-> 0],
                                  SubSeq(ident, 1, i - 1)).mode = "out"
        typed == \E i \in DOMAIN ident : ident[i] \in {"(", ")"}
    IN midword \/ typed \/ (Accepted(ident) <=> IsName(ident) /\ "^" \notin Range(ident))

\* The procedure is asked about the table that the statement names: schema
\* and name survive the quoting, and the literal ends where it should.
AsksAboutTable(ident) ==
    LET q == table_collations_sql(ident, 2008)
        read == Unquoted(q.literal)
        parts == Parts(ident)
    IN Accepted(ident) =>
         /\ ~read.half
         /\ Parts(read.out) = <<FromEnd(parts, 1), FromEnd(parts, 0)>>
         /\ q.catalog # <<>> /\ q.catalog # <<"tempdb">> =>
                Parts(q.catalog) = <<FromEnd(parts, 2)>>

=============================================================================
