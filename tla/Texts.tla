------------------------------- MODULE Texts -------------------------------
(***************************************************************************)
(* Texts an application hands to the crate, one character after the other:  *)
(* a name that goes into SQL (SqlText), or a value that is written into an  *)
(* ADO.NET connection string by the documented rules (ConnString).          *)
(***************************************************************************)
EXTENDS SqlText, ConnString

CONSTANTS
    NameChars, ValueChars,  \* the characters of each
    MaxText                 \* how many are typed

VARIABLES
    purpose,    \* "name", "value", or "none"
    typed       \* the text so far

textVars == <<purpose, typed>>

TextIdle == purpose = "none" /\ typed = <<>>
TextInit == purpose \in {"name", "value"} /\ typed = <<>>

Type(c) ==
    /\ purpose # "none" /\ Len(typed) < MaxText
    /\ c \in IF purpose = "name" THEN NameChars ELSE ValueChars
    /\ typed' = Append(typed, c)
    /\ UNCHANGED purpose

TextNext == \E c \in NameChars \cup ValueChars : Type(c)

\* validate_sql_identifier lets a text into SQL only if the server reads all of
\* it as one name (nothing behind a closing bracket, no bracket left open, no
\* statement after the name), and every name.  Texts with type arguments or with
\* a bracket inside a word are left out; the empty text and `*` count as names.
NamesOnly == purpose = "name" => NameOrNot(typed)

\* sp_tablecollations is asked about the table that INSERT BULK names, however
\* the name is quoted (table_collations_sql, split_multipart_identifier,
\* quote_identifier).
AsksAboutOwnTable == purpose = "name" => AsksAboutTable(typed)

\* A value written by the documented rules comes back unchanged, whatever
\* stands before and behind it (ado_parser).
ValueUnchanged ==
    purpose = "value" =>
        \A style \in {"'", "\"", "{", Space} :
        \A before \in {<<>>, <<"K", "=", "x", ";">>, <<"j", "=", "'", ";", "'", ";", Space>>} :
        \A after \in {<<>>, <<";">>, <<Space, ";", "j", "=", "{", "}">>} :
            RoundTrips(style, typed, before, after)

\* Text an application hands over means to its reader, the SQL server or the
\* parser of connection strings, what it meant to the application.
TextsKeepMeaning == NamesOnly /\ AsksAboutOwnTable /\ ValueUnchanged

=============================================================================
