----------------------------- MODULE ConnString -----------------------------
(***************************************************************************)
(* client/config/ado_parser.rs: the tokenizer of ADO.NET connection         *)
(* strings.  The byte loop with its look-ahead of one is written as an      *)
(* automaton folded over the input: a state that has seen a quote (or an    *)
(* `=` in a key) decides at the next character whether it was doubled.      *)
(* A character is a one-letter string; " " stands for ASCII whitespace and  *)
(* "?" for a character outside ASCII.                                       *)
(***************************************************************************)
EXTENDS Naturals, SequencesExt

Space == " "

\* to_ascii_lowercase, on the letters the instances use.
Lower(c) == IF c = "K" THEN "k" ELSE c

LOCAL Solid(s) == {i \in DOMAIN s : s[i] # Space}

\* trim_end_matches and trim_matches on ASCII whitespace.
TrimEnd(s) == IF Solid(s) = {} THEN <<>> ELSE SubSeq(s, 1, Max(Solid(s)))
Trim(s) == IF Solid(s) = {} THEN <<>>
           ELSE SubSeq(s, Min(Solid(s)), Max(Solid(s)))

Start == [mode |-> "between", key |-> <<>>, val |-> <<>>, quote |-> Space,
          pairs |-> <<>>]

Fail(p) == [p EXCEPT !.mode = "error"]

\* pairs.insert(key, value): the last of two equal keys wins.
Insert(p, v) == [p EXCEPT !.pairs = (p.key :> v) @@ @, !.mode = "between",
                          !.key = <<>>, !.val = <<>>]

Push(p, c) == [p EXCEPT !.val = Append(@, c)]

\* A key character; `;` before any `=` is an error.
KeyChar(p, c) ==
    CASE c = ";" -> Fail(p)
      [] c = "=" -> [p EXCEPT !.mode = "key="]
      [] OTHER -> [p EXCEPT !.mode = "key", !.key = Append(@, c)]

\* The separating `=` has been passed: the key is trimmed and lower-cased,
\* and must not be empty.
KeyDone(p) ==
    LET key == Trim(p.key)
    IN IF key = <<>> THEN Fail(p)
       ELSE [p EXCEPT !.key = [i \in DOMAIN key |-> Lower(key[i])],
                      !.mode = "value"]

\* The first character of a value selects how it is quoted.
ValueStart(p, c) ==
    CASE c = Space -> p
      [] c = ";" -> Insert(p, <<>>)
      [] c \in {"'", "\""} -> [p EXCEPT !.mode = "quoted", !.quote = c]
      [] c = "{" -> [p EXCEPT !.mode = "braced"]
      [] OTHER -> Push([p EXCEPT !.mode = "plain"], c)

\* skip_trailing: only whitespace between a closing quote and the next `;`.
Trailing(p, c) == CASE c = ";" -> Insert(p, p.val)
                    [] c = Space -> [p EXCEPT !.mode = "closed"]
                    [] OTHER -> Fail(p)

Step(p, c) ==
    CASE p.mode = "error" -> p
      [] p.mode = "between" -> IF c \in {";", Space} THEN p ELSE KeyChar(p, c)
      [] p.mode = "key" -> KeyChar(p, c)
      [] p.mode = "key=" ->
           IF c = "=" THEN [p EXCEPT !.mode = "key", !.key = Append(@, c)]
           ELSE LET q == KeyDone(p)
                IN IF q.mode = "error" THEN q ELSE ValueStart(q, c)
      [] p.mode = "value" -> ValueStart(p, c)
      [] p.mode = "quoted" ->
           IF c = p.quote THEN [p EXCEPT !.mode = "quote?"] ELSE Push(p, c)
      [] p.mode = "quote?" ->
           IF c = p.quote THEN Push([p EXCEPT !.mode = "quoted"], c)
                          ELSE Trailing(p, c)
      [] p.mode = "braced" ->
           IF c = "}" THEN [p EXCEPT !.mode = "closed"] ELSE Push(p, c)
      [] p.mode = "closed" -> Trailing(p, c)
      [] p.mode = "plain" ->
           IF c = ";" THEN Insert(p, TrimEnd(p.val)) ELSE Push(p, c)

\* The end of the input ends the pair that is open, unless a key has no `=`
\* or a quote or brace is not closed.
Finish(p) ==
    CASE p.mode \in {"key", "quoted", "braced"} -> Fail(p)
      [] p.mode = "key=" -> LET q == KeyDone(p)
                            IN IF q.mode = "error" THEN q ELSE Insert(q, <<>>)
      [] p.mode \in {"value", "plain"} -> Insert(p, TrimEnd(p.val))
      [] p.mode \in {"quote?", "closed"} -> Insert(p, p.val)
      [] OTHER -> p

\* parse: the pairs, or an error for what is malformed or not ASCII.
Parse(input) ==
    IF \E i \in DOMAIN input : input[i] = "?" THEN Fail(Start)
    ELSE Finish(FoldLeft(Step, Start, input))

-----------------------------------------------------------------------------
(* What the documentation of Config::from_ado_string tells users to write.  *)

\* Wrap in a quote and double the quotes inside; braces hold anything but
\* `}`; everything without structure may stand as it is.  The rules do not
\* say that an unquoted value must not begin with `=`: it would be read as
\* the second half of a doubled `==`, as part of the key.
Doubled(q, v) == FlattenSeq([i \in DOMAIN v |->
                               IF v[i] = q THEN <<q, q>> ELSE <<v[i]>>])

Written(style, v) ==
    CASE style \in {"'", "\""} -> <<style>> \o Doubled(style, v) \o <<style>>
      [] style = "{" -> <<"{">> \o v \o <<"}">>
      [] style = Space -> v

Allowed(style, v) ==
    CASE style \in {"'", "\""} -> TRUE
      [] style = "{" -> "}" \notin Range(v)
      [] style = Space -> /\ ";" \notin Range(v)
                          /\ v # <<>> => /\ v[1] \notin {"'", "\"", "{", "=",
                                                           Space}
                                         /\ v[Len(v)] # Space

\* A value written by those rules comes back unchanged, whatever precedes
\* and follows it: nothing of it leaks into its neighbours and the last of
\* two equal keys wins (Config::from_ado_string promises both).
RoundTrips(style, v, before, after) ==
    Allowed(style, v) =>
        LET p == Parse(before \o <<"K", "=">> \o Written(style, v) \o after)
        IN p.mode = "between" /\ <<"k">> \in DOMAIN p.pairs
           /\ p.pairs[<<"k">>] = v

=============================================================================
