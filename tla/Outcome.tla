------------------------------ MODULE Outcome ------------------------------
(***************************************************************************)
(* Option and Result, as the other modules write them: an Option holding v *)
(* is <<v>>, a Result is a record with a field `ok` or a field `error`.     *)
(***************************************************************************)
Some(v) == <<v>>
Ok(v) == [ok |-> v]
Err(what) == [error |-> what]
IsErr(r) == "error" \in DOMAIN r

=============================================================================
