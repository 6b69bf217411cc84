--------------------------- MODULE MCTdsConnection ---------------------------
(* TdsConnection with the responses a small server gives.                   *)
EXTENDS TdsConnection

\* A row set (which execute reads over), a failed statement, and batches that
\* change the transaction.
SmallResponses ==
    [o \in Ops |->
        CASE o = "query"    -> {<<"meta", "rowh", "rowt", "done">>, <<"fail">>,
                                <<"meta", "done", "begin", "done">>}
          [] o = "exec"     -> {<<"meta", "rowh", "rowt", "done">>, <<"begin", "done">>}
          [] o = "command"  -> {<<"meta", "rowh", "rowt", "done">>, <<"fail">>}
          [] o = "tmbegin"  -> {<<"begin", "done">>, <<"fail">>}
          [] o = "tmend"    -> {<<"end", "done">>}
          [] o = "bulkcols" -> {<<"meta", "done">>, <<"fail">>}
          [] o = "bulkins"  -> {<<"done">>, <<"fail">>}
          [] o = "bulkload" -> {<<"done">>}
          [] OTHER          -> {}]

==============================================================================
