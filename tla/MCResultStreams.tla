--------------------------- MODULE MCResultStreams ---------------------------
(* Tokens of every kind a consumer tells apart, two where the order matters. Each
   consumer skips some of them, which stand for all the others it skips. *)
EXTENDS ResultStreams

Tk(type, m, n) == [t |-> type, m |-> m, n |-> n]

MCTokens ==
    { Tk("meta", "a", 0), Tk("meta", "b", 0), Tk("row", NoMeta, 0),
      Tk("altmeta", "b", 1), Tk("altrow", NoMeta, 1),
      Tk("error", NoMeta, 1), Tk("error", NoMeta, 2),
      Tk("done", "count", 3), Tk("doneinproc", "more", 4), Tk("doneproc", "final", 0),
      Tk("status", NoMeta, 5), Tk("value", NoMeta, 6) }

==============================================================================
