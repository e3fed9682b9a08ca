--------------------------- MODULE MCCallFeedback ---------------------------
(***************************************************************************)
(* A call site with two entries that calls three functions, executed by    *)
(* three threads: enough to fill the entries and to race for each.         *)
(***************************************************************************)
EXTENDS CallFeedback

CONSTANTS t1, t2, t3, f, g, h, null

Threads == {t1, t2, t3}
Callees == {f, g, h}
=============================================================================
