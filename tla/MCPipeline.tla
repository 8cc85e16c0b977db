----------------------------- MODULE MCPipeline -----------------------------
(* Retry budgets small enough to check.  A book's first pass over place may   *)
(* fail for want of a category, so place needs two.                          *)
EXTENDS Pipeline
Budget == [s \in Stage |-> IF s = "place" THEN 2 ELSE 1]
Two == [s \in Stage |-> 2]
=============================================================================
