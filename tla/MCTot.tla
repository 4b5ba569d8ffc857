------------------------------- MODULE MCTot -------------------------------
(* Small instances of Tot: calls for one or two jobs. *)
EXTENDS Tot

CONSTANTS c1, c2, c3

MCJobOf == [c \in Client |-> IF c = c3 THEN "e2e" ELSE "unit"]
MCFallback == [j \in Job |-> IF j = "unit" THEN 2 ELSE 0]
=============================================================================
