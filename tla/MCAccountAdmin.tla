--------------------------- MODULE MCAccountAdmin ---------------------------
EXTENDS AccountAdmin, TLC
CONSTANTS r1, r2, A, B
\* One complete account and one id that is still unused.
MCInitial == (r1 :> A) @@ (r2 :> NULL)
=============================================================================
