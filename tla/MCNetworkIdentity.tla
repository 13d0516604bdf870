------------------------- MODULE MCNetworkIdentity -------------------------
(* Values of the constants of NetworkIdentity for TLC: an exit in the preferred   *)
(* country and a foreign one, of different subnets.                           *)
EXTENDS NetworkIdentity

CONSTANTS a1, a2, pg, ps, v1, o1
MCAdapter == [p \in Proxies |-> IF p = pg THEN "generic" ELSE "suffix-session"]
\* The second account gets a proxy while the first is maintained, or has one before.
MCInitial == [a \in Accounts |-> IF a = a1 THEN ps ELSE NULL]
MCBothProxied == [a \in Accounts |-> IF a = a1 THEN ps ELSE pg]
MCSubnetOf == [e \in Exits |-> IF e = v1 THEN 1 ELSE 2]
\* The keeper goes through all accounts, the other caller works on the first one.
MCCalledBy == [a \in Accounts |-> IF a = a1 THEN Runners ELSE {"keeper"}]
=============================================================================
