---------------------------- MODULE MCProxyPool ----------------------------
EXTENDS ProxyPool
CONSTANTS p1, open, locked
\* No proxy at the beginning.
MCHome == [p \in {} |-> open]
=============================================================================
