-------------------------------- MODULE MCChat --------------------------------
EXTENDS Chat

CONSTANTS h1, h2, p1, p2, p3

\* Two processes of one address and one of another, each with a port of its own.
MCHostOf == [p \in Clients |-> IF p = p2 THEN h2 ELSE h1]
MCPort == [p \in Clients |-> CASE p = p1 -> 1 [] p = p2 -> 2 [] p = p3 -> 3]
==============================================================================
