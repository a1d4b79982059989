----------------------------- MODULE MCChatServer -----------------------------
EXTENDS ChatServer

CONSTANTS h1, h2, h3, p1, p2, p3

\* Two processes of one address and one of another; their two ports.
MCHostOf == [p \in Clients |-> IF p = p3 THEN h2 ELSE h1]
MCPort == [p \in Clients |-> IF p = p3 THEN 2 ELSE 1]

\* Nothing tells the two processes of one address apart.
MCSymmetry == Permutations({p1, p2})

\* A process on each of three addresses, with one port number, which sort leaves
\* in any order; nothing tells them apart, if each keeps its address.
MCOwnHost == [p \in Clients |-> CASE p = p1 -> h1 [] p = p2 -> h2 [] p = p3 -> h3]
MCSamePort == [p \in Clients |-> 1]
MCHostSymmetry ==
  {f \in Permutations({p1, p2, p3, h1, h2, h3}) :
     \A p \in {p1, p2, p3} : f[p] \in {p1, p2, p3} /\ f[MCOwnHost[p]] = MCOwnHost[f[p]]}
==============================================================================
