---------------------------- MODULE MCAssembly ----------------------------
(* Queries of one to three relationships over a small graph.             *)
EXTENDS Assembly

CONSTANTS v1, v2, v3, q1, q2

Edge(n, x, y) == [name |-> n, from |-> x, to |-> y]

\* (a)-[p]->(b), (b)-[q]->(c)
Chain2 == {Edge("p", "a", "b"), Edge("q", "b", "c")}

\* (b)-[p]->(a), (b)-[q]->(c)
Fork2 == {Edge("p", "b", "a"), Edge("q", "b", "c")}

\* (a)-[p]->(b), (b)-[q]->(c), (c)-[r]->(d)
Chain3 == Chain2 \cup {Edge("r", "c", "d")}

\* (a)-[p]->(b), (c)-[q]->(b)
In2 == {Edge("p", "a", "b"), Edge("q", "c", "b")}

\* (a)-[p]->(b), alone
One == {Edge("p", "a", "b")}

\* (a)-[p]->(b), (c)-[q]->(d)
Apart2 == {Edge("p", "a", "b"), Edge("q", "c", "d")}

OneOrTwo == {One, Chain2, Fork2, In2, Apart2}
JustChain3 == {Chain3}

\* Nothing tells one vertex, or one partition, from another.
Symmetry == Permutations({v1, v2, v3}) \cup Permutations({q1, q2})
===========================================================================
