---------------------------- MODULE MCGraphStore ----------------------------
(* Small instances of GraphStore. *)
EXTENDS GraphStore, TLC

CONSTANTS c1, c2, p1, p2, k1, k2, k3

R(op, a, b) == [op |-> op, a |-> a, b |-> b]

\* A vertex takes one key: the second is the first again.
AllRequests ==
  {R("AddVertex", k, k) : k \in {k1, k2}} \cup
  {R("AddEdge", a, b) : a, b \in {k1, k2}} \cup
  {R("DeleteVertex", k, k) : k \in {k1, k2}} \cup
  {R("DeleteEdge", a, b) : a, b \in {k1, k2}}

\* The same, and vertices that are described by their label alone.
RequestsOfOne ==
  AllRequests \cup {R("AddVertex", k3, k3), R("DeleteVertex", k3, k3)}

OneOfEach ==
  {R("AddVertex", k1, k1), R("AddEdge", k1, k2), R("DeleteVertex", k2, k2),
   R("DeleteEdge", k1, k2)}

\* With the edge of AfterAddEdge in place: its opposite, and the end of both.
Opposite ==
  {R("AddEdge", k2, k1), R("DeleteVertex", k2, k2), R("DeleteEdge", k1, k2)}

\* Each key describes the vertices that have it; or those of k2 have a
\* property more than k1 names, and k3 is a label without properties.
Itself == [k \in Key |-> {k}]
LabelOnly == [k \in Key |-> CASE k = k1 -> {k1, k2} [] k = k2 -> {k2} [] k = k3 -> {}]

\* Two vertices described by a label.
OnlyLabels == {R("AddVertex", k3, k3), R("AddEdge", k1, k3), R("DeleteVertex", k3, k3)}

\* One of the keys has a property named id, which is not the first identifier
\* a vertex of that key gets.
NoIdProperty == [k \in {} |-> 0]
OwnId == k1 :> 2

Partitions == Permutations({p1, p2})

\* The graph that the first request leaves when it is
\*   MATCH (a:k1), (b:k2) CREATE (a)-[:T]->(b)
\* and nothing fails: a in p1, b in p2, and next to a the edge and a ghost
\* of b.
AfterAddEdge ==
  LET home == [verts |-> {1}, ghosts |-> {2}, edges |-> {<<1, 2>>}]
      other == [verts |-> {2}, ghosts |-> {}, edges |-> {}]
      graph == (p1 :> home) @@ (p2 :> other)
  IN
  /\ counter = 2
  /\ keyOf = [i \in Id |-> IF i = 1 THEN k1 ELSE IF i = 2 THEN k2 ELSE NoKey]
  /\ mVerts = [p \in Part |-> graph[p].verts]
  /\ mGhosts = [p \in Part |-> graph[p].ghosts]
  /\ mEdges = [p \in Part |-> graph[p].edges]
  /\ mInfo = [p \in Part |-> graph[p].verts]
  /\ numVertices = 2 /\ numEdges = 1
  /\ mem = graph /\ db = graph
  /\ up = [p \in Part |-> TRUE]
  /\ pc = [c \in Client |-> "idle"]
  /\ reg = [c \in Client |-> NoReg]
  /\ scan = [c \in Client |-> NoScan]
  /\ msg = [c \in Client |-> NoMsg]
  /\ leg = [c \in Client |-> NoLegs]
  /\ late = {} /\ faults = 0 /\ issued = 1 /\ crashed = {}
  /\ acked = {1, 2} /\ condemned = {}
  /\ reply = [c \in Client |-> IF c = c1 THEN "create" ELSE "none"]

FairSpecAfterAddEdge == AfterAddEdge /\ [][Next]_vars /\ Fairness
=============================================================================
