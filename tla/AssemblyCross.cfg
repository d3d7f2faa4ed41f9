\* A chain of three relationships: edges that do not meet are joined.
SPECIFICATION Spec
CONSTANTS
  v1 = v1
  v2 = v2
  v3 = v3
  q1 = q1
  q2 = q2
  Vertex = {v1, v2}
  Part = {q1, q2}
  Query <- JustChain3
  MaxEdges = 1
  MaxIds = 0

INVARIANTS Sound
\* The query ends.
CHECK_DEADLOCK FALSE
