\* One relationship with any RETURN, or two; a node may have a property id.
SPECIFICATION Spec
CONSTANTS
  v1 = v1
  v2 = v2
  v3 = v3
  q1 = q1
  q2 = q2
  Vertex = {v1, v2, v3}
  Part = {q1, q2}
  Query <- OneOrTwo
  MaxEdges = 2
  MaxIds = 1
SYMMETRY Symmetry

INVARIANTS TypeOK Sound Found Pictured
\* The query ends.
CHECK_DEADLOCK FALSE
