SPECIFICATION Spec
CONSTANTS
  c1 = c1
  c2 = c2
  p1 = p1
  p2 = p2
  k1 = k1
  k2 = k2
  k3 = k3
  NoKey = NoKey
  Describes <- LabelOnly
  IdProperty <- NoIdProperty
  Client = {c1}
  Part = {p1, p2}
  Key = {k1, k2, k3}
  Request <- RequestsOfOne
  MaxRequests = 3
  MaxFaults = 1
SYMMETRY Partitions
INVARIANTS
  TypeOK
  KeyUniqueAlone
  Agreement
  DurableAck
PROPERTY
  NoResurrection
\* Requests are bounded: when the last one is answered the system is done.
CHECK_DEADLOCK FALSE
