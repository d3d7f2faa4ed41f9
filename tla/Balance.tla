------------------------------ MODULE Balance ------------------------------
(***************************************************************************)
(* Where the master puts a new vertex (internal/master/utils.go and        *)
(* sdp.go): operators over load, the function from partitions to the       *)
(* number of vertices that MasterMetaData.PartitionInfoMap lists for them. *)
(* Maps are iterated in an arbitrary order, so the answer is the set of    *)
(* partitions that may be chosen.                                          *)
(***************************************************************************)
EXTENDS Integers, FiniteSets, Functions

MAXCAP == 20

\* calculateImbalance > Threshold * MAXCAP.  The code compares the standard
\* deviation of the loads with 0.1 * 20; squared and multiplied by the square
\* of the number of partitions, the comparison is one of integers.
Imbalanced(load) ==
  LET n == Cardinality(DOMAIN load)
      total == SumFunction(load)
      squares == SumFunction([p \in DOMAIN load |-> load[p] * load[p]])
  IN  10 * 10 * (n * squares - total * total) > MAXCAP * MAXCAP * n * n

\* findMinimumLoadPartition: the first of the smallest in iteration order.
LeastLoaded(load) ==
  {p \in DOMAIN load : \A q \in DOMAIN load : load[p] <= load[q]}

\* handleVertexAssignmentWithoutNewPartition.  A vertex is added before its
\* edges, so assignVertexByConnections counts no connection anywhere and
\* settles for the partition it meets first.
Candidates(load) ==
  IF Imbalanced(load) THEN DOMAIN load ELSE LeastLoaded(load)
=============================================================================
