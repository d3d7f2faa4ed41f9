----------------------------- MODULE Assembly -----------------------------
(***************************************************************************)
(* How the master answers a MATCH over several relationships: the          *)
(* partial-evaluation join of internal/master/cypher_handler.go over the   *)
(* local partial matches of internal/worker/worker.go.                     *)
(*                                                                         *)
(* Each worker returns, for every relationship pattern of the query, the   *)
(* edges that start in its partition.  The master files the matches under  *)
(* the query's variables: under a variable go the matches whose vertex for *)
(* it is internal to the fragment they come from.  It sorts these groups   *)
(* by size and joins them one after another.                               *)
(*                                                                         *)
(* Lists are sets here: both ends of the join remove duplicates.  Groups   *)
(* of the same size come in any order, since they are collected from a map *)
(* and sort.Slice is not stable.  The join reads only what the workers     *)
(* answered, so the graph is fixed while it runs; the edges of a worker    *)
(* that does not answer are as if they were not there, since the error is  *)
(* dropped (cypher_handler.go:603, 627).                                   *)
(***************************************************************************)
EXTENDS Naturals, Sequences, FiniteSets, Functions, SequencesExt

CONSTANTS
  Vertex,   \* the vertices of the graph
  Part,     \* its partitions
  Query,    \* the queries: sets of relationship patterns [name, from, to]
  MaxIds,   \* bound: nodes that the query describes by a property id
  MaxEdges  \* bound: edges that match a pattern, one less for each such node

ASSUME QueryAssumption ==
  \A Q \in Query :
    /\ Q # {} /\ IsFiniteSet(Q)
    /\ \A p \in Q : {"name", "from", "to"} \subseteq DOMAIN p

\* Two patterns over the same two variables would give matches with the same
\* key, of which deduplicateMatches keeps one.
ASSUME PairAssumption ==
  \A Q \in Query : \A p, q \in Q : {p.from, p.to} = {q.from, q.to} => p = q
ASSUME MaxEdgesAssumption == MaxEdges \in Nat
ASSUME MaxIdsAssumption == MaxIds \in Nat
ASSUME VertexAssumption == IsFiniteSet(Vertex)

VARIABLES
  query,    \* the relationship patterns of the MATCH
  home,     \* home[v]: the partition of v
  rel,      \* rel[p]: the edges that the fragment query of p accepts, as pairs
  returned, \* the names of nodes and relationships that its RETURN names
  wanted,   \* wanted[x]: the value of the property id of the node x, if it has one
  matches,  \* the matches that are left of those with the same bindings
  order,    \* the groups' variables, as createOptimalPartitioning sorts them
  i,        \* the group that is joined next
  current,  \* currentResults
  final,    \* finalResults
  nodes,    \* the picture sent to the browser: its vertices
  edges     \* and its arrows, keyed by their two ends

input == <<query, home, rel, returned, wanted, matches>>
picture == <<nodes, edges>>
vars == <<input, order, i, current, final, picture>>

Variable == UNION {{p.from, p.to} : p \in query}
Name == Variable \cup {p.name : p \in query}
Row == UNION {[S -> Vertex] : S \in SUBSET (Variable \cap returned)}

\* The fragment query of a single relationship ends with the RETURN of the user's
\* text, whatever it names; those of several end with a generated one, which
\* names everything (buildRelationshipQuery, GenerateQueriesFromBGPs).  Without a
\* RETURN all is returned as well.
Returns == IF Cardinality(query) = 1 THEN SUBSET Name ELSE {Name}

\* Mutant of Panics: the ends are asserted to be of a type they never have.
PanicsAlways(p) == p.name \in returned

\* A row with the relationship must have both its ends: extractPartialMatchFromRecord
\* asserts that they are integers, and a worker that has such an edge panics.
Panics(p) == p.name \in returned /\ ~({p.from, p.to} \subseteq returned)

\* Mutant of MatchOf: an end that lives in the same partition is not counted as
\* internal.
MatchOfStart(p, e) ==
  [fn |-> [x \in {p.from, p.to} \cap returned |-> IF x = p.from THEN e[1] ELSE e[2]],
   internal |-> {e[1]}, part |-> home[e[1]]]

\* extractPartialMatchFromRecord: of the ends that are returned, the start of an
\* edge is internal to the partition that stores it, the end is when it lives
\* there too (else it is a ghost).
MatchOf(p, e) ==
  [fn |-> [x \in {p.from, p.to} \cap returned |-> IF x = p.from THEN e[1] ELSE e[2]],
   internal |-> {v \in {e[1]} : p.from \in returned} \cup
                {v \in {e[2]} : p.to \in returned /\ home[v] = home[e[1]]},
   part |-> home[e[1]]]

\* findLocalPartialMatches over all partitions.
Matches ==
  UNION {{MatchOf(p, e) : e \in {e \in rel[p] : p.from = p.to => e[1] = e[2]}} :
           p \in {p \in query : ~Panics(p)}}

\* deduplicateMatches compares the bindings only, and keeps the match of the
\* partition that comes first (allPartialMatches is a map: in any order).
Kept(turn) ==
  {m \in Matches : \A n \in Matches : n.fn = m.fn => turn[m.part] <= turn[n.part]}

Turns == {t \in [Part -> 1 .. Cardinality(Part)] : IsInjective(t)}

\* hasInternalVertexForVariable.
Group(x) == {m \in matches : x \in DOMAIN m.fn /\ m.fn[x] \in m.internal}

\* createOptimalPartitioning.
Orders ==
  LET grouped == {x \in Variable : Group(x) # {}} IN
  {s \in SetToSeqs(grouped) :
     \A a, b \in DOMAIN s :
       a < b => Cardinality(Group(s[a])) >= Cardinality(Group(s[b]))}

Fns(x) == {m.fn : m \in Group(x)}

Common(r, m) == DOMAIN r \cap DOMAIN m

\* Mutant of Joinable: the comparison of the common variables forgotten.
JoinableAlways(r, m) == Cardinality(DOMAIN r) > 3 => Common(r, m) # {}

\* areJoinable.
Joinable(r, m) ==
  /\ \A x \in Common(r, m) : r[x] = m[x]
  /\ Cardinality(DOMAIN r) > 3 => Common(r, m) # {}

\* joinPartialMatches.
JoinOf(r, m) ==
  [x \in DOMAIN r \cup DOMAIN m |-> IF x \in DOMAIN m THEN m[x] ELSE r[x]]

\* isCompleteMatch: the variables that have a group.
Complete(r) == Range(order) \subseteq DOMAIN r

\* Mutant of PartiallyComplete: a result that found no partner is dropped.
NeverPartial(r) == FALSE

\* isPartiallyComplete: a variable of a group up to this one.
PartiallyComplete(r) == \E a \in 1 .. i : order[a] \in DOMAIN r

Init ==
  /\ query \in Query
  /\ home \in [Vertex -> Part]
  /\ wanted \in UNION {[S -> Vertex] : S \in {S \in SUBSET Variable :
                                              Cardinality(S) <= MaxIds}}
  /\ rel \in [query -> {E \in SUBSET (Vertex \X Vertex) :
                            Cardinality(E) + Cardinality(DOMAIN wanted) <= MaxEdges}]
  /\ returned \in Returns
  /\ \E turn \in Turns : matches = Kept(turn)
  /\ order \in Orders
  /\ i = IF order = <<>> THEN 1 ELSE 2
  /\ current = IF order = <<>> THEN {} ELSE Fns(order[1])
  /\ final = {} /\ nodes = {} /\ edges = {}

\* One pass of the loop of executePartitioningBasedJoin.
Join ==
  /\ i <= Len(order)
  /\ LET partners(r) == {m \in Fns(order[i]) : Joinable(r, m)}
         joined == UNION {{JoinOf(r, m) : m \in partners(r)} : r \in current}
         kept == {r \in current : partners(r) = {} /\ PartiallyComplete(r)}
     IN  /\ final' = final \cup {r \in joined : Complete(r)}
         /\ current' = {r \in joined : ~Complete(r)} \cup kept
  /\ i' = i + 1
  /\ UNCHANGED <<input, order, picture>>

\* matchesSpecificValues: the property id of a node is compared with the identifier of
\* its vertex.
Specific(r) == \A x \in DOMAIN wanted \cap DOMAIN r : r[x] = wanted[x]

\* Mutant of Finish: the remaining results are collected over and over.
FinishAgain ==
  /\ i >= Len(order) + 1
  /\ final' = {r \in final \cup {r \in current : Complete(r)} : Specific(r)}
  /\ i' = i + 1
  /\ UNCHANGED <<input, order, current, picture>>

\* The rows that are left after the last group, and the filter of
\* assembleCrossingMatches.
Finish ==
  /\ i = Len(order) + 1
  /\ final' = {r \in final \cup {r \in current : Complete(r)} : Specific(r)}
  /\ i' = i + 1
  /\ UNCHANGED <<input, order, current, picture>>

\* Mutant of Arrows: the ends of an arrow are taken from different rows.
ArrowsOfRows(rows, p) ==
  {<<r[p.from], s[p.to]>> : r \in {r \in rows : p.from \in DOMAIN r},
                            s \in {s \in rows : p.to \in DOMAIN s}}

\* The arrows of a relationship pattern: one for every pair of ends that a row
\* binds, whatever the number of relationships between them.
Arrows(rows, p) ==
  {<<r[p.from], r[p.to]>> : r \in {r \in rows : {p.from, p.to} \subseteq DOMAIN r}}

\* GetGraphData.  The workers are asked once more for the labels and properties
\* of what is drawn; those of the query stand in when one does not answer.
GetGraphData ==
  /\ i = Len(order) + 2
  /\ nodes' = UNION {Range(r) : r \in final}
  /\ edges' = UNION {Arrows(final, p) : p \in query}
  /\ i' = i + 1
  /\ UNCHANGED <<input, order, current, final>>

Next == Join \/ Finish \/ GetGraphData

Spec == Init /\ [][Next]_vars

Done == i > Len(order) + 1

-----------------------------------------------------------------------------
(* What the query asks for: the assignments that satisfy every pattern.    *)
(* The program, like this definition, lets two patterns share an edge.     *)

Answers ==
  {f \in [Variable -> Vertex] : \A p \in query : <<f[p.from], f[p.to]>> \in rel[p]}

\* The patterns whose two ends, in the answer f, live in different partitions.
Crossing(f) == {p \in query : home[f[p.from]] # home[f[p.to]]}

\* No two of them leave one variable, and no two end in one.
Straight(f) ==
  \A p, q \in Crossing(f) : p.from = q.from \/ p.to = q.to => p = q

\* Every pattern has a variable that no other pattern has.
EachHasItsOwn ==
  \A p \in query : \E x \in {p.from, p.to} :
    \A q \in query : x \in {q.from, q.to} => q = p

\* The RETURN names both ends of every pattern.
AllReturned == Variable \subseteq returned

\* It names the start of every pattern, and the end with the relationship.
StartsReturned ==
  \A p \in query : p.from \in returned /\ (p.name \in returned => p.to \in returned)

\* The part of f that the RETURN names.
Shown(f) == Restrict(f, Variable \cap returned)

\* Types.  order never repeats a variable, and a row binds nothing that
\* is not returned.
TypeOK ==
  /\ query \in Query
  /\ home \in [Vertex -> Part]
  /\ rel \in [query -> SUBSET (Vertex \X Vertex)]
  /\ returned \in Returns
  /\ matches \subseteq Matches
  /\ IsInjective(order) /\ Range(order) \subseteq Variable
  /\ i \in 1 .. Len(order) + 3
  /\ current \subseteq Row /\ final \subseteq Row
  /\ edges \subseteq nodes \X nodes

\* A row that binds every variable is an answer, in whatever order the groups
\* were joined.  areJoinable lets through all that does not disagree, and asks
\* for a common variable only of a result that has more than three: so it
\* holds when every pattern has a variable of its own, as two relationships
\* between three nodes have, and not for a chain of three.
Sound == \A r \in final : DOMAIN r = Variable => r \in Answers

\* Of two relationships nothing is lost but answers that cross twice from one
\* node, or twice into one: such halves are filed under the same variable
\* only, and a group is never joined with itself; or they are filed under the
\* far ends, and the group between them comes first, without them
\* (createOptimalPartitioning, executePartitioningBasedJoin).  Of three even
\* an answer of one crossing edge may be lost: isCompleteMatch asks for the
\* variables that have a group only, and a row leaves the join too early.
\*
\* The answer is found as far as the RETURN names it, if it names the start of the
\* relationship: a RETURN of the end alone loses the ends in other partitions,
\* which are ghosts where the edge is, and a RETURN of the relationship without
\* both ends loses everything (worker.go:576).  Of a node with a property id only
\* the vertex with that identifier is found.
Found ==
  Done /\ Cardinality(query) <= 2 /\ StartsReturned =>
    \A f \in Answers : Straight(f) /\ Specific(f) => Shown(f) \in final

\* The picture is drawn from rows, some of which lack a variable, and not from
\* matches: still every arrow of it is an edge that a pattern of the query
\* matched, if every pattern has a variable of its own, and, when the RETURN
\* names both ends, all edges of the answers that are found are drawn
\* (GetGraphData after executePartitioningBasedJoin).
Pictured ==
  i = Len(order) + 3 =>
    /\ EachHasItsOwn => edges \subseteq UNION {rel[p] : p \in query}
    /\ Cardinality(query) <= 2 /\ AllReturned =>
         \A f \in Answers : Straight(f) /\ Specific(f) =>
           \A p \in query : <<f[p.from], f[p.to]>> \in edges
=============================================================================
