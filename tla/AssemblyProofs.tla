--------------------------- MODULE AssemblyProofs ---------------------------
(***************************************************************************)
(* Proofs about Assembly, for every finite graph, however it is spread     *)
(* over partitions, and every order the groups may be joined in.           *)
(***************************************************************************)
EXTENDS Assembly, TLAPS, FiniteSetTheorems, SequenceTheorems

\* The two variables of a pattern.
Ends(p) == {p.from, p.to}

\* What is fixed when the join begins.
Input ==
  /\ query \in Query
  /\ home \in [Vertex -> Part]
  /\ rel \in [query -> SUBSET (Vertex \X Vertex)]
  /\ returned \in Returns
  /\ \E turn \in Turns : matches = Kept(turn)
  /\ order \in Orders

\* The types, and an order that the groups may be sorted in.
TypeInv ==
  /\ Input
  /\ i \in 1 .. Len(order) + 3
  /\ current \subseteq Row /\ final \subseteq Row
  /\ edges \subseteq nodes \X nodes

\* A row is put together from matches: whatever it binds, it binds together
\* with the other end of a pattern, to an edge that the pattern accepts.
Pieces(r) ==
  \A x \in DOMAIN r : \E p \in query :
    /\ x \in Ends(p) /\ Ends(p) \subseteq DOMAIN r
    /\ <<r[p.from], r[p.to]>> \in rel[p]

\* All rows are like that, when both ends of each pattern are returned.
RowInv == AllReturned => \A r \in current \cup final : Pieces(r)

----------------------------------------------------------------------------
(* Matches and groups.                                                     *)

\* A match binds those ends of its pattern that are returned to the ends of its edge
\* (extractPartialMatchFromRecord).
LEMMA MatchBinds ==
  ASSUME NEW p, NEW e \in Vertex \X Vertex, NEW m, m = MatchOf(p, e),
         p.from = p.to => e[1] = e[2]
  PROVE  /\ DOMAIN m.fn = Ends(p) \cap returned /\ m.fn \in [Ends(p) \cap returned -> Vertex]
         /\ p.from \in returned => m.fn[p.from] = e[1] /\ e[1] \in m.internal
         /\ p.to \in returned => m.fn[p.to] = e[2]
         /\ m.part = home[e[1]]
<1>1. e = <<e[1], e[2]>> /\ e[1] \in Vertex /\ e[2] \in Vertex
  OBVIOUS
<1>2. m.fn = [x \in Ends(p) \cap returned |-> IF x = p.from THEN e[1] ELSE e[2]]
  BY DEF MatchOf, Ends
<1>3. p.from \in Ends(p) /\ p.to \in Ends(p)
  BY DEF Ends
<1>4. /\ p.from \in returned => m.fn[p.from] = e[1]
      /\ p.to \in returned => m.fn[p.to] = e[2]
  BY <1>2, <1>3
<1>5. /\ DOMAIN m.fn = Ends(p) \cap returned
      /\ m.fn \in [Ends(p) \cap returned -> Vertex]
  BY <1>1, <1>2
<1>6. m.part = home[e[1]] /\ (p.from \in returned => e[1] \in m.internal)
  BY DEF MatchOf
<1> QED
  BY <1>4, <1>5, <1>6

\* If both are, the start is internal, and the end is when it lives in the same partition.
LEMMA MatchFacts ==
  ASSUME NEW p, NEW e \in Vertex \X Vertex, NEW m, m = MatchOf(p, e),
         p.from = p.to => e[1] = e[2], Ends(p) \subseteq returned
  PROVE  /\ DOMAIN m.fn = Ends(p) /\ m.fn \in [Ends(p) -> Vertex]
         /\ m.fn[p.from] = e[1] /\ m.fn[p.to] = e[2]
         /\ <<m.fn[p.from], m.fn[p.to]>> = e
         /\ e[1] \in m.internal
         /\ home[e[2]] = home[e[1]] => e[2] \in m.internal
         /\ home[e[2]] # home[e[1]] => e[2] \notin m.internal
<1>1. e = <<e[1], e[2]>>
  OBVIOUS
<1>2. p.from \in returned /\ p.to \in returned /\ Ends(p) \cap returned = Ends(p)
  BY DEF Ends
<1>3. m.internal = {v \in {e[1]} : p.from \in returned} \cup
                   {v \in {e[2]} : p.to \in returned /\ home[v] = home[e[1]]}
  BY DEF MatchOf
<1>4. /\ e[1] \in m.internal
      /\ home[e[2]] = home[e[1]] => e[2] \in m.internal
      /\ home[e[2]] # home[e[1]] => e[2] \notin m.internal
  BY <1>2, <1>3
<1>5. /\ DOMAIN m.fn = Ends(p) /\ m.fn \in [Ends(p) -> Vertex]
      /\ m.fn[p.from] = e[1] /\ m.fn[p.to] = e[2]
  BY <1>2, MatchBinds
<1> QED
  BY <1>1, <1>4, <1>5

\* Matches without the unions.
LEMMA MatchIs ==
  ASSUME Input, NEW m
  PROVE  m \in Matches <=>
           \E p \in query : \E e \in rel[p] :
             m = MatchOf(p, e) /\ (p.from = p.to => e[1] = e[2]) /\ ~Panics(p)
  BY DEF Matches

\* Edges are pairs of vertices, and the ends of a pattern are variables.
LEMMA RelIs ==
  ASSUME Input, NEW p \in query, NEW e \in rel[p]
  PROVE  /\ e \in Vertex \X Vertex /\ Ends(p) \subseteq Variable
         /\ AllReturned => Ends(p) \subseteq returned /\ ~Panics(p)
  BY DEF Input, Variable, Ends, AllReturned, Panics

\* What deduplicateMatches keeps are matches,
LEMMA KeptAreMatches ==
  ASSUME Input
  PROVE  matches \subseteq Matches
  BY DEF Input, Kept

\* and all of them, where matches with the same bindings come from one partition.
LEMMA AllKept ==
  ASSUME Input, NEW m \in Matches, \A n \in Matches : n.fn = m.fn => n.part = m.part
  PROVE  m \in matches
<1>1. PICK turn \in Turns : matches = Kept(turn)
  BY DEF Input
<1>2. PICK p \in query : \E e \in rel[p] : m = MatchOf(p, e) /\ (p.from = p.to => e[1] = e[2])
  BY MatchIs
<1>3. PICK e \in rel[p] : m = MatchOf(p, e) /\ (p.from = p.to => e[1] = e[2])
  BY <1>2
<1>4. m.part \in Part
  <2>1. e[1] \in Vertex /\ m.part = home[e[1]]
    BY <1>3, RelIs, MatchBinds
  <2> QED
    BY <2>1 DEF Input
<1>5. turn[m.part] \in 1 .. Cardinality(Part)
  BY <1>4 DEF Turns
<1>6. turn[m.part] <= turn[m.part]
  BY <1>5
<1> QED
  BY <1>1, <1>6 DEF Kept

\* So nothing is taken away when the matches bind both ends: the bindings tell the
\* pattern (PairAssumption) and the edge.
LEMMA BothEndsKept ==
  ASSUME Input, AllReturned
  PROVE  matches = Matches
<1>1. SUFFICES ASSUME NEW m \in Matches, NEW n \in Matches, n.fn = m.fn
               PROVE  n.part = m.part
  BY KeptAreMatches, AllKept
<1>2. PICK p \in query : \E e \in rel[p] : m = MatchOf(p, e) /\ (p.from = p.to => e[1] = e[2])
  BY MatchIs
<1>3. PICK e \in rel[p] : m = MatchOf(p, e) /\ (p.from = p.to => e[1] = e[2])
  BY <1>2
<1>4. PICK q \in query : \E g \in rel[q] : n = MatchOf(q, g) /\ (q.from = q.to => g[1] = g[2])
  BY MatchIs
<1>5. PICK g \in rel[q] : n = MatchOf(q, g) /\ (q.from = q.to => g[1] = g[2])
  BY <1>4
<1>6. /\ DOMAIN m.fn = Ends(p) /\ m.fn[p.from] = e[1] /\ m.part = home[e[1]]
  <2>1. e \in Vertex \X Vertex /\ Ends(p) \subseteq returned
    BY RelIs
  <2> QED
    BY <1>3, <2>1, MatchFacts, MatchBinds
<1>7. /\ DOMAIN n.fn = Ends(q) /\ n.fn[q.from] = g[1] /\ n.part = home[g[1]]
  <2>1. g \in Vertex \X Vertex /\ Ends(q) \subseteq returned
    BY RelIs
  <2> QED
    BY <1>5, <2>1, MatchFacts, MatchBinds
<1>8. Ends(p) = Ends(q)
  BY <1>1, <1>6, <1>7
<1>9. query \in Query
  BY DEF Input
<1>10. p = q
  BY <1>8, <1>9, PairAssumption DEF Ends
<1> QED
  BY <1>1, <1>6, <1>7, <1>10

\* A match in a group is a row, and an edge of one pattern if both ends are returned.
LEMMA GroupRow ==
  ASSUME Input, NEW x, NEW r \in Fns(x)
  PROVE  /\ r \in Row /\ x \in DOMAIN r
         /\ AllReturned =>
              \E p \in query : DOMAIN r = Ends(p) /\ <<r[p.from], r[p.to]>> \in rel[p]
<1>1. PICK m \in Group(x) : r = m.fn
  BY DEF Fns
<1>2. m \in Matches /\ x \in DOMAIN r
  BY <1>1, KeptAreMatches DEF Group
<1>3. PICK p \in query : \E e \in rel[p] : m = MatchOf(p, e) /\ (p.from = p.to => e[1] = e[2])
  BY <1>2, MatchIs
<1>4. PICK e \in rel[p] : m = MatchOf(p, e) /\ (p.from = p.to => e[1] = e[2])
  BY <1>3
<1>5. r \in [Ends(p) \cap returned -> Vertex] /\ Ends(p) \subseteq Variable
  BY <1>1, <1>4, RelIs, MatchBinds
<1>6. r \in Row
  <2>1. Ends(p) \cap returned \in SUBSET (Variable \cap returned)
    BY <1>5
  <2> QED
    BY <1>5, <2>1 DEF Row
<1>7. ASSUME AllReturned
      PROVE  DOMAIN r = Ends(p) /\ <<r[p.from], r[p.to]>> = e
  BY <1>1, <1>4, <1>7, RelIs, MatchFacts
<1> QED
  BY <1>2, <1>4, <1>6, <1>7

\* There are finitely many patterns, variables and matches.
LEMMA FiniteQuery ==
  ASSUME Input
  PROVE  IsFiniteSet(query) /\ query # {} /\ IsFiniteSet(Variable) /\ IsFiniteSet(matches)
<1>1. IsFiniteSet(query) /\ query # {}
  BY QueryAssumption DEF Input
<1>2. IsFiniteSet(Variable)
  <2> DEFINE D == query \X (1 .. 2)
             g == [z \in D |-> IF z[2] = 1 THEN z[1].from ELSE z[1].to]
             T == {g[z] : z \in D}
  <2>1. IsFiniteSet(1 .. 2)
    <3>1. \A n \in Nat : IsFiniteSet(1 .. n)
      BY FS_Interval
    <3> QED
      BY <3>1
  <2>2. IsFiniteSet(D)
    BY <1>1, <2>1, FS_Product
  <2>3. g \in Surjection(D, T)
    BY DEF Surjection
  <2>4. IsFiniteSet(T)
    BY <2>2, <2>3, FS_Surjection
  <2>5. Variable \subseteq T
    <3>1. ASSUME NEW p \in query
          PROVE  p.from \in T /\ p.to \in T
      <4>1. <<p, 1>> \in D /\ <<p, 2>> \in D
        OBVIOUS
      <4>2. g[<<p, 1>>] = p.from /\ g[<<p, 2>>] = p.to
        BY <4>1
      <4> QED
        BY <4>1, <4>2
    <3> HIDE DEF T
    <3> QED
      BY <3>1 DEF Variable
  <2> QED
    BY <2>4, <2>5, FS_Subset
<1>3. IsFiniteSet(Matches)
  <2> DEFINE D == query \X (Vertex \X Vertex)
             g == [z \in D |-> MatchOf(z[1], z[2])]
             T == {g[z] : z \in D}
  <2>1. IsFiniteSet(D)
    BY <1>1, VertexAssumption, FS_Product
  <2>2. g \in Surjection(D, T)
    BY DEF Surjection
  <2>3. IsFiniteSet(T)
    BY <2>1, <2>2, FS_Surjection
  <2>4. Matches \subseteq T
    <3> SUFFICES ASSUME NEW p \in query, NEW e \in rel[p] PROVE MatchOf(p, e) \in T
      BY MatchIs
    <3>1. <<p, e>> \in D
      BY RelIs
    <3>2. g[<<p, e>>] = MatchOf(p, e)
      BY <3>1
    <3> QED
      BY <3>1, <3>2
  <2> QED
    BY <2>3, <2>4, FS_Subset
<1> QED
  BY <1>1, <1>2, <1>3, KeptAreMatches, FS_Subset

\* The order lists each variable that has a group once, larger groups first
\* (createOptimalPartitioning).
LEMMA OrderFacts ==
  ASSUME Input
  PROVE  /\ Len(order) \in Nat /\ order \in Seq(Variable)
         /\ DOMAIN order = 1 .. Len(order)
         /\ IsInjective(order)
         /\ Range(order) = {x \in Variable : Group(x) # {}}
         /\ \A a, b \in 1 .. Len(order) :
              a < b => Cardinality(Group(order[a])) >= Cardinality(Group(order[b]))
<1> DEFINE S == {x \in Variable : Group(x) # {}}
<1>1. IsFiniteSet(S)
  BY FiniteQuery, FS_Subset
<1>2. PICK n \in Nat : n = Cardinality(S)
  BY <1>1, FS_CardinalityType
<1>3. order \in SetToSeqs(S)
  BY DEF Input, Orders
<1> HIDE DEF S
<1>4. order \in [1 .. n -> S] /\ \A a, b \in 1 .. n : a # b => order[a] # order[b]
  BY <1>2, <1>3 DEF SetToSeqs
<1>5. order \in Seq(S) /\ Len(order) = n
  BY <1>4, SeqDef, LenProperties
<1>6. order \in Injection(1 .. n, S)
  BY <1>4 DEF Injection, IsInjective
<1>7. Cardinality(1 .. n) = n
  BY <1>2, FS_Interval
<1>8. order \in Surjection(1 .. n, S)
  BY <1>1, <1>2, <1>6, <1>7, FS_Injection
<1>9. Range(order) = S
  BY <1>4, <1>8 DEF Surjection, Range
<1>10. order \in Seq(Variable)
  BY <1>5, SeqMonotonic DEF S
<1>11. \A a, b \in 1 .. n : a < b => Cardinality(Group(order[a])) >= Cardinality(Group(order[b]))
  BY <1>4 DEF Input, Orders
<1> QED
  BY <1>4, <1>5, <1>9, <1>10, <1>11 DEF S, IsInjective

----------------------------------------------------------------------------
(* Rows and steps.                                                         *)

\* A row is a function from some of the variables to vertices.
LEMMA RowFacts ==
  ASSUME Input, NEW r \in Row
  PROVE  DOMAIN r \subseteq Variable /\ DOMAIN r \subseteq returned /\ r \in [DOMAIN r -> Vertex]
  BY DEF Row

\* Joined rows keep what each of them binds (joinPartialMatches after areJoinable).
LEMMA JoinOfFacts ==
  ASSUME Input, NEW r \in Row, NEW m \in Row
  PROVE  /\ JoinOf(r, m) \in Row
         /\ DOMAIN JoinOf(r, m) = DOMAIN r \cup DOMAIN m
         /\ \A x \in DOMAIN m : JoinOf(r, m)[x] = m[x]
         /\ Joinable(r, m) => \A x \in DOMAIN r : JoinOf(r, m)[x] = r[x]
<1> DEFINE S == DOMAIN r \cup DOMAIN m
           j == JoinOf(r, m)
<1>1. j = [x \in S |-> IF x \in DOMAIN m THEN m[x] ELSE r[x]]
  BY DEF JoinOf
<1>2. S \in SUBSET (Variable \cap returned) /\ j \in [S -> Vertex]
  BY <1>1, RowFacts
<1>3. j \in Row
  BY <1>2 DEF Row
<1>4. \A x \in DOMAIN m : j[x] = m[x]
  BY <1>1
<1>5. Joinable(r, m) => \A x \in DOMAIN r : j[x] = r[x]
  BY <1>1 DEF Joinable, Common
<1> QED
  BY <1>2, <1>3, <1>4, <1>5

\* What a pass of the loop makes of the rows.
LEMMA JoinRows ==
  ASSUME Join, i \in Nat, i >= 1, Len(order) \in Nat
  PROVE  /\ i \in 1 .. Len(order)
         /\ i' = i + 1
         /\ final \subseteq final'
         /\ \A r \in current' \cup final' :
              \/ r \in current \cup final
              \/ \E s \in current : \E m \in Fns(order[i]) :
                   Joinable(s, m) /\ r = JoinOf(s, m)
         /\ \A s \in current : \A m \in Fns(order[i]) :
              Joinable(s, m) =>
                \/ Complete(JoinOf(s, m)) /\ JoinOf(s, m) \in final'
                \/ ~Complete(JoinOf(s, m)) /\ JoinOf(s, m) \in current'
         /\ \A s \in current :
              /\ \A m \in Fns(order[i]) : ~Joinable(s, m)
              /\ PartiallyComplete(s)
              => s \in current'
<1> DEFINE partners(r) == {m \in Fns(order[i]) : Joinable(r, m)}
           joined == UNION {{JoinOf(r, m) : m \in partners(r)} : r \in current}
           kept == {r \in current : partners(r) = {} /\ PartiallyComplete(r)}
<1>1. /\ final' = final \cup {r \in joined : Complete(r)}
      /\ current' = {r \in joined : ~Complete(r)} \cup kept
      /\ i' = i + 1 /\ i <= Len(order)
  BY DEF Join
<1>2. \A r : r \in joined <=>
        \E s \in current : \E m \in Fns(order[i]) : Joinable(s, m) /\ r = JoinOf(s, m)
  OBVIOUS
<1>3. \A s \in current :
        (\A m \in Fns(order[i]) : ~Joinable(s, m)) /\ PartiallyComplete(s) => s \in kept
  OBVIOUS
<1>4. kept \subseteq current
  OBVIOUS
<1> HIDE DEF joined, kept, partners
<1>5. \A s \in current : \A m \in Fns(order[i]) :
        Joinable(s, m) => JoinOf(s, m) \in joined
  BY <1>2
<1> QED
  BY <1>1, <1>2, <1>3, <1>4, <1>5

\* What no step changes: the query, the graph, and so its answers.
LEMMA InputStays ==
  ASSUME UNCHANGED <<input, order>>
  PROVE  /\ Input' <=> Input
         /\ Variable' = Variable /\ Row' = Row
         /\ query' = query /\ rel' = rel /\ order' = order
         /\ EachHasItsOwn' <=> EachHasItsOwn
         /\ Answers' = Answers
         /\ (AllReturned' <=> AllReturned)
         /\ (StartsReturned' <=> StartsReturned)
         /\ \A f : Straight(f)' <=> Straight(f)
         /\ \A f : Specific(f)' <=> Specific(f)
         /\ \A f : Shown(f)' = Shown(f)
  BY DEF input, Input, Orders, Group, Matches, MatchOf, Variable, Row, Returns, Name, Kept,
         Panics, Turns, EachHasItsOwn, Answers, Straight, Crossing, AllReturned,
         StartsReturned, Specific, Shown, Restrict

----------------------------------------------------------------------------
(* Types and rows.                                                         *)

\* TypeInv holds when the loop begins,
LEMMA InitTypeInv == Init => TypeInv
<1> SUFFICES ASSUME Init PROVE TypeInv
  OBVIOUS
<1>1. Input
  BY DEF Init, Input
<1>2. Len(order) \in Nat /\ (order # <<>> => Len(order) >= 1)
  BY <1>1, OrderFacts, EmptySeq
<1>3. i \in 1 .. Len(order) + 3
  BY <1>2 DEF Init
<1>4. current \subseteq Row
  BY <1>1, GroupRow DEF Init
<1> QED
  BY <1>1, <1>3, <1>4 DEF Init, TypeInv

\* and every step preserves it.
LEMMA StepTypeInv == TypeInv /\ [Next]_vars => TypeInv'
<1> SUFFICES ASSUME TypeInv, [Next]_vars PROVE TypeInv'
  OBVIOUS
<1> USE DEF TypeInv
<1>1. Len(order) \in Nat
  BY OrderFacts
<1>2. CASE Join
  <2>1. UNCHANGED <<input, order>> /\ UNCHANGED picture
    BY <1>2 DEF Join
  <2>2. i \in 1 .. Len(order) /\ i' = i + 1
    BY <1>1, <1>2, JoinRows
  <2>3. \A m \in Fns(order[i]) : m \in Row
    BY GroupRow
  <2>4. ASSUME NEW r \in current' \cup final'
        PROVE  r \in Row
    <3>1. CASE r \in current \cup final
      BY <3>1
    <3>2. CASE \E s \in current : \E m \in Fns(order[i]) : r = JoinOf(s, m)
      <4>1. PICK s \in current : \E m \in Fns(order[i]) : r = JoinOf(s, m)
        BY <3>2
      <4>2. PICK m \in Fns(order[i]) : r = JoinOf(s, m)
        BY <4>1
      <4> QED
        BY <2>3, <4>2, JoinOfFacts
    <3> QED
      BY <1>1, <1>2, <3>1, <3>2, JoinRows
  <2> QED
    BY <1>1, <2>1, <2>2, <2>4, InputStays DEF picture
<1>3. CASE Finish
  <2>1. UNCHANGED <<input, order>> /\ UNCHANGED picture
    BY <1>3 DEF Finish
  <2>2. /\ i' \in 1 .. Len(order) + 3
        /\ current' \subseteq Row /\ final' \subseteq Row
    BY <1>1, <1>3 DEF Finish
  <2> QED
    BY <2>1, <2>2, InputStays DEF picture
<1>4. CASE GetGraphData
  <2>1. UNCHANGED <<input, order>> /\ current' = current /\ final' = final
    BY <1>4 DEF GetGraphData
  <2>2. i' \in 1 .. Len(order) + 3
    BY <1>1, <1>4 DEF GetGraphData
  <2>3. edges' \subseteq nodes' \X nodes'
    <3>1. SUFFICES ASSUME NEW p \in query, NEW e \in Arrows(final, p)
                   PROVE  e \in nodes' \X nodes'
      BY <1>4 DEF GetGraphData
    <3>2. PICK r \in final : {p.from, p.to} \subseteq DOMAIN r /\ e = <<r[p.from], r[p.to]>>
      BY <3>1 DEF Arrows
    <3>3. r[p.from] \in Range(r) /\ r[p.to] \in Range(r)
      BY <3>2 DEF Range
    <3>4. Range(r) \subseteq nodes'
      BY <1>4, <3>2 DEF GetGraphData
    <3> QED
      BY <3>2, <3>3, <3>4
  <2> QED
    BY <2>1, <2>2, <2>3, InputStays
<1>5. CASE UNCHANGED vars
  BY <1>5, InputStays DEF vars, picture
<1> QED
  BY <1>2, <1>3, <1>4, <1>5 DEF Next

\* It implies the types the run checks.
LEMMA TypeInvTypes == TypeInv => TypeOK
  BY OrderFacts, KeptAreMatches DEF TypeInv, TypeOK, Input

\* In every behaviour the groups to join are distinct variables of the query, the
\* loop index stays in its range, rows bind variables of the query to vertices,
\* and an arrow of the picture joins two of its vertices.
THEOREM TypeCorrect == Spec => []TypeOK
<1>1. Spec => []TypeInv
  BY InitTypeInv, StepTypeInv, PTL DEF Spec
<1> QED
  BY <1>1, TypeInvTypes, PTL

\* A single match is one piece.
LEMMA PiecesOfGroup ==
  ASSUME Input, AllReturned, NEW x, NEW r \in Fns(x)
  PROVE  Pieces(r)
  BY GroupRow DEF Pieces, Ends

\* Two joinable rows that are made of pieces make one that is.
LEMMA PiecesJoin ==
  ASSUME Input, NEW r \in Row, NEW m \in Row, Pieces(r), Pieces(m), Joinable(r, m)
  PROVE  Pieces(JoinOf(r, m))
<1> DEFINE j == JoinOf(r, m)
<1>1. /\ DOMAIN j = DOMAIN r \cup DOMAIN m
      /\ \A x \in DOMAIN m : j[x] = m[x]
      /\ \A x \in DOMAIN r : j[x] = r[x]
  BY JoinOfFacts
<1> HIDE DEF j
<1>2. SUFFICES ASSUME NEW x \in DOMAIN j
               PROVE  \E p \in query : /\ x \in Ends(p) /\ Ends(p) \subseteq DOMAIN j
                                       /\ <<j[p.from], j[p.to]>> \in rel[p]
  BY DEF Pieces, j
<1>3. CASE x \in DOMAIN r
  <2>1. PICK p \in query : /\ x \in Ends(p) /\ Ends(p) \subseteq DOMAIN r
                          /\ <<r[p.from], r[p.to]>> \in rel[p]
    BY <1>3 DEF Pieces
  <2>2. p.from \in DOMAIN r /\ p.to \in DOMAIN r
    BY <2>1 DEF Ends
  <2>3. j[p.from] = r[p.from] /\ j[p.to] = r[p.to]
    BY <1>1, <2>2
  <2>4. Ends(p) \subseteq DOMAIN j
    BY <1>1, <2>1
  <2> QED
    BY <2>1, <2>3, <2>4
<1>4. CASE x \in DOMAIN m
  <2>1. PICK p \in query : /\ x \in Ends(p) /\ Ends(p) \subseteq DOMAIN m
                          /\ <<m[p.from], m[p.to]>> \in rel[p]
    BY <1>4 DEF Pieces
  <2>2. p.from \in DOMAIN m /\ p.to \in DOMAIN m
    BY <2>1 DEF Ends
  <2>3. j[p.from] = m[p.from] /\ j[p.to] = m[p.to]
    BY <1>1, <2>2
  <2>4. Ends(p) \subseteq DOMAIN j
    BY <1>1, <2>1
  <2> QED
    BY <2>1, <2>3, <2>4
<1> QED
  BY <1>1, <1>3, <1>4

\* RowInv holds when the loop begins,
LEMMA InitRowInv == Init => RowInv
<1> SUFFICES ASSUME Init PROVE RowInv
  OBVIOUS
<1>1. Input
  BY DEF Init, Input
<1> QED
  BY <1>1, PiecesOfGroup DEF Init, RowInv

\* and every step preserves it.
LEMMA StepRowInv == TypeInv /\ RowInv /\ [Next]_vars => RowInv'
<1> SUFFICES ASSUME TypeInv, RowInv, [Next]_vars PROVE RowInv'
  OBVIOUS
<1>1. Len(order) \in Nat
  BY OrderFacts DEF TypeInv
<1>2. UNCHANGED <<input, order>>
  BY DEF Next, Join, Finish, GetGraphData, vars
<1>3. query' = query /\ rel' = rel
  BY <1>2, InputStays
<1>4. SUFFICES ASSUME AllReturned, NEW r \in current' \cup final' PROVE Pieces(r)
  BY <1>2, <1>3, InputStays DEF RowInv, Pieces, Ends
<1>5. CASE r \in current \cup final
  BY <1>4, <1>5 DEF RowInv
<1>6. CASE Join /\ r \notin current \cup final
  <2>1. PICK s \in current : \E m \in Fns(order[i]) : Joinable(s, m) /\ r = JoinOf(s, m)
    BY <1>1, <1>4, <1>6, JoinRows DEF TypeInv
  <2>2. PICK m \in Fns(order[i]) : Joinable(s, m) /\ r = JoinOf(s, m)
    BY <2>1
  <2>3. Pieces(s) /\ Pieces(m) /\ s \in Row /\ m \in Row
    BY <1>4, PiecesOfGroup, GroupRow DEF TypeInv, RowInv
  <2> QED
    BY <2>2, <2>3, PiecesJoin DEF TypeInv
<1>7. CASE ~Join
  BY <1>4, <1>5, <1>7 DEF Next, Finish, GetGraphData, vars
<1> QED
  BY <1>5, <1>6, <1>7

\* With a variable of its own, a pattern is matched wherever a row binds it.
LEMMA OwnMatched ==
  ASSUME EachHasItsOwn, NEW r, Pieces(r), NEW p \in query, Ends(p) \subseteq DOMAIN r
  PROVE  <<r[p.from], r[p.to]>> \in rel[p]
<1>1. PICK x \in Ends(p) : \A q \in query : x \in Ends(q) => q = p
  BY DEF EachHasItsOwn, Ends
<1> QED
  BY <1>1 DEF Pieces

\* When every pattern of the query has a variable of its own, a row that binds all
\* variables is an answer, whatever the graph, its partitions, and the order of the
\* groups: what areJoinable leaves unchecked does no harm then.
\* (assembly_cross shows a query for which it does.)
THEOREM RowsAreAnswers == Spec => [](EachHasItsOwn => Sound)
<1>1. TypeInv /\ RowInv => (EachHasItsOwn => Sound)
  <2> SUFFICES ASSUME TypeInv, RowInv, EachHasItsOwn,
                      NEW r \in final, DOMAIN r = Variable
               PROVE  r \in Answers
    BY DEF Sound
  <2>1. r \in [Variable -> Vertex] /\ AllReturned
    BY RowFacts DEF TypeInv, AllReturned
  <2>2. \A p \in query : Ends(p) \subseteq Variable
    BY DEF Ends, Variable
  <2>3. \A p \in query : <<r[p.from], r[p.to]>> \in rel[p]
    BY <2>1, <2>2, OwnMatched DEF RowInv
  <2> QED
    BY <2>1, <2>3 DEF Answers
<1> QED
  BY <1>1, InitTypeInv, StepTypeInv, InitRowInv, StepRowInv, PTL DEF Spec

----------------------------------------------------------------------------
(* Small sets.                                                             *)

\* Of three members of a set of two, two are the same.
LEMMA ThreeInTwo ==
  ASSUME NEW S, IsFiniteSet(S), Cardinality(S) <= 2, NEW a \in S, NEW b \in S, NEW c \in S
  PROVE  a = b \/ a = c \/ b = c
<1> SUFFICES ASSUME a # b, a # c, b # c PROVE FALSE
  OBVIOUS
<1>1. IsFiniteSet({a}) /\ Cardinality({a}) = 1
  BY FS_Singleton
<1>2. IsFiniteSet({a} \cup {b}) /\ Cardinality({a} \cup {b}) = 2
  <2>1. b \notin {a}
    OBVIOUS
  <2>2. Cardinality({a} \cup {b}) = Cardinality({a}) + 1 /\ IsFiniteSet({a} \cup {b})
    BY <1>1, <2>1, FS_AddElement
  <2> QED
    BY <1>1, <2>2
<1>3. IsFiniteSet(({a} \cup {b}) \cup {c}) /\ Cardinality(({a} \cup {b}) \cup {c}) = 3
  <2>1. PICK T : T = {a} \cup {b}
    OBVIOUS
  <2>2. c \notin T /\ IsFiniteSet(T) /\ Cardinality(T) = 2
    BY <1>2, <2>1
  <2>3. IsFiniteSet(T \cup {c}) /\ Cardinality(T \cup {c}) = Cardinality(T) + 1
    BY <2>2, FS_AddElement
  <2> QED
    BY <2>1, <2>2, <2>3
<1>4. ({a} \cup {b}) \cup {c} \in SUBSET S
  OBVIOUS
<1>5. Cardinality(S) \in Nat
  BY FS_CardinalityType
<1> QED
  BY <1>3, <1>4, <1>5, FS_Subset

\* A pattern has at most two ends.
LEMMA EndsAreTwo ==
  ASSUME NEW p, NEW T, T \subseteq Ends(p)
  PROVE  IsFiniteSet(T) /\ Cardinality(T) \in Nat /\ Cardinality(T) <= 2
<1>1. IsFiniteSet({p.from}) /\ Cardinality({p.from}) = 1
  BY FS_Singleton
<1>2. IsFiniteSet({p.from} \cup {p.to}) /\ Cardinality({p.from} \cup {p.to}) <= 2
  BY <1>1, FS_AddElement
<1>3. Ends(p) = {p.from} \cup {p.to}
  BY DEF Ends
<1>4. IsFiniteSet(T) /\ Cardinality(T) <= Cardinality(Ends(p))
  BY <1>2, <1>3, FS_Subset
<1>5. Cardinality(T) \in Nat /\ Cardinality(Ends(p)) \in Nat
  BY <1>2, <1>3, <1>4, FS_CardinalityType
<1> QED
  BY <1>2, <1>3, <1>4, <1>5

----------------------------------------------------------------------------
(* An answer and its halves.                                               *)

\* What the query asks of f in a pattern.
Half(p, f) == [x \in Ends(p) |-> f[x]]

\* The half of f for the pattern is filed under x.
Filed(p, x, f) == x \in Ends(p) /\ (x = p.from \/ p \notin Crossing(f))

\* An answer binds the ends of each pattern to an edge that the pattern accepts.
LEMMA AnswerFacts ==
  ASSUME Input, NEW f \in Answers, NEW p \in query
  PROVE  /\ f \in [Variable -> Vertex] /\ DOMAIN f = Variable
         /\ Ends(p) \subseteq Variable /\ p.from \in Ends(p) /\ p.to \in Ends(p)
         /\ <<f[p.from], f[p.to]>> \in rel[p]
         /\ f[p.from] \in Vertex /\ f[p.to] \in Vertex
  BY DEF Answers, Ends, Variable

\* So the half is a match, and the far end is internal to it unless f crosses there.
LEMMA HalfIs ==
  ASSUME Input, AllReturned, NEW f \in Answers, NEW p \in query
  PROVE  \E m \in matches :
           /\ m = MatchOf(p, <<f[p.from], f[p.to]>>)
           /\ m.fn = Half(p, f)
           /\ f[p.from] \in m.internal
           /\ p \notin Crossing(f) => f[p.to] \in m.internal
           /\ p \in Crossing(f) => f[p.to] \notin m.internal
<1> DEFINE e == <<f[p.from], f[p.to]>>
           m == MatchOf(p, e)
<1>1. e \in rel[p] /\ e \in Vertex \X Vertex /\ e[1] = f[p.from] /\ e[2] = f[p.to]
  BY AnswerFacts
<1>2. p.from = p.to => e[1] = e[2]
  OBVIOUS
<1>3. m \in matches
  BY <1>1, <1>2, MatchIs, RelIs, BothEndsKept
<1> HIDE DEF e
<1>4. /\ DOMAIN m.fn = Ends(p) /\ m.fn \in [Ends(p) -> Vertex]
      /\ m.fn[p.from] = e[1] /\ m.fn[p.to] = e[2]
      /\ e[1] \in m.internal
      /\ home[e[2]] = home[e[1]] => e[2] \in m.internal
      /\ home[e[2]] # home[e[1]] => e[2] \notin m.internal
  BY <1>1, <1>2, RelIs, MatchFacts DEF e
<1> HIDE DEF m
<1>5. m.fn = Half(p, f)
  BY <1>1, <1>4 DEF Half, Ends
<1>6. /\ p \notin Crossing(f) => home[e[2]] = home[e[1]]
      /\ p \in Crossing(f) => home[e[2]] # home[e[1]]
  BY <1>1 DEF Crossing
<1> QED
  BY <1>1, <1>3, <1>4, <1>5, <1>6 DEF m, e

\* A half is in each group it is filed under.
LEMMA FiledHalf ==
  ASSUME Input, AllReturned, NEW f \in Answers, NEW p \in query, NEW x, Filed(p, x, f)
  PROVE  Half(p, f) \in Fns(x) /\ Group(x) # {}
<1>1. PICK m \in matches :
           /\ m.fn = Half(p, f)
           /\ f[p.from] \in m.internal
           /\ p \notin Crossing(f) => f[p.to] \in m.internal
  BY HalfIs
<1>2. x \in Ends(p) /\ (x = p.from \/ (x = p.to /\ p \notin Crossing(f)))
  BY DEF Filed, Ends
<1>3. x \in DOMAIN m.fn /\ m.fn[x] = f[x]
  BY <1>1, <1>2 DEF Half
<1>4. m \in Group(x)
  BY <1>1, <1>2, <1>3 DEF Group
<1> QED
  BY <1>1, <1>4 DEF Fns

\* A variable under which no half of f is filed is the far end of the only
\* pattern that has it, and its group is smaller than that of the near end.
LEMMA Unfiled ==
  ASSUME Input, AllReturned, NEW f \in Answers, Straight(f), NEW x \in Variable,
         \A p \in query : ~Filed(p, x, f)
  PROVE  \E p \in query :
           /\ p \in Crossing(f) /\ x = p.to /\ x # p.from
           /\ \A q \in query : x \in Ends(q) => q = p
           /\ Cardinality(Group(x)) < Cardinality(Group(p.from))
           /\ \E a \in 1 .. Len(order) : order[a] = p.from
           /\ \A r \in Fns(x) : r # Half(p, f)
<1>1. PICK p \in query : x \in Ends(p)
  BY DEF Variable, Ends
<1>2. \A q \in query : x \in Ends(q) => q \in Crossing(f) /\ x = q.to /\ x # q.from
  BY DEF Filed, Ends
<1>3. p \in Crossing(f) /\ x = p.to /\ x # p.from
  BY <1>1, <1>2
<1>4. \A q \in query : x \in Ends(q) => q = p
  BY <1>2, <1>3 DEF Straight
<1>5. PICK h \in matches : /\ h.fn = Half(p, f) /\ f[p.from] \in h.internal
                           /\ f[p.to] \notin h.internal
  BY <1>3, HalfIs
<1>6. h \in Group(p.from)
  BY <1>5 DEF Group, Half, Ends
<1>7. ASSUME NEW m \in Group(x)
      PROVE  m \in Group(p.from) /\ m.fn # Half(p, f)
  <2>1. m \in Matches /\ x \in DOMAIN m.fn /\ m.fn[x] \in m.internal
    BY KeptAreMatches DEF Group
  <2>2. PICK q \in query : \E e \in rel[q] : m = MatchOf(q, e) /\ (q.from = q.to => e[1] = e[2])
    BY <2>1, MatchIs
  <2>3. PICK e \in rel[q] : m = MatchOf(q, e) /\ (q.from = q.to => e[1] = e[2])
    BY <2>2
  <2>4. /\ DOMAIN m.fn = Ends(q)
        /\ m.fn[q.from] = e[1] /\ m.fn[q.to] = e[2]
        /\ e[1] \in m.internal
        /\ home[e[2]] # home[e[1]] => e[2] \notin m.internal
    BY <2>3, RelIs, MatchFacts
  <2>5. q = p
    BY <1>4, <2>1, <2>4
  <2>6. m \in Group(p.from)
    BY <2>1, <2>4, <2>5 DEF Group, Ends
  <2>7. home[e[2]] = home[e[1]]
    BY <1>3, <2>1, <2>4, <2>5
  <2>8. home[f[p.from]] # home[f[p.to]]
    BY <1>3 DEF Crossing
  <2>9. Half(p, f)[p.from] = f[p.from] /\ Half(p, f)[p.to] = f[p.to]
    BY DEF Half, Ends
  <2> QED
    BY <2>4, <2>5, <2>6, <2>7, <2>8, <2>9
<1>8. Group(x) \subseteq Group(p.from) /\ h \notin Group(x)
  BY <1>5, <1>7
<1>9. IsFiniteSet(Group(p.from))
  <2>1. Group(p.from) \subseteq matches
    BY DEF Group
  <2> QED
    BY <2>1, FiniteQuery, FS_Subset
<1>10. Cardinality(Group(x)) < Cardinality(Group(p.from))
  <2>1. /\ IsFiniteSet(Group(x))
        /\ Cardinality(Group(x)) <= Cardinality(Group(p.from))
        /\ Cardinality(Group(x)) = Cardinality(Group(p.from)) => Group(x) = Group(p.from)
    BY <1>8, <1>9, FS_Subset
  <2>2. Cardinality(Group(x)) \in Nat /\ Cardinality(Group(p.from)) \in Nat
    BY <1>9, <2>1, FS_CardinalityType
  <2> QED
    BY <1>6, <1>8, <2>1, <2>2
<1>11. p.from \in Range(order)
  BY <1>6, OrderFacts, AnswerFacts
<1>12. \E a \in 1 .. Len(order) : order[a] = p.from
  BY <1>11, OrderFacts DEF Range
<1>13. \A r \in Fns(x) : r # Half(p, f)
  BY <1>7 DEF Fns
<1> QED
  BY <1>3, <1>4, <1>10, <1>12, <1>13

\* So the near end's group is joined first.
LEMMA NearEndFirst ==
  ASSUME Input, AllReturned, NEW f \in Answers, Straight(f), NEW k \in 1 .. Len(order),
         \A p \in query : ~Filed(p, order[k], f)
  PROVE  \E p \in query :
           /\ p \in Crossing(f) /\ order[k] = p.to
           /\ \A q \in query : order[k] \in Ends(q) => q = p
           /\ \E a \in 1 .. k - 1 : order[a] = p.from
           /\ \A r \in Fns(order[k]) : r # Half(p, f)
<1>1. order[k] \in Variable
  BY OrderFacts DEF Range
<1>2. PICK p \in query :
           /\ p \in Crossing(f) /\ order[k] = p.to /\ order[k] # p.from
           /\ \A q \in query : order[k] \in Ends(q) => q = p
           /\ Cardinality(Group(order[k])) < Cardinality(Group(p.from))
           /\ \E a \in 1 .. Len(order) : order[a] = p.from
           /\ \A r \in Fns(order[k]) : r # Half(p, f)
  BY <1>1, Unfiled
<1>3. PICK a \in 1 .. Len(order) : order[a] = p.from
  BY <1>2
<1>4. \A x : Cardinality(Group(x)) \in Nat
  <2>1. \A x : Group(x) \subseteq matches
    BY DEF Group
  <2> QED
    BY <2>1, FiniteQuery, FS_Subset, FS_CardinalityType
<1>5. ~(k < a)
  BY <1>2, <1>3, <1>4, OrderFacts
<1>6. a # k
  BY <1>2, <1>3
<1>7. a \in 1 .. k - 1
  BY <1>3, <1>5, <1>6, OrderFacts
<1> QED
  BY <1>2, <1>3, <1>7

----------------------------------------------------------------------------
(* Nothing straight is lost of two relationships.                          *)

\* r is what the first k - 1 groups have gathered of f.
Follows(r, f, k) ==
  /\ \A x \in DOMAIN r : r[x] = f[x]
  /\ \A a \in 1 .. k - 1 : order[a] \in DOMAIN r
  /\ \A p \in Crossing(f) : \A a \in 1 .. k - 1 :
       order[a] = p.from => p.to \in DOMAIN r

\* f is found, or a row still follows it.
Reached(f) ==
  /\ i >= 2
  /\ f \in final \/ (i <= Len(order) + 1 /\ \E r \in current : Follows(r, f, i))

\* The invariant behind Found, when both ends of each pattern are returned.
FoundInv ==
  Cardinality(query) <= 2 /\ AllReturned =>
    \A f \in Answers : Straight(f) /\ Specific(f) => Reached(f)

\* The first group holds a half of every straight answer.
LEMMA FollowsStart ==
  ASSUME Input, AllReturned, NEW f \in Answers, Straight(f)
  PROVE  order # <<>> /\ \E r \in Fns(order[1]) : Follows(r, f, 2)
<1>1. PICK p \in query : TRUE
  BY FiniteQuery
<1>2. Filed(p, p.from, f)
  BY DEF Filed, Ends
<1>3. p.from \in Variable /\ Group(p.from) # {}
  BY <1>2, FiledHalf, AnswerFacts
<1>4. p.from \in Range(order)
  BY <1>3, OrderFacts
<1>5. Len(order) \in Nat /\ Len(order) >= 1
  <2>1. PICK a \in 1 .. Len(order) : order[a] = p.from
    BY <1>4, OrderFacts DEF Range
  <2> QED
    BY <2>1, OrderFacts
<1>6. order # <<>>
  BY <1>5
<1>7. PICK q \in query :
        /\ Filed(q, order[1], f)
        /\ \A c \in Crossing(f) : order[1] = c.from => c = q
  <2>1. CASE \E c \in Crossing(f) : order[1] = c.from
    <3>1. PICK c \in Crossing(f) : order[1] = c.from
      BY <2>1
    <3>2. \A d \in Crossing(f) : order[1] = d.from => d = c
      BY <3>1 DEF Straight
    <3>3. c \in query /\ Filed(c, order[1], f)
      BY <3>1 DEF Filed, Ends, Crossing
    <3> QED
      BY <3>2, <3>3
  <2>2. CASE ~\E c \in Crossing(f) : order[1] = c.from
    <3>1. \E q \in query : Filed(q, order[1], f)
      <4>1. 1 \in 1 .. Len(order) /\ ~\E a \in 1 .. 1 - 1 : TRUE
        BY <1>5
      <4> QED
        BY <4>1, NearEndFirst
    <3> QED
      BY <2>2, <3>1
  <2> QED
    BY <2>1, <2>2
<1>8. Half(q, f) \in Fns(order[1])
  BY <1>7, FiledHalf
<1>9. Follows(Half(q, f), f, 2)
  <2>1. \A a \in 1 .. 2 - 1 : a = 1
    OBVIOUS
  <2>2. DOMAIN Half(q, f) = Ends(q) /\ \A x \in Ends(q) : Half(q, f)[x] = f[x]
    BY DEF Half
  <2>3. order[1] \in Ends(q) /\ q.to \in Ends(q)
    BY <1>7 DEF Filed, Ends
  <2> QED
    BY <1>7, <2>1, <2>2, <2>3 DEF Follows
<1> QED
  BY <1>6, <1>8, <1>9

\* With two patterns, a row that touches none of the one is a match of the
\* other.
LEMMA OtherPattern ==
  ASSUME Input, Cardinality(query) <= 2, NEW r, Pieces(r), NEW p \in query,
         NEW x \in DOMAIN r, \A q \in query : x \in Ends(q) /\ Ends(q) \subseteq DOMAIN r => q # p
  PROVE  \E q \in query : q # p /\ \A c \in query : c # p => c = q
<1>1. PICK q \in query : x \in Ends(q) /\ Ends(q) \subseteq DOMAIN r
  BY DEF Pieces
<1>2. \A c \in query : c # p => c = q
  BY <1>1, FiniteQuery, ThreeInTwo
<1> QED
  BY <1>1, <1>2

\* A row that agrees with f may be joined with any half of f: the rule about more
\* than three variables never bites with two patterns (areJoinable).
LEMMA JoinsHalf ==
  ASSUME Input, Cardinality(query) <= 2, NEW f \in Answers, NEW p \in query,
         NEW r \in Row, Pieces(r), \A x \in DOMAIN r : r[x] = f[x]
  PROVE  Joinable(r, Half(p, f))
<1>1. DOMAIN Half(p, f) = Ends(p) /\ \A x \in Ends(p) : Half(p, f)[x] = f[x]
  BY DEF Half
<1>2. \A x \in Common(r, Half(p, f)) : r[x] = Half(p, f)[x]
  BY <1>1 DEF Common
<1>3. ASSUME Common(r, Half(p, f)) = {}, Cardinality(DOMAIN r) > 3
      PROVE  FALSE
  <2>1. CASE DOMAIN r = {}
    <3>1. Cardinality(DOMAIN r) = 0
      BY <2>1, FS_EmptySet
    <3> QED
      BY <1>3, <3>1
  <2>2. CASE DOMAIN r # {}
    <3>1. p.from \in Ends(p) /\ p.from \notin DOMAIN r
      BY <1>1, <1>3 DEF Common, Ends
    <3>2. \A q \in query : Ends(q) \subseteq DOMAIN r => q # p
      BY <3>1
    <3>3. PICK q \in query : q # p /\ \A c \in query : c # p => c = q
      BY <2>2, <3>2, OtherPattern
    <3>4. DOMAIN r \subseteq Ends(q)
      BY <3>2, <3>3 DEF Pieces
    <3> QED
      BY <1>3, <3>4, EndsAreTwo
  <2> QED
    BY <2>1, <2>2
<1> QED
  BY <1>2, <1>3 DEF Joinable

\* A pass joins a row with the half of f that is filed under the group.
LEMMA FollowsJoin ==
  ASSUME Input, AllReturned, NEW f \in Answers, Straight(f), NEW k \in 1 .. Len(order),
         NEW r \in Row, Follows(r, f, k), NEW p \in query, Filed(p, order[k], f),
         Joinable(r, Half(p, f)),
         \A c \in Crossing(f) : order[k] = c.from => c = p
  PROVE  Follows(JoinOf(r, Half(p, f)), f, k + 1)
<1> DEFINE h == Half(p, f)
           j == JoinOf(r, h)
<1>1. DOMAIN h = Ends(p) /\ \A x \in Ends(p) : h[x] = f[x]
  BY DEF Half
<1>2. h \in Fns(order[k]) /\ h \in Row
  BY FiledHalf, GroupRow
<1>3. /\ DOMAIN j = DOMAIN r \cup Ends(p)
      /\ \A x \in Ends(p) : j[x] = h[x]
      /\ \A x \in DOMAIN r : j[x] = r[x]
  <2>1. Joinable(r, h)
    OBVIOUS
  <2> HIDE DEF h
  <2>2. /\ DOMAIN JoinOf(r, h) = DOMAIN r \cup DOMAIN h
        /\ \A x \in DOMAIN h : JoinOf(r, h)[x] = h[x]
        /\ \A x \in DOMAIN r : JoinOf(r, h)[x] = r[x]
    BY <1>2, <2>1, JoinOfFacts
  <2> QED
    BY <1>1, <2>2
<1> HIDE DEF j, h
<1>4. order[k] \in Ends(p) /\ p.to \in Ends(p)
  BY DEF Filed, Ends
<1>5. \A a \in 1 .. (k + 1) - 1 : a \in 1 .. k - 1 \/ a = k
  BY OrderFacts
<1>6. Follows(j, f, k + 1)
  BY <1>1, <1>3, <1>4, <1>5 DEF Follows
<1> QED
  BY <1>6 DEF j, h

\* A pass keeps a row when no half of f is filed under the group: the row has
\* the group's variable already, and with an end of f that no match of the
\* group has.
LEMMA FollowsKept ==
  ASSUME Input, AllReturned, NEW f \in Answers, Straight(f), NEW k \in 2 .. Len(order),
         NEW r, Follows(r, f, k), \A p \in query : ~Filed(p, order[k], f)
  PROVE  /\ \A m \in Fns(order[k]) : ~Joinable(r, m)
         /\ Follows(r, f, k + 1)
<1>1. k \in 1 .. Len(order)
  BY OrderFacts
<1>2. PICK p \in query :
           /\ p \in Crossing(f) /\ order[k] = p.to
           /\ \A q \in query : order[k] \in Ends(q) => q = p
           /\ \E a \in 1 .. k - 1 : order[a] = p.from
           /\ \A m \in Fns(order[k]) : m # Half(p, f)
  BY <1>1, NearEndFirst
<1>3. p.from \in DOMAIN r /\ p.to \in DOMAIN r
  BY <1>2 DEF Follows
<1>4. ASSUME NEW m \in Fns(order[k]), Joinable(r, m)
      PROVE  FALSE
  <2>1. PICK q \in query : DOMAIN m = Ends(q)
    BY GroupRow
  <2>2. order[k] \in DOMAIN m /\ m \in [DOMAIN m -> Vertex]
    BY GroupRow, RowFacts
  <2>3. DOMAIN m = Ends(p)
    BY <1>2, <2>1, <2>2
  <2>4. \A x \in Ends(p) : m[x] = r[x] /\ r[x] = f[x]
    BY <1>3, <1>4, <2>3 DEF Joinable, Common, Follows, Ends
  <2>5. m = Half(p, f)
    BY <2>2, <2>3, <2>4 DEF Half
  <2> QED
    BY <1>2, <2>5
<1>5. \A a \in 1 .. (k + 1) - 1 : a \in 1 .. k - 1 \/ a = k
  BY <1>1, OrderFacts
<1>6. \A c \in Crossing(f) : order[k] # c.from
  BY DEF Filed, Ends, Crossing
<1>7. Follows(r, f, k + 1)
  BY <1>2, <1>3, <1>5, <1>6 DEF Follows
<1> QED
  BY <1>4, <1>7

\* A row that has the variables of all groups has all variables, at the end or
\* once two groups have been joined.
LEMMA Whole ==
  ASSUME Input, AllReturned, Cardinality(query) <= 2, NEW f \in Answers, Straight(f),
         NEW k \in 1 .. Len(order) + 1, k >= 3 \/ k = Len(order) + 1,
         NEW r \in Row, Pieces(r), Follows(r, f, k), Complete(r)
  PROVE  r = f
<1>1. SUFFICES ASSUME NEW x \in Variable, x \notin DOMAIN r PROVE FALSE
  <2>1. DOMAIN r = Variable /\ r \in [Variable -> Vertex]
    BY <1>1, RowFacts
  <2>2. f \in [Variable -> Vertex]
    BY DEF Answers
  <2>3. \A x \in Variable : r[x] = f[x]
    BY <2>1 DEF Follows
  <2> QED
    BY <2>1, <2>2, <2>3
<1>2. Group(x) = {}
  BY <1>1, OrderFacts DEF Complete
<1>3. \A p \in query : ~Filed(p, x, f)
  BY <1>2, FiledHalf
<1>4. PICK p \in query :
           /\ p \in Crossing(f) /\ x = p.to /\ x # p.from
           /\ \E a \in 1 .. Len(order) : order[a] = p.from
  BY <1>3, Unfiled
<1>5. PICK a \in 1 .. Len(order) : order[a] = p.from
  BY <1>4
<1>6. ~(a \in 1 .. k - 1)
  BY <1>1, <1>4, <1>5 DEF Follows
<1>7. k >= 3 /\ a >= k
  BY <1>5, <1>6, OrderFacts
<1>8. order[1] \in DOMAIN r /\ order[2] \in DOMAIN r /\ order[a] \in DOMAIN r
  <2>1. order[a] \in Range(order)
    BY <1>5, OrderFacts DEF Range
  <2> QED
    BY <1>7, <2>1, OrderFacts DEF Follows, Complete
<1>9. \A q \in query : Ends(q) \subseteq DOMAIN r => q # p
  BY <1>1, <1>4 DEF Ends
<1>10. PICK q \in query : q # p /\ \A c \in query : c # p => c = q
  BY <1>8, <1>9, OtherPattern
<1>11. DOMAIN r \subseteq Ends(q)
  BY <1>9, <1>10 DEF Pieces
<1>12. IsFiniteSet(DOMAIN r) /\ Cardinality(DOMAIN r) <= 2
  BY <1>11, EndsAreTwo
<1>13. order[1] = order[2] \/ order[1] = order[a] \/ order[2] = order[a]
  BY <1>8, <1>12, ThreeInTwo
<1> QED
  BY <1>5, <1>7, <1>13, OrderFacts DEF IsInjective

\* A pass of the loop loses no straight answer (executePartitioningBasedJoin).
LEMMA JoinReached ==
  ASSUME TypeInv, RowInv, AllReturned, Cardinality(query) <= 2,
         NEW f \in Answers, Straight(f), Reached(f), Join
  PROVE  f \in final' \/ \E r \in current' : Follows(r, f, i + 1)
<1>1. Input /\ i \in Nat /\ i >= 1 /\ Len(order) \in Nat
  BY OrderFacts DEF TypeInv
<1>2. i \in 1 .. Len(order) /\ i \in 2 .. Len(order)
  BY <1>1, JoinRows DEF Reached
<1>3. CASE f \in final
  BY <1>1, <1>3, JoinRows
<1>4. CASE f \notin final
  <2>1. PICK s \in current : Follows(s, f, i)
    BY <1>4 DEF Reached
  <2>2. s \in Row /\ Pieces(s) /\ \A x \in DOMAIN s : s[x] = f[x]
    BY <2>1 DEF TypeInv, RowInv, Follows
  <2>3. ASSUME NEW p \in query, Filed(p, order[i], f),
               \A c \in Crossing(f) : order[i] = c.from => c = p
        PROVE  f \in final' \/ \E r \in current' : Follows(r, f, i + 1)
    <3> DEFINE h == Half(p, f)
               j == JoinOf(s, h)
    <3>1. h \in Fns(order[i]) /\ h \in Row /\ Pieces(h)
      BY <1>1, <2>3, FiledHalf, GroupRow, PiecesOfGroup
    <3>2. Joinable(s, h)
      BY <1>1, <2>2, JoinsHalf
    <3>3. Follows(j, f, i + 1)
      BY <1>1, <1>2, <2>1, <2>2, <2>3, <3>2, FollowsJoin
    <3>4. j \in Row /\ Pieces(j)
      BY <1>1, <2>2, <3>1, <3>2, JoinOfFacts, PiecesJoin
    <3>5. Complete(j) => j = f
      <4> HIDE DEF j, h
      <4>1. i + 1 \in 1 .. Len(order) + 1 /\ i + 1 >= 3
        BY <1>1, <1>2
      <4> QED
        BY <1>1, <3>3, <3>4, <4>1, Whole
    <3>6. \/ Complete(j) /\ j \in final'
          \/ ~Complete(j) /\ j \in current'
      BY <1>1, <3>1, <3>2, JoinRows
    <3> QED
      BY <3>3, <3>5, <3>6
  <2>4. ASSUME \A p \in query : ~Filed(p, order[i], f)
        PROVE  \E r \in current' : Follows(r, f, i + 1)
    <3>1. /\ \A m \in Fns(order[i]) : ~Joinable(s, m)
          /\ Follows(s, f, i + 1)
      BY <1>1, <1>2, <2>1, <2>4, FollowsKept
    <3>2. PartiallyComplete(s)
      BY <1>2, <2>1 DEF PartiallyComplete, Follows
    <3>3. s \in current'
      BY <1>1, <3>1, <3>2, JoinRows
    <3> QED
      BY <3>1, <3>3
  <2>5. CASE \E c \in Crossing(f) : order[i] = c.from
    <3>1. PICK c \in Crossing(f) : order[i] = c.from
      BY <2>5
    <3>2. \A d \in Crossing(f) : order[i] = d.from => d = c
      BY <3>1 DEF Straight
    <3>3. c \in query /\ Filed(c, order[i], f)
      BY <3>1 DEF Filed, Ends, Crossing
    <3> QED
      BY <2>3, <3>2, <3>3
  <2> QED
    BY <2>3, <2>4, <2>5
<1> QED
  BY <1>3, <1>4

\* FoundInv holds when the loop begins,
LEMMA InitFound == Init => FoundInv
<1> SUFFICES ASSUME Init, AllReturned, NEW f \in Answers, Straight(f) PROVE Reached(f)
  BY DEF FoundInv
<1>1. Input
  BY DEF Init, Input
<1>2. order # <<>> /\ \E r \in Fns(order[1]) : Follows(r, f, 2)
  BY <1>1, FollowsStart
<1>3. Len(order) \in Nat /\ Len(order) # 0
  BY <1>1, <1>2, OrderFacts, EmptySeq
<1>4. i = 2 /\ current = Fns(order[1])
  BY <1>2 DEF Init
<1> QED
  BY <1>2, <1>3, <1>4 DEF Reached

\* and every step preserves it.
LEMMA StepFound == TypeInv /\ RowInv /\ FoundInv /\ [Next]_vars => FoundInv'
<1> SUFFICES ASSUME TypeInv, RowInv, FoundInv, [Next]_vars PROVE FoundInv'
  OBVIOUS
<1>1. UNCHANGED <<input, order>>
  BY DEF Next, Join, Finish, GetGraphData, vars
<1>2. SUFFICES ASSUME Cardinality(query) <= 2, AllReturned,
                      NEW f \in Answers, Straight(f), Specific(f)
               PROVE  Reached(f)'
  <2>1. query' = query /\ Answers' = Answers
    BY <1>1, InputStays
  <2>2. AllReturned' <=> AllReturned
    BY <1>1, InputStays
  <2>3. /\ \A f : Straight(f)' <=> Straight(f)
        /\ \A f : Specific(f)' <=> Specific(f)
    BY <1>1, InputStays
  <2> QED
    BY <1>2, <2>1, <2>2, <2>3 DEF FoundInv
<1>3. \A r, k : Follows(r, f, k)' <=> Follows(r, f, k)
  BY <1>1, InputStays DEF Follows, Crossing, input
<1>4. Reached(f)
  BY <1>2 DEF FoundInv
<1>5. Input /\ i \in Nat /\ i >= 2 /\ Len(order) \in Nat /\ order' = order
  BY <1>1, <1>4, OrderFacts, InputStays DEF TypeInv, Reached
<1>6. CASE Join
  <2>1. f \in final' \/ \E r \in current' : Follows(r, f, i + 1)
    BY <1>2, <1>4, <1>6, JoinReached
  <2>2. i' = i + 1 /\ i <= Len(order)
    BY <1>6 DEF Join
  <2> QED
    BY <1>3, <1>5, <2>1, <2>2 DEF Reached
<1>7. CASE Finish
  <2>1. f \in final'
    <3>1. CASE f \in final
      BY <1>2, <1>7, <3>1 DEF Finish
    <3>2. CASE f \notin final
      <4>1. PICK r \in current : Follows(r, f, i)
        BY <1>4, <3>2 DEF Reached
      <4>2. i = Len(order) + 1
        BY <1>7 DEF Finish
      <4>3. Complete(r)
        BY <1>5, <4>1, <4>2, OrderFacts DEF Complete, Follows, Range
      <4>4. r \in Row /\ Pieces(r)
        BY <1>2 DEF TypeInv, RowInv
      <4>5. r = f
        BY <1>2, <1>5, <4>1, <4>2, <4>3, <4>4, Whole
      <4> QED
        BY <1>2, <1>7, <4>1, <4>3, <4>5 DEF Finish
    <3> QED
      BY <3>1, <3>2
  <2> QED
    BY <1>5, <1>7, <2>1 DEF Reached, Finish
<1>8. CASE GetGraphData
  BY <1>4, <1>5, <1>8 DEF Reached, GetGraphData
<1>9. CASE UNCHANGED vars
  BY <1>3, <1>4, <1>9 DEF Reached, vars
<1> QED
  BY <1>6, <1>7, <1>8, <1>9 DEF Next

----------------------------------------------------------------------------
(* A RETURN that names the start only.                                     *)

\* Then there is one pattern, and of its ends the start is returned.
LEMMA OnlyStart ==
  ASSUME Input, StartsReturned, ~AllReturned
  PROVE  \E p \in query : /\ query = {p} /\ Variable \cap returned = {p.from}
                          /\ p.from \in returned /\ p.to \notin returned /\ ~Panics(p)
<1>1. Cardinality(query) = 1
  <2>1. CASE returned = Name
    BY <2>1 DEF Name, AllReturned
  <2> QED
    BY <2>1 DEF Input, Returns
<1>2. PICK p : query = {p}
  BY <1>1, FiniteQuery, FS_Singleton
<1>3. Variable = {p.from, p.to}
  BY <1>2 DEF Variable
<1>4. p.from \in returned /\ (p.name \in returned => p.to \in returned)
  BY <1>2 DEF StartsReturned
<1>5. p.to \notin returned
  BY <1>3, <1>4 DEF AllReturned
<1> QED
  BY <1>2, <1>3, <1>4, <1>5 DEF Panics

\* There is a single group, that of the start, and the start of every answer is in it:
\* matches with the same start come from the partition of that start.
LEMMA StartsFiled ==
  ASSUME Input, StartsReturned, ~AllReturned, NEW f \in Answers
  PROVE  /\ Len(order) = 1 /\ order # <<>> /\ Shown(f) \in Fns(order[1])
         /\ Range(order) = DOMAIN Shown(f)
<1>1. PICK p \in query : /\ query = {p} /\ Variable \cap returned = {p.from}
                         /\ p.from \in returned /\ p.to \notin returned /\ ~Panics(p)
  BY OnlyStart
<1>2. Ends(p) \cap returned = {p.from}
  BY <1>1 DEF Ends
<1> DEFINE e == <<f[p.from], f[p.to]>>
           m == MatchOf(p, e)
<1>3. e \in rel[p] /\ e \in Vertex \X Vertex /\ e[1] = f[p.from] /\ (p.from = p.to => e[1] = e[2])
  BY AnswerFacts
<1>4. m \in Matches
  BY <1>1, <1>3, MatchIs
<1>5. /\ DOMAIN m.fn = {p.from} /\ m.fn[p.from] = f[p.from] /\ f[p.from] \in m.internal
      /\ m.fn \in [{p.from} -> Vertex] /\ m.part = home[f[p.from]]
  <2>1. /\ DOMAIN m.fn = Ends(p) \cap returned /\ m.fn \in [Ends(p) \cap returned -> Vertex]
        /\ m.fn[p.from] = e[1] /\ e[1] \in m.internal /\ m.part = home[e[1]]
    BY <1>1, <1>3, MatchBinds
  <2> QED
    BY <1>2, <1>3, <2>1
<1> HIDE DEF m, e
<1>6. ASSUME NEW n \in Matches, n.fn = m.fn
      PROVE  n.part = m.part
  <2>1. PICK g \in rel[p] : n = MatchOf(p, g) /\ (p.from = p.to => g[1] = g[2])
    BY <1>1, MatchIs
  <2>2. n.fn[p.from] = g[1] /\ n.part = home[g[1]]
    BY <1>1, <2>1, RelIs, MatchBinds
  <2> QED
    BY <1>5, <1>6, <2>2
<1>7. m \in matches
  BY <1>4, <1>6, AllKept
<1>8. m \in Group(p.from)
  BY <1>5, <1>7 DEF Group
<1>9. Shown(f) = m.fn
  BY <1>1, <1>5 DEF Shown, Restrict
<1>10. ASSUME NEW x \in Variable, Group(x) # {}
       PROVE  x = p.from
  <2>1. PICK r \in Fns(x) : TRUE
    BY <1>10 DEF Fns
  <2>2. r \in Row /\ x \in DOMAIN r
    BY GroupRow
  <2> QED
    BY <1>1, <2>2, RowFacts
<1>11. Range(order) = {p.from}
  BY <1>1, <1>8, <1>10, OrderFacts
<1>12. /\ Len(order) \in Nat /\ DOMAIN order = 1 .. Len(order)
       /\ \A a \in 1 .. Len(order) : order[a] = p.from
  BY <1>11, OrderFacts DEF Range
<1>13. Len(order) >= 1
  BY <1>11, <1>12 DEF Range
<1>14. Len(order) = 1
  <2>1. ASSUME Len(order) >= 2 PROVE FALSE
    <3>1. 1 \in DOMAIN order /\ 2 \in DOMAIN order /\ order[1] = order[2]
      BY <1>12, <2>1
    <3> QED
      BY <3>1, OrderFacts DEF IsInjective
  <2> QED
    BY <1>12, <1>13, <2>1
<1>15. order[1] = p.from /\ order # <<>>
  BY <1>12, <1>14, EmptySeq
<1>16. Shown(f) \in Fns(order[1])
  BY <1>8, <1>9, <1>15 DEF Fns
<1> QED
  BY <1>5, <1>9, <1>11, <1>14, <1>15, <1>16

\* The invariant behind Found in that case: the start waits for the end of the loop,
\* in which there is nothing to join.
StartInv ==
  StartsReturned /\ ~AllReturned =>
    \A f \in Answers : Specific(f) =>
      /\ i >= 2
      /\ Shown(f) \in final \/ (i = Len(order) + 1 /\ Shown(f) \in current)

\* StartInv holds when the loop begins,
LEMMA InitStart == Init => StartInv
<1> SUFFICES ASSUME Init, StartsReturned, ~AllReturned, NEW f \in Answers
             PROVE  i >= 2 /\ i = Len(order) + 1 /\ Shown(f) \in current
  BY DEF StartInv
<1>1. Input
  BY DEF Init, Input
<1>2. Len(order) = 1 /\ order # <<>> /\ Shown(f) \in Fns(order[1])
  BY <1>1, StartsFiled
<1> QED
  BY <1>2 DEF Init

\* and every step preserves it.
LEMMA StepStart == TypeInv /\ StartInv /\ [Next]_vars => StartInv'
<1> SUFFICES ASSUME TypeInv, StartInv, [Next]_vars PROVE StartInv'
  OBVIOUS
<1>1. UNCHANGED <<input, order>>
  BY DEF Next, Join, Finish, GetGraphData, vars
<1>2. SUFFICES ASSUME StartsReturned, ~AllReturned, NEW f \in Answers, Specific(f)
               PROVE  /\ i' >= 2
                      /\ \/ Shown(f) \in final'
                         \/ i' = Len(order) + 1 /\ Shown(f) \in current'
  <2>1. Answers' = Answers /\ order' = order
    BY <1>1, InputStays
  <2>2. (AllReturned' <=> AllReturned) /\ (StartsReturned' <=> StartsReturned)
    BY <1>1, InputStays
  <2>3. /\ \A f : Specific(f)' <=> Specific(f)
        /\ \A f : Shown(f)' = Shown(f)
    BY <1>1, InputStays
  <2> QED
    BY <1>2, <2>1, <2>2, <2>3 DEF StartInv
<1>3. i >= 2 /\ (Shown(f) \in final \/ (i = Len(order) + 1 /\ Shown(f) \in current))
  BY <1>2 DEF StartInv
<1>4. Input /\ i \in Nat /\ Len(order) = 1 /\ Complete(Shown(f))
  BY <1>2, StartsFiled, OrderFacts DEF TypeInv, Complete
<1>5. Specific(Shown(f))
  <2>1. DOMAIN Shown(f) \subseteq DOMAIN f /\ \A x \in DOMAIN Shown(f) : Shown(f)[x] = f[x]
    BY <1>2 DEF Shown, Restrict, Answers
  <2> QED
    BY <1>2, <2>1 DEF Specific
<1>6. CASE Join
  BY <1>3, <1>4, <1>6 DEF Join
<1>7. CASE Finish
  BY <1>3, <1>4, <1>5, <1>7 DEF Finish
<1>8. CASE GetGraphData
  BY <1>3, <1>4, <1>8 DEF GetGraphData
<1>9. CASE UNCHANGED vars
  BY <1>3, <1>9 DEF vars
<1> QED
  BY <1>6, <1>7, <1>8, <1>9 DEF Next

\* Of one or two relationship patterns, every answer that does not cross twice from
\* one variable or into one is among the final results when the join is done, as far
\* as the RETURN names it and if it names its starts, in whatever order the groups
\* come.
THEOREM NothingStraightIsLost == Spec => []Found
<1>1. TypeInv /\ FoundInv /\ StartInv => Found
  <2> SUFFICES ASSUME TypeInv, FoundInv, StartInv, Done, Cardinality(query) <= 2,
                      StartsReturned, NEW f \in Answers, Straight(f), Specific(f)
               PROVE  Shown(f) \in final
    BY DEF Found
  <2>1. Len(order) \in Nat /\ i \in Nat /\ i > Len(order) + 1
    BY OrderFacts DEF TypeInv, Done
  <2>2. CASE AllReturned
    <3>1. f \in final
      BY <2>1, <2>2 DEF FoundInv, Reached
    <3>2. f \in [Variable -> Vertex] /\ Variable \cap returned = Variable
      BY <2>2 DEF Answers, AllReturned
    <3>3. Shown(f) = f
      BY <3>2 DEF Shown, Restrict
    <3> QED
      BY <3>1, <3>3
  <2>3. CASE ~AllReturned
    BY <2>1, <2>3 DEF StartInv
  <2> QED
    BY <2>2, <2>3
<1> QED
  BY <1>1, InitTypeInv, StepTypeInv, InitRowInv, StepRowInv, InitFound, StepFound,
     InitStart, StepStart, PTL DEF Spec

----------------------------------------------------------------------------
(* The picture.                                                            *)

\* What is drawn are the arrows of the final results.
DrawnInv ==
  i = Len(order) + 3 => edges = UNION {Arrows(final, p) : p \in query}

\* Every step preserves DrawnInv: only GetGraphData draws, after the last change of
\* the final results.
LEMMA StepDrawn == TypeInv /\ DrawnInv /\ [Next]_vars => DrawnInv'
<1> SUFFICES ASSUME TypeInv, DrawnInv, [Next]_vars PROVE DrawnInv'
  OBVIOUS
<1>1. UNCHANGED <<input, order>>
  BY DEF Next, Join, Finish, GetGraphData, vars
<1>2. order' = order /\ query' = query /\ Len(order) \in Nat /\ i \in Nat
  BY <1>1, InputStays, OrderFacts DEF TypeInv
<1>3. CASE Join
  BY <1>2, <1>3 DEF Join, DrawnInv
<1>4. CASE Finish
  BY <1>2, <1>4 DEF Finish, DrawnInv
<1>5. CASE GetGraphData
  BY <1>2, <1>5 DEF GetGraphData, DrawnInv, Arrows
<1>6. CASE UNCHANGED vars
  BY <1>2, <1>6 DEF vars, picture, DrawnInv, Arrows
<1> QED
  BY <1>3, <1>4, <1>5, <1>6 DEF Next

\* If both ends of one pattern are returned, those of all are.
LEMMA AllOrOne ==
  ASSUME Input, NEW p \in query, Ends(p) \subseteq returned
  PROVE  AllReturned
<1>1. CASE returned = Name
  BY <1>1 DEF Name, AllReturned
<1>2. CASE Cardinality(query) = 1
  <2>1. query = {p}
    BY <1>2, FiniteQuery, FS_Singleton
  <2> QED
    BY <2>1 DEF AllReturned, Variable, Ends
<1> QED
  BY <1>1, <1>2 DEF Input, Returns

\* The picture sent to the browser shows only edges that the query matched, when every
\* pattern has a variable of its own, and, for one or two patterns whose ends are
\* returned, all edges of the straight answers.
THEOREM PictureIsTrue == Spec => []Pictured
<1>1. Init => DrawnInv
  <2> SUFFICES ASSUME Init PROVE DrawnInv
    OBVIOUS
  <2>1. Input
    BY DEF Init, Input
  <2>2. Len(order) \in Nat
    BY <2>1, OrderFacts
  <2> QED
    BY <2>2 DEF Init, DrawnInv
<1>2. TypeInv /\ RowInv /\ FoundInv /\ DrawnInv => Pictured
  <2>1. SUFFICES ASSUME TypeInv, RowInv, FoundInv, DrawnInv, i = Len(order) + 3
                 PROVE  /\ EachHasItsOwn => edges \subseteq UNION {rel[p] : p \in query}
                        /\ Cardinality(query) <= 2 /\ AllReturned =>
                             \A f \in Answers : Straight(f) /\ Specific(f) =>
                               \A p \in query : <<f[p.from], f[p.to]>> \in edges
    BY DEF Pictured
  <2>2. Input /\ Len(order) \in Nat
    BY <2>1, OrderFacts DEF TypeInv
  <2>3. \A e : e \in edges <=> \E p \in query : e \in Arrows(final, p)
    BY <2>1 DEF DrawnInv
  <2>4. ASSUME EachHasItsOwn, NEW p \in query, NEW e \in Arrows(final, p)
        PROVE  e \in rel[p]
    <3>1. PICK r \in final : Ends(p) \subseteq DOMAIN r /\ e = <<r[p.from], r[p.to]>>
      BY <2>4 DEF Arrows, Ends
    <3>2. AllReturned
      <4>1. Ends(p) \subseteq returned
        BY <2>1, <2>2, <3>1, RowFacts DEF TypeInv
      <4> QED
        BY <2>2, <4>1, AllOrOne
    <3>3. Pieces(r)
      BY <2>1, <3>1, <3>2 DEF RowInv
    <3> QED
      BY <2>4, <3>1, <3>3, OwnMatched
  <2>5. ASSUME Cardinality(query) <= 2, AllReturned, NEW f \in Answers, Straight(f),
               Specific(f), NEW p \in query
        PROVE  <<f[p.from], f[p.to]>> \in Arrows(final, p)
    <3>1. f \in final
      BY <2>1, <2>2, <2>5 DEF FoundInv, Reached
    <3>2. Ends(p) \subseteq DOMAIN f
      BY <2>2, AnswerFacts
    <3> QED
      BY <3>1, <3>2 DEF Arrows, Ends
  <2> QED
    BY <2>3, <2>4, <2>5
<1> QED
  BY <1>1, <1>2, InitTypeInv, StepTypeInv, InitRowInv, StepRowInv, InitFound,
     StepFound, StepDrawn, PTL DEF Spec
=============================================================================
