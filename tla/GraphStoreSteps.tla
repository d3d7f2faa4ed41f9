-------------------------- MODULE GraphStoreSteps ---------------------------
(***************************************************************************)
(* What the steps of GraphStore do to vertices. What a partition has to do *)
(* with a vertex is spread over the master's lists, the worker, its Neo4j, *)
(* messages on their way and the local variables of requests; Owns gathers *)
(* them. The inductive invariant IInv says that no vertex is owned twice;  *)
(* Flow says what every step may do to numbers, to messages and to owners, *)
(* whatever the unlocked updates and the late messages are.                *)
(***************************************************************************)
EXTENDS GraphStoreBase

----------------------------------------------------------------------------
(* Identifiers.                                                            *)

\* The messages that partition p has yet to store or to run.
OnWay(p) ==
  {msg[c] : c \in {d \in Client : leg[d][p] \in Underway}} \cup
  {x.msg : x \in {y \in late : y.part = p}}

\* Vertex i is to be created in partition p.
Carried(p, i) == \E m \in OnWay(p) : m.kind = "AddVertex" /\ m.id = i
Coming(i) == \E p \in Part : Carried(p, i)

\* A number that was given out, and whose existence check is over.
Numbered(i) ==
  /\ i \in 0 .. counter
  /\ \A c \in Client : pc[c] = "exists" => reg[c].id # i

\* It was created, or never will be.
Over(i) == Numbered(i) /\ ~Coming(i)

\* A number is given out once, and one message at most says to create it.
IdInv ==
  /\ \A c \in Client : pc[c] \in {"exists", "addVertex", "summary"} => reg[c].id \in 1 .. counter
  /\ \A c, d \in Client :
       pc[c] \in {"exists", "addVertex"} /\ pc[d] \in {"exists", "addVertex"}
         /\ reg[c].id = reg[d].id => c = d
  /\ \A x, y \in late :
       x.msg.kind = "AddVertex" /\ y.msg.kind = "AddVertex" /\ x.msg.id = y.msg.id => x = y
  /\ \A x \in late, c \in Client, p \in Part :
       x.msg.kind = "AddVertex" /\ pc[c] = "addVertex" /\ leg[c][p] \in Underway
         => x.msg.id # reg[c].id

\* What is in a Neo4j, was found there, or is to be deleted does not come again.
OverInv ==
  /\ \A p \in Part : \A i \in db[p].verts : Over(i)
  /\ \A c \in Client : \A i \in scan[c].found : Over(i)
  /\ \A c \in Client : Over(reg[c].v1) /\ Over(reg[c].a)
  /\ \A i \in condemned : Over(i)

----------------------------------------------------------------------------
(* Homes and ghosts.                                                       *)

\* Partition p has vertex i, or may yet get it.
Holds(p, i) == i \in mVerts[p] \cup mem[p].verts \cup db[p].verts
Claims(c, p, i) ==
  \/ pc[c] \in {"addVertex", "summary"} /\ reg[c].part = {p} /\ reg[c].id = i
  \/ pc[c] = "summary" /\ reg[c].part = {p} /\ i \in reg[c].list
  \/ pc[c] = "forget" /\ reg[c].home = {p} /\ i \in reg[c].list
Owns(p, i) == Holds(p, i) \/ Carried(p, i) \/ \E c \in Client : Claims(c, p, i)

HomeInv ==
  /\ \A p \in Part, i \in Id : Owns(p, i) => Numbered(i)
  /\ \A p, q \in Part, i \in Id : Owns(p, i) /\ Owns(q, i) => p = q

GhostInv ==
  /\ \A p \in Part : \A i \in mGhosts[p] : Numbered(i) /\ ~Owns(p, i)
  /\ \A c \in Client : \A p \in Part :
       pc[c] \in {"cross", "ghost"} /\ p \in reg[c].part
         => Numbered(reg[c].ghost) /\ ~Owns(p, reg[c].ghost)
  /\ \A p \in Part : mem[p].ghosts \cup db[p].ghosts \subseteq mGhosts[p]
  /\ \A p \in Part : \A m \in OnWay(p) : m.kind = "AddGhostVertex" => m.id \in mGhosts[p]

\* An acknowledged vertex is there until its deletion was sent.
AckInv ==
  /\ \A c \in Client, p \in Part :
       pc[c] = "addVertex" /\ leg[c][p] = "ack" => reg[c].id \in condemned \cup db[p].verts
  /\ \A p \in Part : \A m \in OnWay(p) : m.kind = "DeleteVertex" => m.id \in condemned
  /\ DurableAck

IInv == Base /\ IdInv /\ OverInv /\ HomeInv /\ GhostInv /\ AckInv

----------------------------------------------------------------------------
(* What the steps do to what the invariants speak of.  Most steps of a     *)
(* request stand aside: they neither number nor create nor list a vertex.  *)

Aside(c) ==
  /\ StepOf(c)
  /\ pc'[c] \notin {"exists", "addVertex", "summary", "forget"}
  /\ scan'[c].found \subseteq scan[c].found
  /\ reg'[c].v1 \in {reg[c].v1, NoId} \cup scan[c].found
  /\ reg'[c].a \in {reg[c].a, NoId} \cup scan[c].found
  /\ condemned' \in {condemned, condemned \cup {reg[c].v1}}
  /\ pc'[c] = "delVertex" => DeleteVertex(c)
  /\ pc'[c] = "addGhost" => AddGhost(c)
  /\ pc'[c] \in {"cross", "ghost"} => Plan(c) \/ NeedGhost(c)
  /\ mGhosts' = mGhosts \/ AddGhost(c)
  /\ UNCHANGED <<ids, mVerts, workers, db, acked, channel>>

\* A handler that returns stands aside.
LEMMA FinishAside ==
  ASSUME Base, NEW c \in Client, NEW a \in Reply, Finish(c, a),
         UNCHANGED <<ids, mVerts, mGhosts, workers, db, acked, condemned, channel>>
  PROVE  Aside(c)
<1>1. /\ StepOf(c) /\ pc'[c] = "idle" /\ reg'[c] = NoReg /\ scan'[c] = NoScan
  BY FinishStep, BaseParts DEF LocalInv
<1>2. NoReg.v1 = NoId /\ NoReg.a = NoId /\ NoScan.found = {}
  BY DEF NoReg, NoScan
<1> QED
  BY <1>1, <1>2 DEF Aside

\* Steps that start a search, from the new registers on.
LEMMA SearchAside ==
  ASSUME Base, NEW c \in Client,
         NEW w \in {"lookA", "lookB", "checkA", "checkB", "confirm", "duplicate", "find"},
         StartNodeScan(c, w) \/ StartEdgeScan(c, w),
         NEW r \in Registers, reg' = [reg EXCEPT ![c] = r], UNCHANGED sending,
         r.v1 \in {reg[c].v1, NoId} \cup scan[c].found,
         r.a \in {reg[c].a, NoId} \cup scan[c].found,
         UNCHANGED <<ids, mVerts, mGhosts, workers, db, acked, condemned, channel>>
  PROVE  Aside(c)
<1>1. LocalType
  BY BaseParts
<1>2. /\ StepOf(c) /\ pc'[c] = w /\ reg'[c] = r
  BY <1>1 DEF StartNodeScan, StartEdgeScan, StepOf, Same, sending, LocalType
<1>3. scan'[c].found = {}
  BY <1>1 DEF StartNodeScan, StartEdgeScan, LocalType, NoScan
<1> QED
  BY <1>2, <1>3 DEF Aside

\* Steps that go on without a search or a message.
LEMMA PcAside ==
  ASSUME Base, NEW c \in Client,
         NEW w \in {"next", "cross", "ghost", "edge"}, pc' = [pc EXCEPT ![c] = w],
         NEW r \in Registers, reg' = [reg EXCEPT ![c] = r], UNCHANGED sending,
         r.v1 \in {reg[c].v1, NoId}, r.a \in {reg[c].a, NoId}, UNCHANGED scan,
         w \in {"cross", "ghost"} => Plan(c) \/ NeedGhost(c),
         UNCHANGED <<ids, mVerts, mGhosts, workers, db, acked, condemned, channel>>
  PROVE  Aside(c)
<1>1. LocalType
  BY BaseParts
<1>2. /\ StepOf(c) /\ pc'[c] = w /\ reg'[c] = r
  BY <1>1 DEF StepOf, Same, sending, LocalType
<1> QED
  BY <1>2 DEF Aside

\* Steps that send a message that does not create a vertex.
LEMMA SendAside ==
  ASSUME Base, NEW c \in Client, NEW P, NEW m,
         NEW w \in {"addGhost", "addEdge", "delVertex", "delEdge"}, Send(c, P, m, w),
         NEW r \in Registers, reg' = [reg EXCEPT ![c] = r], UNCHANGED scan,
         r.v1 = reg[c].v1, r.a = reg[c].a,
         condemned' \in {condemned, condemned \cup {reg[c].v1}},
         w = "delVertex" => DeleteVertex(c),
         w = "addGhost" => AddGhost(c),
         mGhosts' = mGhosts \/ AddGhost(c),
         UNCHANGED <<ids, mVerts, workers, db, acked, channel>>
  PROVE  Aside(c)
<1>1. LocalType
  BY BaseParts
<1>2. StepOf(c) /\ pc'[c] = w /\ reg'[c] = r
  BY <1>1 DEF Send, StepOf, Same, LocalType
<1> QED
  BY <1>2 DEF Aside

\* HandleCypher starts a request.
LEMMA BeginAside == ASSUME Base, NEW c \in Client, NEW r \in Request, Begin(c, r) PROVE Aside(c)
<1> DEFINE s == [NoReg EXCEPT !.req = r]
<1>1. s \in Registers /\ reg' = [reg EXCEPT ![c] = s]
  BY RequestSet DEF Begin
<1>2. s.v1 = NoId /\ s.a = NoId
  BY DEF NoReg
<1> HIDE DEF s
<1>3. CASE r.op \in {"AddVertex", "AddEdge"}
  BY <1>1, <1>2, <1>3, PcAside DEF Begin, metadata
<1>4. CASE r.op \notin {"AddVertex", "AddEdge"}
  BY <1>1, <1>2, <1>4, SearchAside DEF Begin, metadata
<1> QED
  BY <1>3, <1>4

\* The loop over variables is over.
LEMMA VariablesDoneAside == ASSUME Base, NEW c \in Client, VariablesDone(c) PROVE Aside(c)
<1>1. (reg' = [reg EXCEPT ![c] = reg[c]] /\ reg[c] \in Registers) \/ Finish(c, "create")
  BY BaseParts DEF VariablesDone
<1>2. CASE Finish(c, "create")
  BY <1>2, FinishAside DEF VariablesDone, Reply, metadata
<1>3. CASE ~Finish(c, "create")
  BY <1>1, <1>3, SearchAside DEF VariablesDone, metadata
<1> QED
  BY <1>2, <1>3

\* A vertex that exists is not placed.
LEMMA ExistsAside == ASSUME Base, NEW c \in Client, Exists(c) PROVE Aside(c)
<1>1. reg' = [reg EXCEPT ![c] = reg[c]] /\ reg[c] \in Registers
  BY BaseParts DEF Exists, local
<1> QED
  BY <1>1, PcAside DEF Exists, metadata, local, history

\* What was looked up first was found in this search, or is no identifier.
LEMMA LookedAAside == ASSUME Base, NEW c \in Client, LookedA(c) PROVE Aside(c)
<1>1. CASE Finish(c, "Delete")
  BY <1>1, FinishAside DEF LookedA, Reply, metadata
<1>2. CASE ~Finish(c, "Delete")
  <2>1. PICK i \in OneOf(scan[c].found) : reg' = [reg EXCEPT ![c].v1 = i]
    BY <1>2 DEF LookedA
  <2>2. i \in AnyId /\ i \in {NoId} \cup scan[c].found
    BY BaseParts, NoIdFacts DEF OneOf
  <2>3. reg[c] \in Registers
    BY BaseParts
  <2> DEFINE r == [reg[c] EXCEPT !.v1 = i]
             w == IF reg[c].req.op = "DeleteVertex" THEN "confirm" ELSE "lookB"
  <2>4. r \in Registers
    BY <2>2, <2>3, RegIdSet
  <2>5. r.v1 = i /\ r.a = reg[c].a
    BY <2>3 DEF Registers
  <2>6. reg' = [reg EXCEPT ![c] = r]
    BY <2>1
  <2>7. StartNodeScan(c, w) /\ UNCHANGED sending /\ w \in {"confirm", "lookB"}
    BY <1>2 DEF LookedA
  <2> HIDE DEF r, w
  <2> QED
    BY <2>2, <2>4, <2>5, <2>6, <2>7, SearchAside DEF LookedA, metadata
<1> QED
  BY <1>1, <1>2

\* The second end point does not change what is known of the first.
LEMMA LookedBAside == ASSUME Base, NEW c \in Client, LookedB(c) PROVE Aside(c)
<1>1. CASE Finish(c, "Delete")
  BY <1>1, FinishAside DEF LookedB, Reply, metadata
<1>2. CASE ~Finish(c, "Delete")
  <2>1. PICK i \in OneOf(scan[c].found) : reg' = [reg EXCEPT ![c].v2 = i]
    BY <1>2 DEF LookedB
  <2>2. i \in AnyId
    BY BaseParts, NoIdFacts DEF OneOf
  <2>3. reg[c] \in Registers
    BY BaseParts
  <2> DEFINE r == [reg[c] EXCEPT !.v2 = i]
  <2>4. r \in Registers
    BY <2>2, <2>3, RegIdSet
  <2>5. r.v1 = reg[c].v1 /\ r.a = reg[c].a
    BY <2>3 DEF Registers
  <2>6. reg' = [reg EXCEPT ![c] = r]
    BY <2>1
  <2>7. StartNodeScan(c, "checkA") /\ UNCHANGED sending
    BY <1>2 DEF LookedB
  <2> HIDE DEF r
  <2> QED
    BY <2>4, <2>5, <2>6, <2>7, SearchAside DEF LookedB, metadata
<1> QED
  BY <1>1, <1>2

\* The first end is checked: it was found in this search, or is no
\* identifier.
LEMMA CheckedAAside == ASSUME Base, NEW c \in Client, CheckedA(c) PROVE Aside(c)
<1>1. CASE Finish(c, "error")
  BY <1>1, FinishAside DEF CheckedA, Reply, metadata
<1>2. CASE ~Finish(c, "error")
  <2>1. PICK i \in OneOf(scan[c].found) : reg' = [reg EXCEPT ![c].a = i]
    BY <1>2 DEF CheckedA
  <2>2. i \in AnyId /\ i \in {NoId} \cup scan[c].found
    BY BaseParts, NoIdFacts DEF OneOf
  <2>3. reg[c] \in Registers
    BY BaseParts
  <2> DEFINE r == [reg[c] EXCEPT !.a = i]
  <2>4. r \in Registers
    BY <2>2, <2>3, RegIdSet
  <2>5. r.v1 = reg[c].v1 /\ r.a = i
    BY <2>3 DEF Registers
  <2>6. reg' = [reg EXCEPT ![c] = r]
    BY <2>1
  <2>7. StartNodeScan(c, "checkB") /\ UNCHANGED sending
    BY <1>2 DEF CheckedA
  <2> HIDE DEF r
  <2> QED
    BY <2>2, <2>4, <2>5, <2>6, <2>7, SearchAside DEF CheckedA, metadata
<1> QED
  BY <1>1, <1>2

\* The second end is checked.
LEMMA CheckedBAside == ASSUME Base, NEW c \in Client, CheckedB(c) PROVE Aside(c)
<1>1. CASE Finish(c, "error")
  BY <1>1, FinishAside DEF CheckedB, Reply, metadata
<1>2. CASE ~Finish(c, "error")
  <2>1. PICK i \in scan[c].found : reg' = [reg EXCEPT ![c].b = i]
    BY <1>2 DEF CheckedB
  <2>2. i \in AnyId
    BY BaseParts, NoIdFacts
  <2>3. reg[c] \in Registers
    BY BaseParts
  <2> DEFINE r == [reg[c] EXCEPT !.b = i]
             w == IF reg[c].req.op = "AddEdge" THEN "duplicate" ELSE "find"
  <2>4. r \in Registers
    BY <2>2, <2>3, RegIdSet
  <2>5. r.v1 = reg[c].v1 /\ r.a = reg[c].a
    BY <2>3 DEF Registers
  <2>6. reg' = [reg EXCEPT ![c] = r]
    BY <2>1
  <2>7. StartEdgeScan(c, w) /\ UNCHANGED sending /\ w \in {"duplicate", "find"}
    BY <1>2 DEF CheckedB
  <2> HIDE DEF r, w
  <2> QED
    BY <2>4, <2>5, <2>6, <2>7, SearchAside DEF CheckedB, metadata
<1> QED
  BY <1>1, <1>2

\* ProcessAddEdge2PC chooses the partition and the ghost.
LEMMA PlanAside == ASSUME Base, NEW c \in Client, Plan(c) PROVE Aside(c)
<1>1. CASE Finish(c, "error")
  BY <1>1, FinishAside DEF Plan, Reply, metadata
<1>2. CASE ~Finish(c, "error")
  <2>1. PICK p1 \in Part, p2 \in Part :
          /\ reg' = [reg EXCEPT
               ![c].part = {IF p1 # p2 /\ reg[c].v1 \in mGhosts[p1] THEN p2 ELSE p1},
               ![c].ghost = IF reg[c].v1 \in mGhosts[p1] THEN reg[c].v1 ELSE reg[c].v2]
          /\ pc' = [pc EXCEPT ![c] = IF p1 = p2 THEN "edge" ELSE "cross"]
          /\ UNCHANGED <<scan, sending, reply>>
    BY <1>2 DEF Plan, Home
  <2>2. reg[c] \in Registers /\ reg[c].v1 \in AnyId /\ reg[c].v2 \in AnyId
    BY BaseParts, RegGet
  <2>3. PICK P \in SUBSET Part :
          P = {IF p1 # p2 /\ reg[c].v1 \in mGhosts[p1] THEN p2 ELSE p1}
    OBVIOUS
  <2>a. PICK g \in AnyId : g = IF reg[c].v1 \in mGhosts[p1] THEN reg[c].v1 ELSE reg[c].v2
    BY <2>2
  <2>b. PICK w \in {"edge", "cross"} : w = IF p1 = p2 THEN "edge" ELSE "cross"
    OBVIOUS
  <2> DEFINE r == [reg[c] EXCEPT !.part = P, !.ghost = g]
  <2>c. reg' = [reg EXCEPT ![c] = r]
    BY <2>1, <2>3, <2>a
  <2>d. pc' = [pc EXCEPT ![c] = w]
    BY <2>1, <2>b
  <2>4. r \in Registers
    BY <2>2, RegGhostSet
  <2>5. r.v1 = reg[c].v1 /\ r.a = reg[c].a
    BY <2>2 DEF Registers
  <2> HIDE DEF r
  <2> QED
    BY <2>1, <2>c, <2>d, <2>4, <2>5, PcAside DEF Plan, metadata
<1> QED
  BY <1>1, <1>2

\* A ghost is needed or not.
LEMMA NeedGhostAside == ASSUME Base, NEW c \in Client, NeedGhost(c) PROVE Aside(c)
<1>1. reg' = [reg EXCEPT ![c] = reg[c]] /\ reg[c] \in Registers
  BY BaseParts DEF NeedGhost, local
<1>2. PICK w \in {"edge", "ghost"} : pc' = [pc EXCEPT ![c] = w]
  BY DEF NeedGhost
<1> QED
  BY <1>1, <1>2, PcAside DEF NeedGhost, metadata, local, history

\* Only this step lists a ghost.
LEMMA AddGhostAside == ASSUME Base, NEW c \in Client, AddGhost(c) PROVE Aside(c)
<1>1. reg' = [reg EXCEPT ![c] = reg[c]] /\ reg[c] \in Registers
  BY BaseParts DEF AddGhost, local
<1>2. PICK P, m : Send(c, P, m, "addGhost")
  BY DEF AddGhost
<1> QED
  BY <1>1, <1>2, SendAside DEF AddGhost, local, history

\* The answer to addGhostToWorker.
LEMMA GhostAddedAside == ASSUME Base, NEW c \in Client, GhostAdded(c) PROVE Aside(c)
<1>1. CASE Finish(c, "error")
  BY <1>1, FinishAside DEF GhostAdded, Reply, metadata
<1>2. CASE ~Finish(c, "error")
  <2>1. reg' = [reg EXCEPT ![c] = reg[c]] /\ reg[c] \in Registers
    BY <1>2, BaseParts DEF GhostAdded, local
  <2> QED
    BY <1>2, <2>1, PcAside DEF GhostAdded, metadata, local
<1> QED
  BY <1>1, <1>2

\* An edge is put down and sent.
LEMMA AddEdgeAside == ASSUME Base, NEW c \in Client, AddEdge(c) PROVE Aside(c)
<1>1. reg' = [reg EXCEPT ![c] = reg[c]] /\ reg[c] \in Registers
  BY BaseParts DEF AddEdge, local
<1>2. PICK P, m : Send(c, P, m, "addEdge")
  BY DEF AddEdge
<1> QED
  BY <1>1, <1>2, SendAside DEF AddEdge, local, history

\* The answer to the message of an edge.
LEMMA EdgeAddedAside == ASSUME Base, NEW c \in Client, EdgeAdded(c) PROVE Aside(c)
<1>1. PICK a \in Reply : Finish(c, a)
  BY DEF EdgeAdded, Reply
<1> QED
  BY <1>1, FinishAside DEF EdgeAdded, metadata

\* Only this step condemns a vertex: the one it names to the workers.
LEMMA DeleteVertexAside == ASSUME Base, NEW c \in Client, DeleteVertex(c) PROVE Aside(c)
<1>1. CASE Finish(c, "error") /\ UNCHANGED condemned
  BY <1>1, FinishAside DEF DeleteVertex, Reply, metadata
<1>2. CASE ~(Finish(c, "error") /\ UNCHANGED condemned)
  <2>1. PICK K \in SUBSET Part : K = Knowing(reg[c].v1)
    BY DEF Knowing
  <2>2. PICK m : /\ Send(c, Part, m, "delVertex")
                 /\ reg' = [reg EXCEPT ![c].part = K]
                 /\ condemned' = condemned \cup {reg[c].v1}
                 /\ UNCHANGED <<scan, reply>>
    BY <1>2, <2>1 DEF DeleteVertex
  <2>3. reg[c] \in Registers
    BY BaseParts
  <2> DEFINE r == [reg[c] EXCEPT !.part = K]
  <2>4. r \in Registers
    BY <2>3, RegPartSet
  <2>5. r.v1 = reg[c].v1 /\ r.a = reg[c].a
    BY <2>3 DEF Registers
  <2>6. reg' = [reg EXCEPT ![c] = r]
    BY <2>2
  <2> HIDE DEF r
  <2> QED
    BY <2>2, <2>4, <2>5, <2>6, SendAside DEF DeleteVertex, metadata
<1> QED
  BY <1>1, <1>2

\* The partitions affected are told to delete an edge.
LEMMA DeleteEdgeAside == ASSUME Base, NEW c \in Client, DeleteEdge(c) PROVE Aside(c)
<1>1. CASE Finish(c, "error")
  BY <1>1, FinishAside DEF DeleteEdge, Reply, metadata
<1>2. CASE ~Finish(c, "error")
  <2>1. PICK P \in SUBSET Part : P = Affected(reg[c].a, reg[c].b)
    BY DEF Affected, Home, Knowing
  <2>2. PICK m : /\ Send(c, P, m, "delEdge")
                 /\ reg' = [reg EXCEPT ![c].part = P]
                 /\ UNCHANGED <<scan, reply>>
    BY <1>2, <2>1 DEF DeleteEdge
  <2>3. reg[c] \in Registers
    BY BaseParts
  <2> DEFINE r == [reg[c] EXCEPT !.part = P]
  <2>4. r \in Registers
    BY <2>3, RegPartSet
  <2>5. r.v1 = reg[c].v1 /\ r.a = reg[c].a
    BY <2>3 DEF Registers
  <2>6. reg' = [reg EXCEPT ![c] = r]
    BY <2>2
  <2> HIDE DEF r
  <2> QED
    BY <2>2, <2>4, <2>5, <2>6, SendAside DEF DeleteEdge, metadata
<1> QED
  BY <1>1, <1>2

\* The answer to the message that deletes an edge.
LEMMA EdgeDeletedAside == ASSUME Base, NEW c \in Client, EdgeDeleted(c) PROVE Aside(c)
<1>1. PICK a \in Reply : Finish(c, a)
  BY DEF EdgeDeleted, Reply
<1> QED
  BY <1>1, FinishAside DEF EdgeDeleted

\* A client places the vertex it has numbered.
Fresh(p, i) ==
  \E d \in Client :
    /\ pc[d] = "exists" /\ reg[d].id = i
    /\ pc'[d] = "addVertex" /\ reg'[d].part = {p}

\* What every step does.
Flow ==
  /\ counter' >= counter
  /\ \A d \in Client : pc'[d] = "exists" =>
       \/ pc[d] = "exists" /\ reg'[d].id = reg[d].id
       \/ reg'[d].id > counter
  /\ \A p \in Part : \A i : Carried(p, i)' => Carried(p, i) \/ Fresh(p, i)
  /\ \A p \in Part : \A i : Owns(p, i)' => Owns(p, i) \/ Fresh(p, i)
  /\ \A p \in Part : \A i \in db'[p].verts :
       i \in db[p].verts \/ (Carried(p, i) /\ ~Coming(i)')
  /\ \A d \in Client : \A i \in scan'[d].found :
       i \in scan[d].found \/ i = reg[d].a \/ \E p \in Part : i \in db[p].verts
  /\ \A d \in Client :
       /\ reg'[d].v1 \in {reg[d].v1, NoId} \cup scan[d].found
       /\ reg'[d].a \in {reg[d].a, NoId} \cup scan[d].found
  /\ \A i \in condemned' : i \in condemned \/ \E d \in Client : i = reg[d].v1
  /\ condemned \subseteq condemned'

----------------------------------------------------------------------------
(* What follows from Flow and from the numbers.                            *)

\* Facts about states that the steps rest on.
LEMMA OnWayIs ==
  ASSUME NEW p, NEW m
  PROVE  m \in OnWay(p) <=>
           \/ \E c \in Client : leg[c][p] \in Underway /\ m = msg[c]
           \/ \E x \in late : x.part = p /\ m = x.msg
  BY DEF OnWay

\* A vertex that is to be created is that of a request which waits for the
\* answer, or of a message that was given up on.
LEMMA CarriedIs ==
  ASSUME Base, NEW p \in Part, NEW i, Carried(p, i)
  PROVE  /\ i \in Id
         /\ \/ \E c \in Client : /\ leg[c][p] \in Underway /\ msg[c].kind = "AddVertex"
                                 /\ pc[c] = "addVertex" /\ reg[c].part = {p}
                                 /\ reg[c].id = i /\ msg[c].id = i
            \/ \E x \in late : x.part = p /\ x.msg.kind = "AddVertex" /\ x.msg.id = i
  BY OnWayIs, MsgOnWay DEF Carried, Base, LateInv

\* Only identifiers are owned.
LEMMA OwnsId ==
  ASSUME Base, NEW p \in Part, NEW i, Owns(p, i)
  PROVE  i \in Id
<1>1. CASE Holds(p, i)
  BY <1>1, TypeParts DEF Base, GlobalType, Store, Holds
<1>2. CASE Carried(p, i)
  BY <1>2, CarriedIs
<1>3. ASSUME NEW c \in Client, Claims(c, p, i) PROVE i \in Id
  BY <1>3, BaseParts, RegGet DEF Claims, LookInv
<1> QED
  BY <1>1, <1>2, <1>3 DEF Owns

\* Nobody creates a vertex under the -1 of a failed lookup.
LEMMA NoIdOver == ASSUME Base, IdInv PROVE Over(NoId)
<1>1. NoId \in 0 .. counter
  BY TypeParts DEF Base, GlobalType, NoId
<1>2. \A c \in Client : pc[c] = "exists" => reg[c].id # NoId
  BY DEF IdInv, NoId
<1>3. ~Coming(NoId)
  BY CarriedIs, NoIdFacts DEF Coming
<1> QED
  BY <1>1, <1>2, <1>3 DEF Over, Numbered

\* A number that was given out is never given out again: the counter does
\* not decrease (vertexIDCounter, sdp.go).
LEMMA NumberedStays == ASSUME Base, Base', Flow, NEW i, Numbered(i) PROVE Numbered(i)'
<1>1. counter \in Nat /\ counter' \in Nat /\ counter' >= counter
  BY NoIdFacts DEF Base, TypeOK, Flow
<1>2. i \in 0 .. counter /\ \A c \in Client : pc[c] = "exists" => reg[c].id # i
  BY DEF Numbered
<1>3. ASSUME NEW d \in Client, pc'[d] = "exists" PROVE reg'[d].id # i
  BY <1>1, <1>2, <1>3 DEF Flow
<1> QED
  BY <1>1, <1>2, <1>3 DEF Numbered

\* What was created, or never will be, is not on its way to be created
\* later: a message is sent once (Run2PC, master.go).
LEMMA OverStays == ASSUME Base, Base', Flow, NEW i, Over(i) PROVE Over(i)'
<1>1. Numbered(i)'
  BY NumberedStays DEF Over
<1>2. ASSUME NEW p \in Part, Carried(p, i)' PROVE FALSE
  <2>1. Carried(p, i) \/ Fresh(p, i)
    BY <1>2 DEF Flow
  <2> QED
    BY <2>1 DEF Over, Numbered, Coming, Fresh
<1> QED
  BY <1>1, <1>2 DEF Over, Coming

\* No step makes a partition own a vertex that another one had numbered.
LEMMA OwnsStays ==
  ASSUME Flow, NEW p \in Part, NEW i, Numbered(i), Owns(p, i)'
  PROVE  Owns(p, i)
<1>1. Owns(p, i) \/ Fresh(p, i)
  BY DEF Flow
<1> QED
  BY <1>1 DEF Fresh, Numbered

\* No step gives a vertex a second partition: one that is placed is
\* numbered, but owned by no partition before.
LEMMA HomeNext == ASSUME IInv, Base', IdInv', Flow PROVE HomeInv'
<1>0. Base /\ IdInv /\ HomeInv
  BY DEF IInv
<1>1. ASSUME NEW p \in Part, NEW i \in Id, Owns(p, i)
      PROVE  Numbered(i) /\ Numbered(i)'
  BY <1>0, <1>1, NumberedStays DEF HomeInv
<1>2. ASSUME NEW p \in Part, NEW i \in Id, Fresh(p, i)
      PROVE  Numbered(i)' /\ ~Numbered(i)
  <2>1. PICK d \in Client : /\ pc[d] = "exists" /\ reg[d].id = i
                            /\ pc'[d] = "addVertex" /\ reg'[d].part = {p}
    BY <1>2 DEF Fresh
  <2>2. counter \in Nat /\ counter' \in Nat /\ counter' >= counter /\ i \in 1 .. counter
    BY <1>0, <2>1, NoIdFacts DEF Base, TypeOK, Flow, IdInv
  <2>3. ASSUME NEW e \in Client, pc'[e] = "exists", reg'[e].id = i PROVE FALSE
    <3>1. pc[e] = "exists" /\ reg[e].id = i
      BY <2>2, <2>3, BaseParts, <1>0, RegGet DEF Flow
    <3>2. e = d
      BY <1>0, <2>1, <3>1 DEF IdInv
    <3> QED
      BY <2>1, <2>3, <3>2
  <2> QED
    BY <2>1, <2>2, <2>3 DEF Numbered
<1>3. ASSUME NEW p \in Part, NEW q \in Part, NEW i \in Id, Fresh(p, i), Fresh(q, i)
      PROVE  p = q
  BY <1>0, <1>3 DEF Fresh, IdInv
<1>4. \A p \in Part, i \in Id : Owns(p, i)' => Owns(p, i) \/ Fresh(p, i)
  BY DEF Flow
<1>5. \A p, q \in Part, i \in Id : Owns(p, i) /\ Owns(q, i) => p = q
  BY <1>0 DEF HomeInv
<1>6. \A p \in Part, i \in Id : Owns(p, i)' => Numbered(i)'
  BY <1>1, <1>2, <1>4
<1>7. \A p, q \in Part, i \in Id : Owns(p, i)' /\ Owns(q, i)' => p = q
  BY <1>1, <1>2, <1>3, <1>4, <1>5
<1> QED
  BY <1>6, <1>7 DEF HomeInv

\* What is found, deleted or in a Neo4j does not come again after any step.
LEMMA OverNext == ASSUME IInv, Base', IdInv', Flow PROVE OverInv'
<1>0. Base /\ IdInv /\ HomeInv /\ OverInv
  BY DEF IInv
<1>1. \A i : Over(i) => Over(i)'
  BY <1>0, OverStays
<1>2. Over(NoId)
  BY <1>0, NoIdOver
<1>3. ASSUME NEW p \in Part, NEW i \in db'[p].verts PROVE Over(i)'
  <2>1. CASE i \in db[p].verts
    BY <1>0, <1>1, <2>1 DEF OverInv
  <2>2. CASE Carried(p, i) /\ ~Coming(i)'
    <3>1. Owns(p, i) /\ i \in Id
      BY <1>0, <2>2, OwnsId DEF Owns
    <3>2. Numbered(i)'
      BY <1>0, <3>1, NumberedStays DEF HomeInv
    <3> QED
      BY <2>2, <3>2 DEF Over
  <2> QED
    BY <2>1, <2>2 DEF Flow
<1>4. ASSUME NEW d \in Client, NEW i \in scan'[d].found PROVE Over(i)'
  <2>1. i \in scan[d].found \/ i = reg[d].a \/ \E p \in Part : i \in db[p].verts
    BY DEF Flow
  <2> QED
    BY <1>0, <1>1, <2>1 DEF OverInv
<1>5. ASSUME NEW d \in Client PROVE (Over(reg[d].v1) /\ Over(reg[d].a))'
  <2>1. PICK v, a : v = reg'[d].v1 /\ a = reg'[d].a
    OBVIOUS
  <2>2. /\ v \in {reg[d].v1, NoId} \cup scan[d].found
        /\ a \in {reg[d].a, NoId} \cup scan[d].found
    BY <2>1 DEF Flow
  <2>3. Over(v) /\ Over(a)
    BY <1>0, <1>2, <2>2 DEF OverInv
  <2>4. Over(v)' /\ Over(a)'
    BY <1>1, <2>3
  <2> QED
    BY <2>1, <2>4 DEF Over, Numbered, Coming, Carried
<1>6. ASSUME NEW i \in condemned' PROVE Over(i)'
  <2>1. i \in condemned \/ \E d \in Client : i = reg[d].v1
    BY DEF Flow
  <2> QED
    BY <1>0, <1>1, <2>1 DEF OverInv
<1> QED
  BY <1>3, <1>4, <1>5, <1>6 DEF OverInv

\* The kind of a message under way, before and after a step.
KindInv ==
  \A c \in Client, p \in Part : leg[c][p] \in Underway =>
    /\ msg[c].kind = "AddVertex" =>
         pc[c] = "addVertex" /\ msg[c].id = reg[c].id /\ reg[c].part = {p}
    /\ msg[c].kind = "DeleteVertex" => pc[c] = "delVertex" /\ msg[c].id = reg[c].v1
    /\ msg[c].kind = "AddGhostVertex" => pc[c] = "addGhost"

----------------------------------------------------------------------------
(* Steps that stand aside.                                                 *)

\* A message under way belongs to the step its request stands at.
LEMMA KindNow == Base => KindInv
  BY MsgOnWay DEF KindInv

\* The same after a step.
LEMMA KindNext == Base' => KindInv'
  BY KindNow, PTL

\* Where a message under way comes from, after a step.
LEMMA OnWayNext ==
  ASSUME NEW p, NEW m \in OnWay(p)'
  PROVE  \/ \E c \in Client : leg'[c][p] \in Underway /\ m = msg'[c]
         \/ \E x \in late' : x.part = p /\ m = x.msg
  BY DEF OnWay, Underway

\* A step of one request that leaves the messages of the others alone.
LEMMA CarriedAside ==
  ASSUME Base', NEW c \in Client, StepOf(c), late' = late, pc'[c] # "addVertex",
         NEW p \in Part, NEW i, Carried(p, i)'
  PROVE  Carried(p, i)
<1>1. PICK m \in OnWay(p)' : m.kind = "AddVertex" /\ m.id = i
  BY DEF Carried
<1>2. ASSUME NEW d \in Client, leg'[d][p] \in Underway, m = msg'[d] PROVE m \in OnWay(p)
  <2>1. d # c
    BY <1>1, <1>2, KindNext DEF KindInv
  <2> QED
    BY <1>2, <2>1, OnWayIs DEF StepOf, Same
<1>3. ASSUME NEW x \in late', x.part = p, m = x.msg PROVE m \in OnWay(p)
  BY <1>3, OnWayIs
<1> QED
  BY <1>1, <1>2, <1>3, OnWayNext DEF Carried

\* A step that stands aside does not number, place or create a vertex.
LEMMA AsideFlow == ASSUME IInv, Base', NEW c \in Client, Aside(c) PROVE Flow
<1>0. Base /\ StepOf(c) /\ late' = late
  BY DEF IInv, Aside, channel
<1>1. counter' >= counter
  BY <1>0, NoIdFacts DEF Base, TypeOK, Aside, ids
<1>2. \A d \in Client : pc'[d] = "exists" => pc[d] = "exists" /\ reg'[d].id = reg[d].id
  BY DEF Aside, StepOf, Same
<1>3. \A p \in Part : \A i : Carried(p, i)' => Carried(p, i)
  BY <1>0, CarriedAside DEF Aside
<1>4. \A p \in Part : \A i : Owns(p, i)' => Owns(p, i)
  <2>1. ASSUME NEW p \in Part, NEW i, NEW d \in Client, Claims(d, p, i)' PROVE Claims(d, p, i)
    BY <2>1 DEF Aside, StepOf, Same, Claims
  <2>2. ASSUME NEW p \in Part, NEW i, Holds(p, i)' PROVE Holds(p, i)
    BY <2>2 DEF Aside, Holds, workers
  <2> QED
    BY <1>3, <2>1, <2>2 DEF Owns
<1>5. \A p \in Part : \A i \in db'[p].verts : i \in db[p].verts
  BY DEF Aside
<1>6. \A d \in Client : \A i \in scan'[d].found : i \in scan[d].found
  BY DEF Aside, StepOf, Same
<1>7. \A d \in Client :
       /\ reg'[d].v1 \in {reg[d].v1, NoId} \cup scan[d].found
       /\ reg'[d].a \in {reg[d].a, NoId} \cup scan[d].found
  BY DEF Aside, StepOf, Same
<1>8. /\ \A i \in condemned' : i \in condemned \/ \E d \in Client : i = reg[d].v1
      /\ condemned \subseteq condemned'
  BY DEF Aside
<1> QED
  BY <1>1, <1>2, <1>3, <1>4, <1>5, <1>6, <1>7, <1>8 DEF Flow

\* A step that stands aside leaves the numbers of all requests alone.
LEMMA AsideId == ASSUME IInv, Base', NEW c \in Client, Aside(c) PROVE IdInv'
<1>1. IdInv /\ late' = late /\ counter' = counter
  BY DEF IInv, Aside, channel, ids
<1>2. \A d \in Client : pc'[d] \in {"exists", "addVertex", "summary"} =>
        pc'[d] = pc[d] /\ reg'[d] = reg[d] /\ leg'[d] = leg[d]
  BY DEF Aside, StepOf, Same
<1>3. \A d \in Client : pc'[d] \in {"exists", "addVertex", "summary"} => reg'[d].id \in 1 .. counter'
  BY <1>1, <1>2 DEF IdInv
<1>4. \A d, e \in Client :
       pc'[d] \in {"exists", "addVertex"} /\ pc'[e] \in {"exists", "addVertex"}
         /\ reg'[d].id = reg'[e].id => d = e
  BY <1>1, <1>2 DEF IdInv
<1>5. \A x \in late, d \in Client, p \in Part :
       x.msg.kind = "AddVertex" /\ pc'[d] = "addVertex" /\ leg'[d][p] \in Underway
         => x.msg.id # reg'[d].id
  BY <1>1, <1>2 DEF IdInv
<1> QED
  BY <1>1, <1>3, <1>4, <1>5 DEF IdInv, Underway

\* Steps that write a list of vertices, or read one to be written later.
Listing(c) ==
  /\ StepOf(c)
  /\ pc'[c] \in {"summary", "next", "forget", "idle"}
  /\ pc'[c] = "summary" => pc[c] = "addVertex" /\ reg'[c].id = reg[c].id
  /\ \A p \in Part : \A i : Holds(p, i)' \/ Claims(c, p, i)' => Owns(p, i)
  /\ \A p \in Part : leg'[c][p] \notin Underway
  /\ scan'[c].found \subseteq scan[c].found
  /\ reg'[c].v1 \in {reg[c].v1, NoId} /\ reg'[c].a \in {reg[c].a, NoId}
  /\ acked' = acked \/ VertexAdded(c)
  /\ UNCHANGED <<ids, mGhosts, workers, db, channel, condemned>>

----------------------------------------------------------------------------
(* Steps that read or write a list of vertices.                            *)

\* updateSummary reads the list of the partition that was told to create
\* the vertex.
LEMMA VertexAddedListing ==
  ASSUME Base, NEW c \in Client, VertexAdded(c)
  PROVE  Aside(c) \/ Listing(c)
<1>1. /\ reg[c] \in Registers /\ reg[c].id \in Id /\ pc[c] = "addVertex"
      /\ numVertices \in Int /\ mVerts \in [Part -> SUBSET Id] /\ Resting(c)
      /\ UNCHANGED scan /\ UNCHANGED sending /\ LocalType
  BY BaseParts, SettledRests DEF VertexAdded, Settled, LookInv, GlobalType
<1>2. PICK p \in Part : reg[c].part = {p}
  BY <1>1, BaseParts DEF CallInv
<1>3. CASE Agreed(c)
  <2>1. PICK L \in SUBSET Id, n \in Int : L = mVerts[p] /\ n = numVertices
    BY <1>1
  <2> DEFINE r == WithList(reg[c], L, n)
  <2>3. /\ r.id = reg[c].id /\ r.part = reg[c].part
        /\ r.v1 = reg[c].v1 /\ r.a = reg[c].a /\ r.list = L
    BY <1>1, RegListSet
  <2>5. reg' = [reg EXCEPT ![c] = r] /\ pc' = [pc EXCEPT ![c] = "summary"]
    BY <1>2, <1>3, <2>1 DEF VertexAdded, WithList
  <2> HIDE DEF r
  <2>6. StepOf(c) /\ pc'[c] = "summary" /\ reg'[c] = r /\ leg' = leg
    BY <1>1, <2>5 DEF StepOf, Same, LocalType, sending
  <2>7. \A q \in Part : \A i : Holds(q, i)' => Holds(q, i)
    BY DEF VertexAdded, Holds, metadata, workers
  <2>8. \A q \in Part : \A i : Claims(c, q, i)' => Holds(q, i) \/ Claims(c, q, i)
    BY <1>1, <1>2, <2>1, <2>3, <2>6 DEF Claims, Holds
  <2> QED
    BY <1>1, <2>3, <2>6, <2>7, <2>8 DEF Listing, Owns, Resting, VertexAdded, metadata
<1>4. CASE ~Agreed(c)
  <2>1. reg' = [reg EXCEPT ![c] = reg[c]] /\ pc' = [pc EXCEPT ![c] = "next"]
    BY <1>4, BaseParts DEF VertexAdded
  <2> QED
    BY <1>1, <1>4, <2>1, PcAside DEF VertexAdded, metadata
<1> QED
  BY <1>3, <1>4

\* updateSummary writes the list it read, and its own vertex: all of that
\* the partition owned before, lost though other updates may be.
LEMMA UpdateSummaryListing ==
  ASSUME Base, NEW c \in Client, UpdateSummary(c)
  PROVE  Listing(c)
<1>1. /\ LocalType /\ Resting(c) /\ pc[c] = "summary"
      /\ UNCHANGED <<reg, scan, leg, msg>> /\ pc' = [pc EXCEPT ![c] = "next"]
  BY AtRest, BaseParts DEF UpdateSummary, Calls, local, sending
<1>2. StepOf(c) /\ pc'[c] = "next"
  BY <1>1 DEF StepOf, Same, LocalType
<1>3. PICK p \in Part : reg[c].part = {p}
  BY <1>1, BaseParts DEF CallInv
<1>4. mVerts' = [mVerts EXCEPT ![p] = reg[c].list \cup {reg[c].id}]
  BY <1>3 DEF UpdateSummary
<1>5. ASSUME NEW q \in Part, NEW i, Holds(q, i)' PROVE Holds(q, i) \/ Claims(c, q, i)
  <2>1. mVerts \in [Part -> SUBSET Id] /\ mem' = mem /\ db' = db
    BY BaseParts DEF UpdateSummary, workers
  <2> QED
    BY <1>1, <1>3, <1>4, <1>5, <2>1 DEF Holds, Claims
<1>6. ASSUME NEW q \in Part, NEW i PROVE ~Claims(c, q, i)'
  BY <1>2 DEF Claims
<1> QED
  BY <1>1, <1>2, <1>5, <1>6 DEF Listing, Owns, Resting, UpdateSummary, history

\* deleteVertex reads the list of the vertex's home.
LEMMA VertexDeletedListing ==
  ASSUME Base, NEW c \in Client, VertexDeleted(c)
  PROVE  Aside(c) \/ Listing(c)
<1>1. CASE \E a \in Reply : Finish(c, a)
  BY <1>1, FinishAside DEF VertexDeleted, metadata
<1>2. CASE ~\E a \in Reply : Finish(c, a)
  <2>1. PICK p \in Home(reg[c].v1) :
          /\ reg' = [reg EXCEPT ![c].home = {p}, ![c].list = mVerts[p], ![c].num = numVertices]
          /\ pc' = [pc EXCEPT ![c] = "forget"]
          /\ UNCHANGED <<scan, sending, reply>>
    BY <1>2 DEF VertexDeleted, Reply
  <2>2. /\ p \in Part /\ reg[c] \in Registers /\ LocalType /\ Resting(c)
        /\ mVerts[p] \in SUBSET Id /\ numVertices \in Int
    BY <2>1, SettledRests, BaseParts DEF Home, VertexDeleted, GlobalType
  <2> DEFINE r == WithHome(reg[c], {p}, mVerts[p], numVertices)
  <2>3. r.home = {p} /\ r.list = mVerts[p] /\ r.v1 = reg[c].v1 /\ r.a = reg[c].a
    BY <2>2, RegHomeSet
  <2>7. reg' = [reg EXCEPT ![c] = r]
    BY <2>1 DEF WithHome
  <2> HIDE DEF r
  <2>8. StepOf(c) /\ pc'[c] = "forget" /\ reg'[c] = r /\ leg' = leg
    BY <2>1, <2>2, <2>7 DEF StepOf, Same, LocalType, sending
  <2>9. \A q \in Part : \A i : Holds(q, i)' => Holds(q, i)
    BY DEF VertexDeleted, Holds, metadata, workers
  <2>10. \A q \in Part : \A i : Claims(c, q, i)' => Holds(q, i)
    BY <2>2, <2>3, <2>8 DEF Claims, Holds
  <2> QED
    BY <2>1, <2>2, <2>3, <2>8, <2>9, <2>10 DEF Listing, Owns, Resting, VertexDeleted, metadata
<1> QED
  BY <1>1, <1>2

\* deleteVertex writes the list it read without its vertex: all of that the
\* partition owned before, lost though other updates may be.
LEMMA ForgetListing ==
  ASSUME IInv, NEW c \in Client, Forget(c)
  PROVE  Listing(c)
<1>0. Base /\ GhostInv
  BY DEF IInv
<1>1. /\ StepOf(c) /\ pc'[c] = "idle" /\ reg'[c] = NoReg /\ scan'[c] = NoScan
      /\ leg'[c] = NoLegs
  BY <1>0, FinishStep, BaseParts DEF LocalInv, Forget, Reply
<1>2. NoReg.v1 = NoId /\ NoReg.a = NoId /\ NoScan.found = {}
  BY DEF NoReg, NoScan
<1>3. PICK p \in Part : reg[c].home = {p} /\ reg[c].v1 \in reg[c].list
  BY <1>0, BaseParts DEF CallInv, Forget
<1>4. /\ mVerts' = [mVerts EXCEPT ![p] = reg[c].list \ {reg[c].v1}]
      /\ mGhosts' = IF reg[c].v1 \notin mGhosts[p] THEN mGhosts
                    ELSE [q \in Part |-> mGhosts[q] \
                            IF q \in reg[c].part THEN {reg[c].v1} ELSE {}]
  BY <1>3 DEF Forget
<1>5. ASSUME NEW q \in Part, NEW i, Holds(q, i)' PROVE Holds(q, i) \/ Claims(c, q, i)
  <2>1. mVerts \in [Part -> SUBSET Id] /\ mem' = mem /\ db' = db /\ pc[c] = "forget"
    BY <1>0, BaseParts DEF Forget, workers
  <2> QED
    BY <1>3, <1>4, <1>5, <2>1 DEF Holds, Claims
<1>6. ASSUME NEW q \in Part, NEW i PROVE ~Claims(c, q, i)'
  BY <1>1 DEF Claims
<1>7. mGhosts' = mGhosts
  <2>1. Claims(c, p, reg[c].v1)
    BY <1>3 DEF Claims, Forget
  <2>2. Owns(p, reg[c].v1)
    BY <2>1 DEF Owns
  <2> QED
    BY <1>0, <1>4, <2>2 DEF GhostInv
<1>8. \A q \in Part : leg'[c][q] \notin Underway
  BY <1>1 DEF NoLegs, Underway
<1> QED
  BY <1>1, <1>2, <1>5, <1>6, <1>7, <1>8 DEF Listing, Owns, Forget

\* A step that reads or writes a list gives no partition a vertex that it
\* did not own.
LEMMA ListingFlow == ASSUME IInv, Base', NEW c \in Client, Listing(c) PROVE Flow
<1>0. Base /\ StepOf(c) /\ late' = late
  BY DEF IInv, Listing, channel
<1>1. counter' >= counter
  BY <1>0, NoIdFacts DEF Base, TypeOK, Listing, ids
<1>2. \A d \in Client : pc'[d] = "exists" => pc[d] = "exists" /\ reg'[d].id = reg[d].id
  BY DEF Listing, StepOf, Same
<1>3. \A p \in Part : \A i : Carried(p, i)' => Carried(p, i)
  BY <1>0, CarriedAside DEF Listing
<1>4. \A p \in Part : \A i : Owns(p, i)' => Owns(p, i)
  <2>1. ASSUME NEW p \in Part, NEW i, NEW d \in Client \ {c}, Claims(d, p, i)'
        PROVE  Claims(d, p, i)
    BY <2>1 DEF Listing, StepOf, Same, Claims
  <2> QED
    BY <1>3, <2>1 DEF Owns, Listing
<1>5. \A p \in Part : \A i \in db'[p].verts : i \in db[p].verts
  BY DEF Listing
<1>6. \A d \in Client : \A i \in scan'[d].found : i \in scan[d].found
  BY DEF Listing, StepOf, Same
<1>7. \A d \in Client :
       /\ reg'[d].v1 \in {reg[d].v1, NoId} \cup scan[d].found
       /\ reg'[d].a \in {reg[d].a, NoId} \cup scan[d].found
  BY DEF Listing, StepOf, Same
<1>8. condemned' = condemned
  BY DEF Listing
<1> QED
  BY <1>1, <1>2, <1>3, <1>4, <1>5, <1>6, <1>7, <1>8 DEF Flow

\* A step that reads or writes a list leaves the numbers alone.
LEMMA ListingId == ASSUME IInv, Base', NEW c \in Client, Listing(c) PROVE IdInv'
<1>1. IdInv /\ late' = late /\ counter' = counter
  BY DEF IInv, Listing, channel, ids
<1>2. \A d \in Client : pc'[d] \in {"exists", "addVertex"} =>
        pc'[d] = pc[d] /\ reg'[d] = reg[d] /\ leg'[d] = leg[d]
  BY DEF Listing, StepOf, Same
<1>3. \A d \in Client : pc'[d] \in {"exists", "addVertex", "summary"} =>
        pc[d] \in {"exists", "addVertex", "summary"} /\ reg'[d].id = reg[d].id
  BY DEF Listing, StepOf, Same
<1>4. \A d \in Client : pc'[d] \in {"exists", "addVertex", "summary"} => reg'[d].id \in 1 .. counter'
  BY <1>1, <1>3 DEF IdInv
<1>5. \A d, e \in Client :
       pc'[d] \in {"exists", "addVertex"} /\ pc'[e] \in {"exists", "addVertex"}
         /\ reg'[d].id = reg'[e].id => d = e
  BY <1>1, <1>2 DEF IdInv
<1>6. \A x \in late, d \in Client, p \in Part :
       x.msg.kind = "AddVertex" /\ pc'[d] = "addVertex" /\ leg'[d][p] \in Underway
         => x.msg.id # reg'[d].id
  BY <1>1, <1>2 DEF IdInv
<1> QED
  BY <1>1, <1>4, <1>5, <1>6 DEF IdInv, Underway

----------------------------------------------------------------------------
(* Steps that number and place a vertex.                                   *)

\* getOrCreateVertexID increments the counter and the request keeps the new
\* value.
LEMMA NextVariableFacts ==
  ASSUME Base, NEW c \in Client, NextVariable(c)
  PROVE  /\ StepOf(c) /\ pc'[c] = "exists" /\ reg'[c].id = counter + 1
         /\ reg'[c].v1 = reg[c].v1 /\ reg'[c].a = reg[c].a /\ scan'[c].found = {}
         /\ counter \in Nat /\ counter' = counter + 1
         /\ \A p \in Part : leg'[c][p] \notin Underway
<1>1. reg[c] \in Registers /\ LocalType
  BY BaseParts
<1>2. counter \in Nat /\ counter' = counter + 1
  BY BaseParts, NoIdFacts DEF GlobalType, NextVariable
<1>3. PICK i, n : i = counter' /\ n = reg[c].var + 1
  OBVIOUS
<1> DEFINE r == [reg[c] EXCEPT !.var = n, !.id = i]
<1>4. r.id = i
  BY <1>1 DEF Registers
<1>5. r.v1 = reg[c].v1
  BY <1>1 DEF Registers
<1>6. r.a = reg[c].a
  BY <1>1 DEF Registers
<1>7. reg' = [reg EXCEPT ![c] = r]
  BY <1>3 DEF NextVariable
<1> HIDE DEF r
<1>8. StepOf(c) /\ pc'[c] = "exists" /\ reg'[c] = r /\ scan'[c].found = {}
  BY <1>1, <1>7 DEF NextVariable, StartNodeScan, StepOf, Same, LocalType, sending
<1>9. \A p \in Part : leg'[c][p] \notin Underway
  BY AtRest, BaseParts DEF NextVariable, Calls, Resting, sending
<1> QED
  BY <1>2, <1>3, <1>4, <1>5, <1>6, <1>8, <1>9

\* A vertex that is numbered is not yet placed.
LEMMA NextVariableFlow ==
  ASSUME IInv, Base', NEW c \in Client, NextVariable(c)
  PROVE  Flow
<1>0. Base /\ StepOf(c) /\ late' = late /\ pc'[c] = "exists"
  BY NextVariableFacts DEF IInv, NextVariable, channel
<1>1. counter' >= counter
  BY <1>0, NextVariableFacts
<1>2. \A d \in Client : pc'[d] = "exists" =>
       \/ pc[d] = "exists" /\ reg'[d].id = reg[d].id
       \/ reg'[d].id > counter
  BY <1>0, NextVariableFacts DEF StepOf, Same
<1>3. \A p \in Part : \A i : Carried(p, i)' => Carried(p, i)
  BY <1>0, CarriedAside
<1>4. \A p \in Part : \A i : Owns(p, i)' => Owns(p, i)
  <2>1. ASSUME NEW p \in Part, NEW i, NEW d \in Client, Claims(d, p, i)'
        PROVE  Claims(d, p, i)
    BY <1>0, <2>1 DEF StepOf, Same, Claims
  <2>2. ASSUME NEW p \in Part, NEW i, Holds(p, i)' PROVE Holds(p, i)
    BY <2>2 DEF NextVariable, Holds, metadata, workers
  <2> QED
    BY <1>3, <2>1, <2>2 DEF Owns
<1>5. db' = db /\ condemned' = condemned
  BY DEF NextVariable, history
<1>6. \A d \in Client : \A i \in scan'[d].found : i \in scan[d].found
  BY <1>0, NextVariableFacts DEF StepOf, Same
<1>7. \A d \in Client :
       /\ reg'[d].v1 \in {reg[d].v1, NoId} \cup scan[d].found
       /\ reg'[d].a \in {reg[d].a, NoId} \cup scan[d].found
  BY <1>0, NextVariableFacts DEF StepOf, Same
<1> QED
  BY <1>1, <1>2, <1>3, <1>4, <1>5, <1>6, <1>7 DEF Flow

\* The new number is above every number a request or a message has.
LEMMA NextVariableId ==
  ASSUME IInv, Base', NEW c \in Client, NextVariable(c)
  PROVE  IdInv'
<1>1. /\ Base /\ IdInv /\ late' = late /\ counter \in Nat /\ counter' = counter + 1
      /\ StepOf(c) /\ pc'[c] = "exists" /\ reg'[c].id = counter + 1
  BY NextVariableFacts DEF IInv, NextVariable, channel
<1>2. \A d \in Client \ {c} : pc'[d] = pc[d] /\ reg'[d] = reg[d] /\ leg'[d] = leg[d]
  BY <1>1 DEF StepOf, Same
<1>3. \A d \in Client : pc[d] \in {"exists", "addVertex", "summary"} =>
        reg[d].id \in 1 .. counter
  BY <1>1 DEF IdInv
<1>4. \A d \in Client : pc'[d] \in {"exists", "addVertex", "summary"} =>
        reg'[d].id \in 1 .. counter'
  <2> SUFFICES ASSUME NEW d \in Client, pc'[d] \in {"exists", "addVertex", "summary"}
               PROVE  reg'[d].id \in 1 .. counter'
    OBVIOUS
  <2>1. CASE d = c
    BY <1>1, <2>1
  <2>2. CASE d # c
    <3>1. reg'[d].id \in 1 .. counter
      BY <1>2, <1>3, <2>2
    <3> QED
      BY <1>1, <3>1
  <2> QED
    BY <2>1, <2>2
<1>5. \A d, e \in Client :
       pc'[d] \in {"exists", "addVertex"} /\ pc'[e] \in {"exists", "addVertex"}
         /\ reg'[d].id = reg'[e].id => d = e
  <2> SUFFICES ASSUME NEW d \in Client, NEW e \in Client,
                      pc'[d] \in {"exists", "addVertex"}, pc'[e] \in {"exists", "addVertex"},
                      reg'[d].id = reg'[e].id
               PROVE  d = e
    OBVIOUS
  <2>1. CASE d # c /\ e # c
    BY <1>1, <1>2, <2>1 DEF IdInv
  <2>2. ASSUME NEW f \in Client \ {c}, pc'[f] \in {"exists", "addVertex"}
        PROVE  reg'[f].id # counter + 1
    <3>1. reg'[f].id \in 1 .. counter
      BY <1>2, <1>3, <2>2
    <3> QED
      BY <1>1, <3>1
  <2> QED
    BY <1>1, <2>1, <2>2
<1>6. \A x \in late, d \in Client, p \in Part :
       x.msg.kind = "AddVertex" /\ pc'[d] = "addVertex" /\ leg'[d][p] \in Underway
         => x.msg.id # reg'[d].id
  BY <1>1, <1>2 DEF IdInv
<1> QED
  BY <1>1, <1>4, <1>5, <1>6 DEF IdInv, Underway

\* ProcessAddVertex2PC sends the number that was given out before.
LEMMA PlaceFacts ==
  ASSUME Base, NEW c \in Client, Place(c)
  PROVE  /\ StepOf(c) /\ pc[c] = "exists" /\ pc'[c] = "addVertex"
         /\ reg'[c].id = reg[c].id /\ reg'[c].v1 = reg[c].v1 /\ reg'[c].a = reg[c].a
         /\ \A p \in Part : leg'[c][p] \in {"sent", "none"}
<1>1. PICK p \in Candidates(Load) :
        (\E m : Send(c, {p}, m, "addVertex")) /\ reg' = [reg EXCEPT ![c].part = {p}]
  BY DEF Place
<1>2. reg[c] \in Registers /\ LocalType
  BY BaseParts
<1> DEFINE r == [reg[c] EXCEPT !.part = {p}]
<1>3. r.id = reg[c].id
  BY <1>2 DEF Registers
<1>4. r.v1 = reg[c].v1
  BY <1>2 DEF Registers
<1>5. r.a = reg[c].a
  BY <1>2 DEF Registers
<1>6. reg' = [reg EXCEPT ![c] = r]
  BY <1>1
<1> HIDE DEF r
<1>7. /\ StepOf(c) /\ pc'[c] = "addVertex" /\ reg'[c] = r
      /\ leg'[c] = [q \in Part |-> IF q \in {p} THEN "sent" ELSE "none"]
  BY <1>1, <1>2, <1>6 DEF Place, Send, StepOf, Same, LocalType
<1> QED
  BY <1>3, <1>4, <1>5, <1>7 DEF Place, Scanned

\* The vertex of this request, and no other, is on its way after this step,
\* to one partition.
LEMMA PlaceFlow == ASSUME IInv, Base', NEW c \in Client, Place(c) PROVE Flow
<1>0. /\ Base /\ StepOf(c) /\ late' = late /\ counter' = counter
      /\ db' = db /\ condemned' = condemned
  BY PlaceFacts DEF IInv, Place, channel, ids, history
<1>1. counter' >= counter
  BY <1>0, NoIdFacts DEF Base, TypeOK
<1>2. \A d \in Client : pc'[d] = "exists" => pc[d] = "exists" /\ reg'[d].id = reg[d].id
  BY <1>0, PlaceFacts DEF StepOf, Same
<1>3. ASSUME NEW p \in Part, NEW i, pc'[c] = "addVertex", reg'[c].part = {p}, reg'[c].id = i
      PROVE  Fresh(p, i)
  BY <1>0, <1>3, PlaceFacts DEF Fresh
<1>4. ASSUME NEW p \in Part, NEW i, Carried(p, i)' PROVE Carried(p, i) \/ Fresh(p, i)
  <2>1. PICK m \in OnWay(p)' : m.kind = "AddVertex" /\ m.id = i
    BY <1>4 DEF Carried
  <2>2. ASSUME leg'[c][p] \in Underway, m = msg'[c] PROVE Fresh(p, i)
    BY <1>3, <2>1, <2>2, KindNext DEF KindInv
  <2>3. ASSUME NEW d \in Client \ {c}, leg'[d][p] \in Underway, m = msg'[d]
        PROVE  m \in OnWay(p)
    BY <1>0, <2>3, OnWayIs DEF StepOf, Same
  <2>4. ASSUME NEW x \in late', x.part = p, m = x.msg PROVE m \in OnWay(p)
    BY <1>0, <2>4, OnWayIs
  <2> QED
    BY <2>1, <2>2, <2>3, <2>4, OnWayNext DEF Carried
<1>5. ASSUME NEW p \in Part, NEW i, Owns(p, i)' PROVE Owns(p, i) \/ Fresh(p, i)
  <2>1. ASSUME Claims(c, p, i)' PROVE Fresh(p, i)
    BY <1>0, <1>3, <2>1, PlaceFacts DEF Claims
  <2>2. ASSUME NEW d \in Client \ {c}, Claims(d, p, i)' PROVE Claims(d, p, i)
    BY <1>0, <2>2 DEF Claims, StepOf, Same
  <2>3. ASSUME Holds(p, i)' PROVE Holds(p, i)
    BY <2>3 DEF Place, Holds, metadata, workers
  <2> QED
    BY <1>4, <1>5, <2>1, <2>2, <2>3 DEF Owns
<1>6. \A d \in Client : scan'[d] = scan[d]
  BY DEF Place
<1>7. \A d \in Client :
       /\ reg'[d].v1 \in {reg[d].v1, NoId} \cup scan[d].found
       /\ reg'[d].a \in {reg[d].a, NoId} \cup scan[d].found
  BY <1>0, PlaceFacts DEF StepOf, Same
<1> QED
  BY <1>0, <1>1, <1>2, <1>4, <1>5, <1>6, <1>7 DEF Flow

\* The number is on its way for the first time: no request and no message
\* has it.
LEMMA PlaceId == ASSUME IInv, Base', NEW c \in Client, Place(c) PROVE IdInv'
<1>1. /\ Base /\ IdInv /\ HomeInv /\ late' = late /\ counter' = counter
      /\ StepOf(c) /\ pc[c] = "exists" /\ pc'[c] = "addVertex" /\ reg'[c].id = reg[c].id
  BY PlaceFacts DEF IInv, Place, channel, ids
<1>2. \A d \in Client : pc'[d] \in {"exists", "addVertex", "summary"} =>
        pc[d] \in {"exists", "addVertex", "summary"} /\ reg'[d].id = reg[d].id
  BY <1>1 DEF StepOf, Same
<1>3. \A d \in Client : pc'[d] \in {"exists", "addVertex"} => pc[d] \in {"exists", "addVertex"}
  BY <1>1 DEF StepOf, Same
<1>4. \A d \in Client : pc'[d] \in {"exists", "addVertex", "summary"} => reg'[d].id \in 1 .. counter'
  BY <1>1, <1>2 DEF IdInv
<1>5. \A d, e \in Client :
       pc'[d] \in {"exists", "addVertex"} /\ pc'[e] \in {"exists", "addVertex"}
         /\ reg'[d].id = reg'[e].id => d = e
  BY <1>1, <1>2, <1>3 DEF IdInv
<1>6. ASSUME NEW x \in late, x.msg.kind = "AddVertex" PROVE x.msg.id # reg[c].id
  <2>1. x.part \in Part
    BY <1>1 DEF Base, TypeOK
  <2>2. Owns(x.part, x.msg.id)
    BY <1>6, <2>1, OnWayIs DEF Owns, Carried
  <2>3. x.msg.id \in Id
    BY <1>1, <1>6 DEF Base, LateInv
  <2> QED
    BY <1>1, <2>1, <2>2, <2>3 DEF HomeInv, Numbered
<1>7. ASSUME NEW x \in late, NEW d \in Client, NEW p \in Part,
             x.msg.kind = "AddVertex", pc'[d] = "addVertex", leg'[d][p] \in Underway
      PROVE  x.msg.id # reg'[d].id
  BY <1>1, <1>6, <1>7 DEF IdInv, StepOf, Same
<1> QED
  BY <1>1, <1>4, <1>5, <1>7 DEF IdInv, Underway

\* Steps of the network, of the workers, and answers to a search.
Still ==
  /\ UNCHANGED <<pc, reg, msg, mVerts, mGhosts, counter, acked, condemned>>
  /\ \A d \in Client, p \in Part :
       leg'[d][p] \in Underway => leg[d][p] \in Underway
  /\ \A p \in Part : OnWay(p)' \subseteq OnWay(p)
  /\ \A p \in Part : \A i \in mem'[p].verts : i \in mem[p].verts \/ Carried(p, i)
  /\ \A p \in Part : \A i \in db'[p].verts :
       i \in db[p].verts \/ (Carried(p, i) /\ ~Coming(i)')
  /\ \A p \in Part : \A i \in db[p].verts : i \in db'[p].verts \/ i \in condemned
  /\ \A p \in Part : \A i \in mem'[p].ghosts \cup db'[p].ghosts :
       \/ i \in mem[p].ghosts \cup db[p].ghosts
       \/ \E m \in OnWay(p) : m.kind = "AddGhostVertex" /\ m.id = i
  /\ \A d \in Client, p \in Part : pc[d] = "addVertex" /\ leg'[d][p] = "ack" =>
       leg[d][p] = "ack" \/ reg[d].id \in db'[p].verts
  /\ \A d \in Client : \A i \in scan'[d].found :
       i \in scan[d].found \/ i = reg[d].a \/ \E p \in Part : i \in db[p].verts

----------------------------------------------------------------------------
(* Steps of the network and of the workers.                                *)

\* What the network and the workers do creates only what is on its way, and
\* takes it off its way.
LEMMA StillFlow == ASSUME IInv, Base', Still PROVE Flow
<1>0. Base
  BY DEF IInv
<1>1. counter' >= counter
  BY <1>0, NoIdFacts DEF Base, TypeOK, Still
<1>2. \A d \in Client : pc'[d] = "exists" => pc[d] = "exists" /\ reg'[d].id = reg[d].id
  BY DEF Still
<1>3. \A p \in Part : \A i : Carried(p, i)' => Carried(p, i)
  BY DEF Still, Carried
<1>4. ASSUME NEW p \in Part, NEW i, Owns(p, i)' PROVE Owns(p, i)
  <2>1. ASSUME NEW d \in Client, Claims(d, p, i)' PROVE Claims(d, p, i)
    BY <2>1 DEF Claims, Still
  <2>2. ASSUME Holds(p, i)' PROVE Holds(p, i) \/ Carried(p, i)
    BY <2>2 DEF Still, Holds
  <2> QED
    BY <1>3, <1>4, <2>1, <2>2 DEF Owns
<1>5. \A p \in Part : \A i \in db'[p].verts :
       i \in db[p].verts \/ (Carried(p, i) /\ ~Coming(i)')
  BY DEF Still
<1>6. \A d \in Client : \A i \in scan'[d].found :
       i \in scan[d].found \/ i = reg[d].a \/ \E p \in Part : i \in db[p].verts
  BY DEF Still
<1>7. reg' = reg /\ condemned' = condemned
  BY DEF Still
<1> QED
  BY <1>1, <1>2, <1>3, <1>4, <1>5, <1>6, <1>7 DEF Flow

\* When no message has been given up on, identifiers stay as they are.
LEMMA StillId ==
  ASSUME IdInv, UNCHANGED <<pc, reg, counter>>, late' \subseteq late,
         \A d \in Client, p \in Part :
           leg'[d][p] \in Underway => leg[d][p] \in Underway
  PROVE  IdInv'
  BY DEF IdInv, Underway

\* Steps that change neither a worker's memory nor its Neo4j.
LEMMA StillByShape ==
  ASSUME IInv,
         UNCHANGED <<pc, reg, msg, metadata, counter, acked, condemned, mem, db>>,
         \A d \in Client, p \in Part :
           leg'[d][p] \in Underway => leg[d][p] \in Underway,
         \A d \in Client, p \in Part : leg'[d][p] = "ack" => leg[d][p] = "ack",
         \A x \in late' : x.msg \in OnWay(x.part),
         \A d \in Client : \A i \in scan'[d].found :
           i \in scan[d].found \/ i = reg[d].a \/ \E p \in Part : i \in db[p].verts
  PROVE  Still
<1>1. ASSUME NEW p \in Part, NEW m \in OnWay(p)' PROVE m \in OnWay(p)
  BY OnWayNext, OnWayIs
<1> QED
  BY <1>1 DEF Still, metadata

\* A message that was given up on is under way.
LEMMA LateOnWay == ASSUME NEW x \in late PROVE x.msg \in OnWay(x.part)
  BY OnWayIs

\* An answer of a worker is about what its Neo4j holds.
LEMMA AskStill ==
  ASSUME IInv, NEW c \in Client, NEW p \in Part, Ask(c, p) \/ AskFails(c, p)
  PROVE  Still /\ IdInv'
<1>0. Base /\ IdInv
  BY DEF IInv
<1>1. /\ UNCHANGED <<pc, reg, msg, leg, late, metadata, counter, acked, condemned, mem, db>>
  BY DEF Ask, AskFails, ids, workers, sending, history, channel
<1>2. \A d \in Client : \A i \in scan'[d].found :
           i \in scan[d].found \/ i = reg[d].a \/ \E q \in Part : i \in db[q].verts
  <2>1. scan \in [Client -> ScanState] /\ scan[c] \in ScanState
    BY <1>0, BaseParts DEF LocalType
  <2>2. PICK F \in SUBSET Id, T \in SUBSET Part :
          /\ scan' = [scan EXCEPT ![c] = [scan[c] EXCEPT !.todo = T, !.found = scan[c].found \cup F]]
          /\ \A i \in F : i \in Found(c, p)
    <3>1. CASE Ask(c, p)
      <4>1. PICK F \in SUBSET Id : F = IF up[p] /\ pc[c] # "duplicate" THEN Found(c, p) ELSE {}
        BY <1>0, FoundFacts
      <4>2. PICK T \in SUBSET Part : T = scan[c].todo \ {p}
        BY <2>1 DEF ScanState
      <4>3. scan' = [scan EXCEPT ![c].todo = @ \ {p}, ![c].found = @ \cup F]
        BY <3>1, <4>1 DEF Ask
      <4>4. scan' = [scan EXCEPT ![c] = [scan[c] EXCEPT !.todo = T, !.found = scan[c].found \cup F]]
        BY <4>2, <4>3
      <4>5. \A i \in F : i \in Found(c, p)
        BY <4>1
      <4> QED
        BY <4>4, <4>5
    <3>2. CASE AskFails(c, p)
      <4>1. PICK F \in SUBSET Id : F = {}
        OBVIOUS
      <4>2. PICK T \in SUBSET Part : T = scan[c].todo \ {p}
        BY <2>1 DEF ScanState
      <4>3. scan[c] = [scan[c] EXCEPT !.found = scan[c].found \cup F]
        BY <2>1, <4>1 DEF ScanState
      <4>4. [scan[c] EXCEPT !.todo = T] = [scan[c] EXCEPT !.todo = T, !.found = scan[c].found \cup F]
        BY <2>1, <4>1 DEF ScanState
      <4>5. scan' = [scan EXCEPT ![c] = [scan[c] EXCEPT !.todo = T]]
        BY <3>2, <4>2 DEF AskFails
      <4> QED
        BY <4>1, <4>4, <4>5
    <3> QED
      BY <3>1, <3>2
  <2>3. scan'[c].found = scan[c].found \cup F
    BY <2>1, <2>2 DEF ScanState
  <2>4. \A d \in Client \ {c} : scan'[d] = scan[d]
    BY <2>1, <2>2
  <2>5. \A i \in F : i = reg[c].a \/ i \in db[p].verts
    BY <1>0, <2>2, FoundFacts
  <2> QED
    BY <2>3, <2>4, <2>5
<1>3. \A x \in late' : x.msg \in OnWay(x.part)
  BY <1>1, LateOnWay
<1>4. Still
  BY <1>1, <1>2, <1>3, StillByShape
<1>5. IdInv'
  BY <1>0, <1>1, StillId
<1> QED
  BY <1>4, <1>5

\* Unreachable, LateDrop, Restart, and steps of nobody.
LEMMA DroppedStill ==
  ASSUME IInv,
         UNCHANGED <<pc, reg, msg, scan, metadata, counter, acked, condemned, mem, db>>,
         late' \subseteq late,
         \A d \in Client, p \in Part :
           leg'[d][p] \in Underway => leg[d][p] \in Underway,
         \A d \in Client, p \in Part : leg'[d][p] = "ack" => leg[d][p] = "ack"
  PROVE  Still /\ IdInv'
<1>1. \A x \in late' : x.msg \in OnWay(x.part)
  BY LateOnWay
<1>2. Still
  BY <1>1, StillByShape
<1>3. IdInv'
  BY StillId DEF IInv
<1> QED
  BY <1>2, <1>3

\* The coordinator cannot dial a worker.
LEMMA UnreachableStill ==
  ASSUME IInv, NEW c \in Client, NEW p \in Part, Unreachable(c, p)
  PROVE  Still /\ IdInv'
<1>1. \A d \in Client, q \in Part :
        /\ leg'[d][q] \in Underway => leg[d][q] \in Underway
        /\ leg'[d][q] = "ack" => leg[d][q] = "ack"
  BY BaseParts DEF IInv, LocalType, Unreachable, Underway
<1> QED
  BY <1>1, DroppedStill DEF Unreachable, ids, workers, local, history, channel

\* A message that was given up on comes to nothing.
LEMMA LateDropStill ==
  ASSUME IInv, NEW x \in late, LateDrop(x)
  PROVE  Still /\ IdInv'
  BY DroppedStill DEF LateDrop, ids, workers, local, sending, history

\* A worker is started again.
LEMMA RestartStill ==
  ASSUME IInv, NEW p \in Part, Restart(p)
  PROVE  Still /\ IdInv'
  BY DroppedStill DEF Restart, ids, local, sending, history, channel

\* Nothing happens.
LEMMA StutterStill == ASSUME IInv, UNCHANGED vars PROVE Still /\ IdInv'
  BY DroppedStill DEF vars, ids, workers, local, sending, history, channel

\* Giving up on messages leaves each of them under way once.
LEMMA AbandonId ==
  ASSUME IInv, NEW p \in Part, UNCHANGED <<pc, reg, counter>>,
         \A x \in late' : x \in late \/ \E d \in Client :
           /\ leg[d][p] \in Underway /\ leg'[d][p] \notin Underway
           /\ x = [part |-> p, msg |-> msg[d], stage |-> leg[d][p]],
         \A d \in Client, q \in Part :
           leg'[d][q] \in Underway => leg[d][q] \in Underway
  PROVE  IdInv'
<1>0. IdInv /\ KindInv
  BY KindNow DEF IInv
<1>1. ASSUME NEW x \in late', x.msg.kind = "AddVertex", x \notin late
      PROVE  \E d \in Client :
               /\ pc[d] = "addVertex" /\ x.msg.id = reg[d].id /\ reg[d].part = {p}
               /\ leg[d][p] \in Underway /\ leg'[d][p] \notin Underway
               /\ x = [part |-> p, msg |-> msg[d], stage |-> leg[d][p]]
  BY <1>0, <1>1 DEF KindInv
<1>2. ASSUME NEW x \in late', NEW y \in late', x.msg.kind = "AddVertex",
             y.msg.kind = "AddVertex", x.msg.id = y.msg.id
      PROVE  x = y
  <2>1. CASE x \in late /\ y \in late
    BY <1>0, <1>2, <2>1 DEF IdInv
  <2>2. CASE x \in late /\ y \notin late
    BY <1>0, <1>1, <1>2, <2>2 DEF IdInv
  <2>3. CASE x \notin late /\ y \in late
    BY <1>0, <1>1, <1>2, <2>3 DEF IdInv
  <2>4. CASE x \notin late /\ y \notin late
    <3>1. PICK d \in Client : /\ pc[d] = "addVertex" /\ x.msg.id = reg[d].id
                              /\ x = [part |-> p, msg |-> msg[d], stage |-> leg[d][p]]
      BY <1>1, <1>2, <2>4
    <3>2. PICK e \in Client : /\ pc[e] = "addVertex" /\ y.msg.id = reg[e].id
                              /\ y = [part |-> p, msg |-> msg[e], stage |-> leg[e][p]]
      BY <1>1, <1>2, <2>4
    <3>3. d = e
      BY <1>0, <1>2, <3>1, <3>2 DEF IdInv
    <3> QED
      BY <3>1, <3>2, <3>3
  <2> QED
    BY <2>1, <2>2, <2>3, <2>4
<1>3. ASSUME NEW x \in late', NEW d \in Client, NEW q \in Part,
             x.msg.kind = "AddVertex", pc[d] = "addVertex", leg'[d][q] \in Underway
      PROVE  x.msg.id # reg[d].id
  <2>1. CASE x \in late
    BY <1>0, <1>3, <2>1 DEF IdInv
  <2>2. CASE x \notin late
    <3>1. PICK e \in Client : /\ pc[e] = "addVertex" /\ x.msg.id = reg[e].id
                              /\ reg[e].part = {p} /\ leg'[e][p] \notin Underway
                              /\ x = [part |-> p, msg |-> msg[e], stage |-> leg[e][p]]
      BY <1>1, <1>3, <2>2
    <3>2. ASSUME d = e PROVE FALSE
      <4>1. msg[e].kind = "AddVertex" /\ leg[e][q] \in Underway
        BY <1>3, <3>1, <3>2
      <4>2. reg[e].part = {q}
        BY <1>0, <4>1 DEF KindInv
      <4> QED
        BY <1>3, <3>1, <3>2, <4>2
    <3> QED
      BY <1>0, <1>3, <3>1, <3>2 DEF IdInv
  <2> QED
    BY <2>1, <2>2
<1> QED
  BY <1>0, <1>2, <1>3 DEF IdInv, Underway

\* A connection is lost: the message may go on by itself, but is under way
\* once, not twice.
LEMMA LoseStill ==
  ASSUME IInv, NEW c \in Client, NEW p \in Part, Lose(c, p)
  PROVE  Still /\ IdInv'
<1>1. /\ leg \in [Client -> [Part -> Leg]] /\ leg' = [leg EXCEPT ![c][p] = "no"]
      /\ leg[c][p] \in Underway
      /\ late' = late \cup {[part |-> p, msg |-> msg[c], stage |-> leg[c][p]]}
  BY BaseParts DEF IInv, LocalType, Lose, Underway
<1>2. \A d \in Client, q \in Part :
        /\ leg'[d][q] \in Underway => leg[d][q] \in Underway
        /\ leg'[d][q] = "ack" => leg[d][q] = "ack"
  BY <1>1 DEF Underway
<1>3. leg'[c][p] \notin Underway
  BY <1>1 DEF Underway
<1>4. \A x \in late' : x.msg \in OnWay(x.part)
  BY <1>1, LateOnWay, OnWayIs
<1>5. UNCHANGED <<pc, reg, msg, scan, metadata, counter, acked, condemned, mem, db>>
  BY DEF Lose, ids, workers, local, history
<1>6. Still
  BY <1>2, <1>4, <1>5, StillByShape
<1>7. IdInv'
  BY <1>1, <1>2, <1>3, <1>5, AbandonId
<1> QED
  BY <1>6, <1>7

\* A worker's process panics: what its Neo4j has begun is under way once.
LEMMA AskPanicsStill ==
  ASSUME IInv, NEW c \in Client, NEW p \in Part, AskPanics(c, p)
  PROVE  Still /\ IdInv'
<1>1. /\ leg \in [Client -> [Part -> Leg]] /\ scan \in [Client -> ScanState]
      /\ mem \in [Part -> Store]
  BY BaseParts DEF IInv, LocalType, GlobalType
<1>2. PICK kept \in SUBSET {d \in Client : leg[d][p] = "sent"} :
         leg' = [d \in Client |->
                   [leg[d] EXCEPT ![p] =
                      IF @ \in {"sent", "stored"} /\ d \notin kept THEN "no" ELSE @]]
  BY DEF AskPanics
<1>3. \A d \in Client, q \in Part :
        /\ leg'[d][q] \in Underway => leg[d][q] \in Underway
        /\ leg'[d][q] = "ack" => leg[d][q] = "ack"
        /\ leg[d][p] = "stored" => leg'[d][p] \notin Underway
  BY <1>1, <1>2 DEF Underway
<1>4. \A x \in late' : x \in late \/ \E d \in Client :
        /\ leg[d][p] \in Underway /\ leg'[d][p] \notin Underway
        /\ x = [part |-> p, msg |-> msg[d], stage |-> leg[d][p]]
  BY <1>3 DEF AskPanics, Underway
<1>5. \A p1 \in Part : OnWay(p1)' \subseteq OnWay(p1)
  <2>1. \A x \in late' : x.msg \in OnWay(x.part)
    BY <1>4, LateOnWay, OnWayIs
  <2>2. msg' = msg
    BY DEF AskPanics
  <2>3. ASSUME NEW q \in Part, NEW m \in OnWay(q)' PROVE m \in OnWay(q)
    BY <1>3, <2>1, <2>2, OnWayNext, OnWayIs
  <2> QED
    BY <2>3
<1>6. \A d \in Client : scan'[d].found = scan[d].found
  <2>1. scan' = [scan EXCEPT ![c].todo = @ \ {p}]
    BY DEF AskPanics
  <2> QED
    BY <1>1, <2>1 DEF ScanState
<1>7. \A q \in Part : mem'[q].verts \subseteq mem[q].verts /\ mem'[q].ghosts \subseteq mem[q].ghosts
  <2>1. mem' = [mem EXCEPT ![p] = EmptyStore]
    BY DEF AskPanics
  <2> QED
    BY <1>1, <2>1, EmptyIsStore
<1>8. /\ UNCHANGED <<pc, reg, msg, mVerts, mGhosts, counter, acked, condemned, db>>
  BY DEF AskPanics, ids, metadata, history
<1>9. Still
  BY <1>3, <1>5, <1>6, <1>7, <1>8 DEF Still
<1>10. IdInv'
  BY <1>3, <1>4, <1>8, AbandonId
<1> QED
  BY <1>9, <1>10

\* What a message that is stored or run brings.
LEMMA Brings ==
  ASSUME Base, NEW p \in Part, NEW m \in OnWay(p), NEW s \in Store, NEW t,
         t = Stored(s, m) \/ t = Executed(s, m)
  PROVE  /\ \A i \in t.verts : i \in s.verts \/ (m.kind = "AddVertex" /\ i = m.id)
         /\ \A i \in t.ghosts : i \in s.ghosts \/ (m.kind = "AddGhostVertex" /\ i = m.id)
         /\ m.kind = "AddVertex" => m.id \in t.verts
         /\ \A i \in s.verts : i \in t.verts \/ (m.kind = "DeleteVertex" /\ i = m.id)
<1>1. m \in Message /\ m.kind # "none" /\ (m.kind = "AddVertex" => m.id \in Id)
  <2>1. ASSUME NEW c \in Client, leg[c][p] \in Underway, m = msg[c]
        PROVE  m \in Message /\ m.kind # "none" /\ (m.kind = "AddVertex" => m.id \in Id)
    BY <2>1, MsgOnWay
  <2>2. ASSUME NEW x \in late, x.part = p, m = x.msg
        PROVE  m \in Message /\ m.kind # "none" /\ (m.kind = "AddVertex" => m.id \in Id)
    <3>1. late \subseteq [part : Part, msg : Message, stage : {"sent", "stored"}]
      BY DEF Base, TypeOK
    <3> QED
      BY <2>2, <3>1 DEF Base, LateInv
  <2> QED
    BY <2>1, <2>2, OnWayIs
<1> QED
  BY <1>1, Effect

\* handleConn changes the memory of a worker: it gets only what was on its
\* way.
LEMMA DeliverStill ==
  ASSUME IInv, NEW c \in Client, NEW p \in Part, Deliver(c, p)
  PROVE  Still /\ IdInv'
<1>0. Base /\ IdInv
  BY DEF IInv
<1>1. /\ leg \in [Client -> [Part -> Leg]] /\ mem \in [Part -> Store]
      /\ leg' = [leg EXCEPT ![c][p] = "stored"] /\ leg[c][p] \in Underway
      /\ mem' = [mem EXCEPT ![p] = Stored(@, msg[c])]
  BY <1>0, BaseParts DEF LocalType, GlobalType, Deliver, Underway
<1>2. \A d \in Client, q \in Part :
        /\ leg'[d][q] \in Underway => leg[d][q] \in Underway
        /\ leg'[d][q] = "ack" => leg[d][q] = "ack"
  BY <1>1 DEF Underway
<1>3. /\ UNCHANGED <<pc, reg, msg, scan, mVerts, mGhosts, counter, acked, condemned, db>>
      /\ late' = late
  BY DEF Deliver, ids, metadata, local, history, channel
<1>4. \A q \in Part : OnWay(q)' \subseteq OnWay(q)
  BY <1>2, <1>3, OnWayNext, OnWayIs
<1>5. msg[c] \in OnWay(p)
  BY <1>1, OnWayIs
<1>6. /\ \A i \in mem'[p].verts : i \in mem[p].verts \/ (msg[c].kind = "AddVertex" /\ i = msg[c].id)
      /\ \A i \in mem'[p].ghosts :
           i \in mem[p].ghosts \/ (msg[c].kind = "AddGhostVertex" /\ i = msg[c].id)
  BY <1>0, <1>1, <1>5, Brings
<1>7. \A q \in Part : q # p => mem'[q] = mem[q]
  BY <1>1
<1>8. \A q \in Part : \A i \in mem'[q].verts : i \in mem[q].verts \/ Carried(q, i)
  BY <1>5, <1>6, <1>7 DEF Carried
<1>9. \A q \in Part : \A i \in mem'[q].ghosts \cup db'[q].ghosts :
       \/ i \in mem[q].ghosts \cup db[q].ghosts
       \/ \E m \in OnWay(q) : m.kind = "AddGhostVertex" /\ m.id = i
  BY <1>3, <1>5, <1>6, <1>7
<1>10. Still
  BY <1>2, <1>3, <1>4, <1>8, <1>9 DEF Still
<1>11. IdInv'
  BY <1>0, <1>2, <1>3, StillId
<1> QED
  BY <1>10, <1>11

\* A Neo4j runs a query: it gets only what was on its way, which is then
\* not on its way any more, and a creation is acknowledged only when it is
\* there.
LEMMA RunQueryStill ==
  ASSUME IInv, NEW c \in Client, NEW p \in Part, RunQuery(c, p)
  PROVE  Still /\ IdInv'
<1>0. Base /\ IdInv /\ AckInv /\ KindInv
  BY KindNow DEF IInv
<1>1. /\ leg \in [Client -> [Part -> Leg]] /\ db \in [Part -> Store]
      /\ leg' = [leg EXCEPT ![c][p] = "ack"] /\ leg[c][p] \in Underway
      /\ db' = [db EXCEPT ![p] = Executed(@, msg[c])]
  BY <1>0, BaseParts DEF LocalType, GlobalType, RunQuery, Underway
<1>2. \A d \in Client, q \in Part :
        /\ leg'[d][q] \in Underway => leg[d][q] \in Underway
        /\ leg'[d][q] = "ack" => leg[d][q] = "ack" \/ (d = c /\ q = p)
  BY <1>1 DEF Underway
<1>3. /\ UNCHANGED <<pc, reg, msg, scan, mVerts, mGhosts, counter, acked, condemned, mem>>
      /\ late' = late
  BY DEF RunQuery, ids, metadata, workers, local, history, channel
<1>4. \A q \in Part : OnWay(q)' \subseteq OnWay(q)
  BY <1>2, <1>3, OnWayNext, OnWayIs
<1>5. msg[c] \in OnWay(p)
  BY <1>1, OnWayIs
<1>6. /\ \A i \in db'[p].verts : i \in db[p].verts \/ (msg[c].kind = "AddVertex" /\ i = msg[c].id)
      /\ \A i \in db'[p].ghosts :
           i \in db[p].ghosts \/ (msg[c].kind = "AddGhostVertex" /\ i = msg[c].id)
      /\ msg[c].kind = "AddVertex" => msg[c].id \in db'[p].verts
      /\ \A i \in db[p].verts : i \in db'[p].verts \/ (msg[c].kind = "DeleteVertex" /\ i = msg[c].id)
  BY <1>0, <1>1, <1>5, Brings
<1>7. \A q \in Part : q # p => db'[q] = db[q]
  BY <1>1
<1>8. ASSUME msg[c].kind = "AddVertex" PROVE ~Coming(msg[c].id)'
  <2> SUFFICES ASSUME NEW q \in Part, NEW m \in OnWay(q)', m.kind = "AddVertex",
                      NEW i, i = msg[c].id, m.id = i
               PROVE  FALSE
    BY <1>3 DEF Coming, Carried
  <2>1. pc[c] = "addVertex" /\ reg[c].id = i /\ reg[c].part = {p}
    BY <1>0, <1>1, <1>8 DEF KindInv
  <2>2. ASSUME NEW d \in Client, leg'[d][q] \in Underway, m = msg'[d] PROVE FALSE
    <3>1. leg[d][q] \in Underway /\ m = msg[d]
      BY <1>2, <1>3, <2>2
    <3>2. pc[d] = "addVertex" /\ reg[d].id = i /\ reg[d].part = {q}
      BY <1>0, <3>1 DEF KindInv
    <3>3. d = c /\ q = p
      BY <1>0, <2>1, <3>2 DEF IdInv
    <3> QED
      BY <1>1, <2>2, <3>3 DEF Underway
  <2>3. ASSUME NEW x \in late', x.part = q, m = x.msg PROVE FALSE
    BY <1>0, <1>1, <1>3, <2>1, <2>3 DEF IdInv
  <2> QED
    BY <2>2, <2>3, OnWayNext
<1>9. \A q \in Part : \A i \in db'[q].verts :
        i \in db[q].verts \/ (Carried(q, i) /\ ~Coming(i)')
  <2> SUFFICES ASSUME NEW q \in Part, NEW i \in db'[q].verts, i \notin db[q].verts
               PROVE  Carried(q, i) /\ ~Coming(i)'
    OBVIOUS
  <2>1. q = p /\ msg[c].kind = "AddVertex" /\ i = msg[c].id
    BY <1>6, <1>7
  <2>2. Carried(q, i)
    BY <1>5, <2>1 DEF Carried
  <2>3. ~Coming(i)'
    BY <1>3, <1>8, <2>1 DEF Coming, Carried
  <2> QED
    BY <2>2, <2>3
<1>10. \A q \in Part : \A i \in db[q].verts : i \in db'[q].verts \/ i \in condemned
  BY <1>0, <1>5, <1>6, <1>7 DEF AckInv
<1>11. \A q \in Part : \A i \in mem'[q].ghosts \cup db'[q].ghosts :
       \/ i \in mem[q].ghosts \cup db[q].ghosts
       \/ \E m \in OnWay(q) : m.kind = "AddGhostVertex" /\ m.id = i
  BY <1>3, <1>5, <1>6, <1>7
<1>12. ASSUME pc[c] = "addVertex" PROVE reg[c].id \in db'[p].verts
  BY <1>0, <1>6, <1>12, BaseParts DEF CallInv
<1>13. Still
  BY <1>2, <1>3, <1>4, <1>9, <1>10, <1>11, <1>12 DEF Still
<1>14. IdInv'
  BY <1>0, <1>2, <1>3, StillId
<1> QED
  BY <1>13, <1>14

\* The same for the memory of a worker, of a message whose call has given
\* up on it.
LEMMA LateDeliverStill ==
  ASSUME IInv, NEW x \in late, LateDeliver(x)
  PROVE  Still /\ IdInv'
<1>0. Base /\ IdInv
  BY DEF IInv
<1>1. /\ mem \in [Part -> Store] /\ x.part \in Part
      /\ x \in [part : Part, msg : Message, stage : {"sent", "stored"}]
      /\ mem' = [mem EXCEPT ![x.part] = Stored(@, x.msg)]
  BY <1>0 DEF Base, TypeOK, LateDeliver
<1>2. PICK y : y = [x EXCEPT !.stage = "stored"]
  OBVIOUS
<1>3. y.part = x.part /\ y.msg = x.msg
  BY <1>1, <1>2
<1>4. late' = (late \ {x}) \cup {y}
  BY <1>2 DEF LateDeliver
<1>5. UNCHANGED <<pc, reg, msg, leg, scan, mVerts, mGhosts, counter, acked, condemned, db>>
  BY DEF LateDeliver, ids, metadata, local, sending, history
<1>6. \A q \in Part : OnWay(q)' \subseteq OnWay(q)
  BY <1>3, <1>4, <1>5, OnWayNext, OnWayIs
<1>7. x.msg \in OnWay(x.part)
  BY LateOnWay
<1>8. /\ \A i \in mem'[x.part].verts :
           i \in mem[x.part].verts \/ (x.msg.kind = "AddVertex" /\ i = x.msg.id)
      /\ \A i \in mem'[x.part].ghosts :
           i \in mem[x.part].ghosts \/ (x.msg.kind = "AddGhostVertex" /\ i = x.msg.id)
  BY <1>0, <1>1, <1>7, Brings
<1>9. \A q \in Part : q # x.part => mem'[q] = mem[q]
  BY <1>1
<1>10. \A q \in Part : \A i \in mem'[q].verts : i \in mem[q].verts \/ Carried(q, i)
  BY <1>7, <1>8, <1>9 DEF Carried
<1>11. \A q \in Part : \A i \in mem'[q].ghosts \cup db'[q].ghosts :
       \/ i \in mem[q].ghosts \cup db[q].ghosts
       \/ \E m \in OnWay(q) : m.kind = "AddGhostVertex" /\ m.id = i
  BY <1>5, <1>7, <1>8, <1>9
<1>12. Still
  BY <1>5, <1>6, <1>10, <1>11 DEF Still
<1>13. \A z, w \in late' :
       z.msg.kind = "AddVertex" /\ w.msg.kind = "AddVertex" /\ z.msg.id = w.msg.id => z = w
  BY <1>0, <1>3, <1>4 DEF IdInv
<1>14. \A z \in late', c \in Client, p \in Part :
       z.msg.kind = "AddVertex" /\ pc[c] = "addVertex" /\ leg[c][p] \in Underway
         => z.msg.id # reg[c].id
  BY <1>0, <1>3, <1>4 DEF IdInv
<1>15. IdInv'
  BY <1>0, <1>5, <1>13, <1>14 DEF IdInv, Underway
<1> QED
  BY <1>12, <1>15

\* The same for a Neo4j, of a message whose call has given up on it.
LEMMA LateRunStill ==
  ASSUME IInv, NEW x \in late, LateRun(x)
  PROVE  Still /\ IdInv'
<1>0. Base /\ IdInv /\ AckInv /\ KindInv
  BY KindNow DEF IInv
<1>1. /\ db \in [Part -> Store] /\ x.part \in Part
      /\ db' = [db EXCEPT ![x.part] = Executed(@, x.msg)]
      /\ late' = late \ {x}
  BY <1>0 DEF Base, TypeOK, LateRun
<1>2. UNCHANGED <<pc, reg, msg, leg, scan, mVerts, mGhosts, counter, acked, condemned, mem>>
  BY DEF LateRun, ids, metadata, workers, local, sending, history
<1>3. \A q \in Part : OnWay(q)' \subseteq OnWay(q)
  BY <1>1, <1>2, OnWayNext, OnWayIs
<1>4. x.msg \in OnWay(x.part)
  BY LateOnWay
<1>5. /\ \A i \in db'[x.part].verts :
           i \in db[x.part].verts \/ (x.msg.kind = "AddVertex" /\ i = x.msg.id)
      /\ \A i \in db'[x.part].ghosts :
           i \in db[x.part].ghosts \/ (x.msg.kind = "AddGhostVertex" /\ i = x.msg.id)
      /\ \A i \in db[x.part].verts :
           i \in db'[x.part].verts \/ (x.msg.kind = "DeleteVertex" /\ i = x.msg.id)
  BY <1>0, <1>1, <1>4, Brings
<1>6. \A q \in Part : q # x.part => db'[q] = db[q]
  BY <1>1
<1>7. ASSUME NEW q \in Part, NEW m \in OnWay(q)', m.kind = "AddVertex",
             x.msg.kind = "AddVertex"
      PROVE  m.id # x.msg.id
  <2>1. ASSUME NEW d \in Client, leg'[d][q] \in Underway, m = msg'[d] PROVE m.id # x.msg.id
    <3>1. leg[d][q] \in Underway /\ m = msg[d]
      BY <1>2, <2>1
    <3>2. pc[d] = "addVertex" /\ m.id = reg[d].id
      BY <1>0, <1>7, <3>1 DEF KindInv
    <3> QED
      BY <1>0, <1>7, <3>1, <3>2 DEF IdInv
  <2>2. ASSUME NEW y \in late', y.part = q, m = y.msg PROVE m.id # x.msg.id
    BY <1>0, <1>1, <1>7, <2>2 DEF IdInv
  <2> QED
    BY <2>1, <2>2, OnWayNext
<1>8. ASSUME NEW q \in Part, NEW i \in db'[q].verts, i \notin db[q].verts
      PROVE  Carried(q, i) /\ ~Coming(i)'
  <2>1. q = x.part /\ x.msg.kind = "AddVertex" /\ i = x.msg.id
    BY <1>5, <1>6, <1>8
  <2>2. Carried(q, i)
    BY <1>4, <2>1 DEF Carried
  <2>3. ~Coming(i)'
    BY <1>7, <2>1 DEF Coming, Carried
  <2> QED
    BY <2>2, <2>3
<1>9. \A q \in Part : \A i \in db[q].verts : i \in db'[q].verts \/ i \in condemned
  BY <1>0, <1>4, <1>5, <1>6 DEF AckInv
<1>10. \A q \in Part : \A i \in mem'[q].ghosts \cup db'[q].ghosts :
       \/ i \in mem[q].ghosts \cup db[q].ghosts
       \/ \E m \in OnWay(q) : m.kind = "AddGhostVertex" /\ m.id = i
  BY <1>2, <1>4, <1>5, <1>6
<1>11. Still
  BY <1>2, <1>3, <1>8, <1>9, <1>10 DEF Still
<1>12. IdInv'
  BY <1>0, <1>1, <1>2, StillId
<1> QED
  BY <1>11, <1>12

----------------------------------------------------------------------------
(* Every step is one of these.                                             *)

\* What a step of a request may do to ghosts and acknowledgements.
OwnStep(c) ==
  /\ StepOf(c)
  /\ UNCHANGED <<late, mem, db>>
  /\ condemned \subseteq condemned'
  /\ mGhosts' = mGhosts \/ AddGhost(c)
  /\ pc'[c] \in {"cross", "ghost"} => Plan(c) \/ NeedGhost(c)
  /\ pc'[c] = "addGhost" => AddGhost(c)
  /\ pc'[c] = "delVertex" => DeleteVertex(c)
  /\ pc'[c] = "addVertex" => \A p \in Part : leg'[c][p] # "ack"
  /\ acked' = acked \/ VertexAdded(c)

\* Every step of the system is a step of the network and the workers, or
\* that of one request, and does no more than Flow says.
LEMMA StepKinds ==
  ASSUME IInv, Base', [Next]_vars
  PROVE  Flow /\ IdInv' /\ (Still \/ \E c \in Client : OwnStep(c))
<1>0. Base
  BY DEF IInv
<1>1. ASSUME NEW c \in Client, Aside(c) PROVE Flow /\ IdInv' /\ OwnStep(c)
  <2>1. OwnStep(c)
    BY <1>1 DEF Aside, OwnStep, workers, channel
  <2> QED
    BY <1>1, <2>1, AsideFlow, AsideId
<1>2. ASSUME NEW c \in Client, Listing(c) PROVE Flow /\ IdInv' /\ OwnStep(c)
  <2>1. OwnStep(c)
    BY <1>2 DEF Listing, OwnStep, workers, channel
  <2> QED
    BY <1>2, <2>1, ListingFlow, ListingId
<1>3. ASSUME NEW c \in Client, NextVariable(c) PROVE Flow /\ IdInv' /\ OwnStep(c)
  <2>1. OwnStep(c)
    BY <1>0, <1>3, NextVariableFacts
    DEF OwnStep, NextVariable, metadata, workers, history, channel
  <2> QED
    BY <1>3, <2>1, NextVariableFlow, NextVariableId
<1>4. ASSUME NEW c \in Client, Place(c) PROVE Flow /\ IdInv' /\ OwnStep(c)
  <2>1. OwnStep(c)
    BY <1>0, <1>4, PlaceFacts DEF OwnStep, Place, metadata, workers, history, channel
  <2> QED
    BY <1>4, <2>1, PlaceFlow, PlaceId
<1>5. ASSUME Still, IdInv' PROVE Flow /\ IdInv' /\ Still
  BY <1>5, StillFlow
<1>6. ASSUME NEW c \in Client, AddVertexStep(c)
      PROVE  Aside(c) \/ Listing(c) \/ NextVariable(c) \/ Place(c)
  BY <1>0, <1>6, VariablesDoneAside, ExistsAside, VertexAddedListing, UpdateSummaryListing
  DEF AddVertexStep
<1>7. ASSUME NEW c \in Client, LookStep(c) PROVE Aside(c)
  BY <1>0, <1>7, LookedAAside, LookedBAside, CheckedAAside, CheckedBAside DEF LookStep
<1>8. ASSUME NEW c \in Client, AddEdgeStep(c) PROVE Aside(c)
  BY <1>0, <1>8, PlanAside, NeedGhostAside, AddGhostAside, GhostAddedAside, AddEdgeAside,
     EdgeAddedAside DEF AddEdgeStep
<1>9. ASSUME NEW c \in Client, DeleteStep(c) PROVE Aside(c) \/ Listing(c)
  BY <1>0, <1>9, DeleteVertexAside, VertexDeletedListing, ForgetListing, DeleteEdgeAside,
     EdgeDeletedAside DEF DeleteStep
<1>10. ASSUME NEW c \in Client, NEW r \in Request, Begin(c, r) PROVE Aside(c)
  BY <1>0, <1>10, BeginAside
<1>11. ASSUME NEW c \in Client, NEW p \in Part,
              \/ Ask(c, p) \/ AskPanics(c, p) \/ AskFails(c, p)
              \/ Deliver(c, p) \/ Unreachable(c, p) \/ RunQuery(c, p) \/ Lose(c, p)
       PROVE  Still /\ IdInv'
  BY <1>11, AskStill, AskPanicsStill, DeliverStill, UnreachableStill, RunQueryStill, LoseStill
<1>12. ASSUME NEW x \in late, LateDeliver(x) \/ LateRun(x) \/ LateDrop(x)
       PROVE  Still /\ IdInv'
  BY <1>12, LateDeliverStill, LateRunStill, LateDropStill
<1>13. ASSUME NEW p \in Part, Restart(p) PROVE Still /\ IdInv'
  BY <1>13, RestartStill
<1>14. CASE UNCHANGED vars
  BY <1>5, <1>14, StutterStill
<1>15. CASE Next
  <2>1. \/ Still /\ IdInv'
        \/ \E c \in Client : Aside(c) \/ Listing(c) \/ NextVariable(c) \/ Place(c)
    BY <1>6, <1>7, <1>8, <1>9, <1>10, <1>11, <1>12, <1>13, <1>15 DEF Next, Progress
  <2> QED
    BY <1>1, <1>2, <1>3, <1>4, <1>5, <2>1
<1> QED
  BY <1>14, <1>15

\* The messages on their way after a step of one request.
LEMMA OnWayOwn ==
  ASSUME NEW c \in Client, OwnStep(c), NEW p, NEW m \in OnWay(p)'
  PROVE  m \in OnWay(p) \/ (leg'[c][p] \in Underway /\ m = msg'[c])
<1>1. ASSUME NEW d \in Client \ {c}, leg'[d][p] \in Underway, m = msg'[d] PROVE m \in OnWay(p)
  BY <1>1, OnWayIs DEF OwnStep, StepOf, Same
<1>2. ASSUME NEW x \in late', x.part = p, m = x.msg PROVE m \in OnWay(p)
  BY <1>2, OnWayIs DEF OwnStep
<1> QED
  BY <1>1, <1>2, OnWayNext
=============================================================================
