-------------------------- MODULE GraphStoreProofs --------------------------
(***************************************************************************)
(* The invariant of GraphStore is inductive, and what follows from it:     *)
(* homes are unique, ghosts are elsewhere, the master knows of every       *)
(* ghost, what was acknowledged is durable, and what was deleted does not  *)
(* return.                                                                 *)
(***************************************************************************)
EXTENDS GraphStoreSteps

----------------------------------------------------------------------------
(* Ghosts.                                                                 *)

\* The ghost of a crossing edge is put where its vertex neither is nor will be.
LEMMA PlanGhost ==
  ASSUME IInv, NEW c \in Client, Plan(c), pc'[c] = "cross",
         NEW p \in reg'[c].part, NEW g, g = reg'[c].ghost
  PROVE  Numbered(g) /\ ~Owns(p, g)
<1>0. Base /\ HomeInv /\ GhostInv /\ IdInv
  BY DEF IInv
<1>1. ~Finish(c, "error")
  BY <1>0, BaseParts DEF Finish, LocalType
<1>2. PICK p1 \in Home(reg[c].a), p2 \in Home(reg[c].b) :
        /\ reg' = [reg EXCEPT
             ![c].part = {IF p1 # p2 /\ reg[c].v1 \in mGhosts[p1] THEN p2 ELSE p1},
             ![c].ghost = IF reg[c].v1 \in mGhosts[p1] THEN reg[c].v1 ELSE reg[c].v2]
        /\ pc' = [pc EXCEPT ![c] = IF p1 = p2 THEN "edge" ELSE "cross"]
  BY <1>1 DEF Plan
<1>3. /\ p1 \in Part /\ p2 \in Part /\ reg[c].a \in mVerts[p1] /\ reg[c].b \in mVerts[p2]
      /\ reg[c] \in Registers /\ pc \in [Client -> Position] /\ reg \in [Client -> Registers]
      /\ mVerts \in [Part -> SUBSET Id]
  BY <1>0, <1>2, BaseParts DEF Home, LocalType
<1>4. p1 # p2
  BY <1>2, <1>3
<1>5. p = IF reg[c].v1 \in mGhosts[p1] THEN p2 ELSE p1
  <2>1. reg'[c].part = {IF p1 # p2 /\ reg[c].v1 \in mGhosts[p1] THEN p2 ELSE p1}
    BY <1>2, <1>3 DEF Registers
  <2> QED
    BY <1>4, <2>1
<1>6. g = IF reg[c].v1 \in mGhosts[p1] THEN reg[c].v1 ELSE reg[c].v2
  BY <1>2, <1>3 DEF Registers
<1>7. /\ reg[c].a \in ById(reg[c].v1) /\ reg[c].b \in ById(reg[c].v2)
  BY <1>0, BaseParts DEF LookInv, Plan, Scanned
<1>8. Numbered(NoId) /\ \A q \in Part : ~Owns(q, NoId)
  BY <1>0, NoIdOver, NoIdFacts, OwnsId DEF Over
<1>9. CASE reg[c].v1 \in mGhosts[p1]
  <2>1. ~Owns(p1, reg[c].v1)
    BY <1>0, <1>3, <1>9 DEF GhostInv
  <2>2. reg[c].v1 # reg[c].a
    BY <1>3, <2>1 DEF Owns, Holds
  <2>3. reg[c].v1 = NoId
    BY <1>7, <2>2 DEF ById
  <2> QED
    BY <1>3, <1>5, <1>6, <1>8, <1>9, <2>3
<1>10. CASE reg[c].v1 \notin mGhosts[p1]
  <2>1. p = p1 /\ g = reg[c].v2
    BY <1>5, <1>6, <1>10
  <2>2. CASE reg[c].v2 = NoId
    BY <1>3, <1>8, <2>1, <2>2
  <2>3. CASE reg[c].v2 # NoId
    <3>1. reg[c].b = reg[c].v2 /\ Owns(p2, reg[c].b) /\ reg[c].b \in Id
      BY <1>3, <1>7, <2>3 DEF ById, Owns, Holds
    <3> QED
      BY <1>0, <1>3, <1>4, <2>1, <3>1 DEF HomeInv
  <2> QED
    BY <2>2, <2>3
<1> QED
  BY <1>9, <1>10

\* addGhostVertex lists the ghost in the partition that its message goes
\* to.
LEMMA AddGhostFacts ==
  ASSUME Base, NEW c \in Client, AddGhost(c)
  PROVE  \E p \in Part :
           /\ p \in reg[c].part /\ pc[c] = "ghost"
           /\ mGhosts' = [mGhosts EXCEPT ![p] = @ \cup {reg[c].ghost}]
           /\ msg'[c].id = reg[c].ghost
           /\ \A q \in Part : leg'[c][q] \in Underway => q = p
<1>1. PICK p \in Part : reg[c].part = {p}
  BY BaseParts DEF CallInv, AddGhost
<1>2. reg[c].ghost \in AnyId /\ LocalType
  BY BaseParts, RegGet
<1> DEFINE m == [NoMsg EXCEPT !.kind = "AddGhostVertex", !.id = reg[c].ghost]
<1>3. m.id = reg[c].ghost
  BY <1>2, MsgAddGhost
<1>4. Send(c, {p}, m, "addGhost") /\ mGhosts' = [mGhosts EXCEPT ![p] = @ \cup {reg[c].ghost}]
  BY <1>1 DEF AddGhost
<1> HIDE DEF m
<1>5. msg'[c] = m /\ leg'[c] = [q \in Part |-> IF q \in {p} THEN "sent" ELSE "none"]
  BY <1>2, <1>4 DEF Send, LocalType
<1> QED
  BY <1>1, <1>3, <1>4, <1>5 DEF AddGhost, Underway

\* No step puts a ghost where its vertex is or may yet come, on the master,
\* on a worker or in a Neo4j.
LEMMA GhostNext == ASSUME IInv, Base', [Next]_vars PROVE GhostInv'
<1>0. Base /\ GhostInv /\ Flow /\ mGhosts \in [Part -> SUBSET AnyId]
  BY StepKinds DEF IInv, Base, TypeOK
<1>1. ASSUME NEW i, NEW p \in Part, Numbered(i), ~Owns(p, i)
      PROVE  Numbered(i)' /\ ~Owns(p, i)'
  BY <1>0, <1>1, NumberedStays, OwnsStays
<1>2. CASE Still
  <2>1. \A p \in Part : \A i \in mGhosts'[p] : Numbered(i)' /\ ~Owns(p, i)'
    BY <1>0, <1>1, <1>2 DEF GhostInv, Still
  <2>2. ASSUME NEW c \in Client, NEW p \in Part, pc'[c] \in {"cross", "ghost"},
               p \in reg'[c].part
        PROVE  (Numbered(reg[c].ghost) /\ ~Owns(p, reg[c].ghost))'
    <3>1. PICK g : g = reg[c].ghost
      OBVIOUS
    <3>2. Numbered(g)' /\ ~Owns(p, g)'
      BY <1>0, <1>1, <1>2, <2>2, <3>1 DEF GhostInv, Still
    <3>3. g = reg'[c].ghost
      BY <1>2, <3>1 DEF Still
    <3> QED
      BY <3>2, <3>3 DEF Numbered, Owns, Holds, Carried, Claims
  <2>3. \A p \in Part : mem'[p].ghosts \cup db'[p].ghosts \subseteq mGhosts'[p]
    <3>1. mGhosts' = mGhosts
      BY <1>2 DEF Still
    <3>2. ASSUME NEW p \in Part, NEW i \in mem'[p].ghosts \cup db'[p].ghosts
          PROVE  i \in mGhosts[p]
      BY <1>0, <1>2 DEF GhostInv, Still
    <3> QED
      BY <3>1, <3>2
  <2>4. \A p \in Part : \A m \in OnWay(p)' : m.kind = "AddGhostVertex" => m.id \in mGhosts'[p]
    BY <1>0, <1>2 DEF GhostInv, Still
  <2> QED
    BY <2>1, <2>2, <2>3, <2>4 DEF GhostInv
<1>3. ASSUME NEW c \in Client, OwnStep(c) PROVE GhostInv'
  <2>1. \A p \in Part : mGhosts[p] \subseteq mGhosts'[p]
    BY <1>0, <1>3, AddGhostFacts DEF OwnStep
  <2>2. \A p \in Part : \A i \in mGhosts'[p] : Numbered(i)' /\ ~Owns(p, i)'
    <3> SUFFICES ASSUME NEW p \in Part, NEW i \in mGhosts'[p]
                 PROVE  Numbered(i) /\ ~Owns(p, i)
      BY <1>1
    <3>1. CASE i \in mGhosts[p]
      BY <1>0, <3>1 DEF GhostInv
    <3>2. CASE i \notin mGhosts[p]
      <4>1. AddGhost(c)
        BY <1>3, <3>2 DEF OwnStep
      <4>2. p \in reg[c].part /\ i = reg[c].ghost /\ pc[c] = "ghost"
        BY <1>0, <3>2, <4>1, AddGhostFacts
      <4> QED
        BY <1>0, <4>2 DEF GhostInv
    <3> QED
      BY <3>1, <3>2
  <2>3. ASSUME NEW d \in Client, NEW p \in Part, pc'[d] \in {"cross", "ghost"},
               p \in reg'[d].part
        PROVE  (Numbered(reg[d].ghost) /\ ~Owns(p, reg[d].ghost))'
    <3>1. PICK g : g = reg'[d].ghost
      OBVIOUS
    <3>2. ASSUME d # c PROVE Numbered(g) /\ ~Owns(p, g)
      <4>1. pc[d] = pc'[d] /\ reg[d] = reg'[d]
        BY <1>3, <3>2 DEF OwnStep, StepOf, Same
      <4> QED
        BY <1>0, <2>3, <3>1, <4>1 DEF GhostInv
    <3>3. ASSUME d = c, NeedGhost(c) PROVE Numbered(g) /\ ~Owns(p, g)
      <4>1. pc[d] = "cross" /\ reg' = reg
        BY <3>3 DEF NeedGhost, local
      <4> QED
        BY <1>0, <2>3, <3>1, <4>1 DEF GhostInv
    <3>4. ASSUME d = c, Plan(c) PROVE Numbered(g) /\ ~Owns(p, g)
      <4>1. pc'[c] = "cross"
        BY <1>0, <2>3, <3>4, BaseParts DEF Plan, Finish, LocalType
      <4> QED
        BY <2>3, <3>1, <3>4, <4>1, PlanGhost
    <3>5. Numbered(g) /\ ~Owns(p, g)
      BY <1>3, <2>3, <3>2, <3>3, <3>4 DEF OwnStep
    <3>6. Numbered(g)' /\ ~Owns(p, g)'
      BY <1>1, <3>5
    <3> QED
      BY <3>1, <3>6 DEF Numbered, Owns, Holds, Carried, Claims
  <2>4. \A p \in Part : mem'[p].ghosts \cup db'[p].ghosts \subseteq mGhosts'[p]
    BY <1>0, <1>3, <2>1 DEF GhostInv, OwnStep
  <2>5. ASSUME NEW p \in Part, NEW m \in OnWay(p)', m.kind = "AddGhostVertex"
        PROVE  m.id \in mGhosts'[p]
    <3>1. CASE m \in OnWay(p)
      BY <1>0, <2>1, <2>5, <3>1 DEF GhostInv
    <3>2. CASE leg'[c][p] \in Underway /\ m = msg'[c]
      <4>1. pc'[c] = "addGhost"
        BY <2>5, <3>2, KindNext DEF KindInv
      <4>2. AddGhost(c)
        BY <1>3, <4>1 DEF OwnStep
      <4> QED
        BY <1>0, <3>2, <4>2, AddGhostFacts
    <3> QED
      BY <1>3, <3>1, <3>2, OnWayOwn
  <2> QED
    BY <2>2, <2>3, <2>4, <2>5 DEF GhostInv
<1> QED
  BY <1>2, <1>3, StepKinds

----------------------------------------------------------------------------
(* Acknowledged and deleted vertices.                                      *)

\* A message that says to delete a vertex puts it down as condemned.
LEMMA CondemnFacts ==
  ASSUME Base, NEW c \in Client, DeleteVertex(c), pc'[c] = "delVertex"
  PROVE  reg'[c].v1 = reg[c].v1 /\ condemned' = condemned \cup {reg[c].v1}
<1>1. reg[c] \in Registers /\ LocalType
  BY BaseParts
<1>2. ~Finish(c, "error")
  BY <1>1 DEF Finish, LocalType
<1>3. /\ reg' = [reg EXCEPT ![c].part = Knowing(reg[c].v1)]
      /\ condemned' = condemned \cup {reg[c].v1}
  BY <1>2 DEF DeleteVertex
<1> QED
  BY <1>1, <1>3 DEF LocalType, Registers

\* Before the request believes that its vertex was created, it was.
LEMMA AddedFacts ==
  ASSUME Base, AckInv, NEW c \in Client, VertexAdded(c), NEW i \in acked' \ acked
  PROVE  i \in condemned \/ \E p \in Part : i \in db[p].verts
<1>1. Agreed(c) /\ i = reg[c].id /\ Settled(c, "addVertex")
  BY DEF VertexAdded
<1>2. PICK p \in Part : leg[c][p] # "none"
  BY <1>1, BaseParts DEF CallInv, Settled
<1>3. leg[c][p] \in Leg
  BY BaseParts DEF LocalType
<1>4. pc[c] = "addVertex" /\ leg[c][p] = "ack"
  BY <1>1, <1>2, <1>3 DEF Settled, Agreed, Leg
<1> QED
  BY <1>1, <1>4 DEF AckInv

\* No step loses a vertex that was acknowledged, or leaves a deletion on
\* its way that was not condemned.
LEMMA AckNext == ASSUME IInv, Base', [Next]_vars PROVE AckInv'
<1>0. Base /\ AckInv
  BY DEF IInv
<1>1. CASE Still
  <2>1. ASSUME NEW c \in Client, NEW p \in Part, pc'[c] = "addVertex", leg'[c][p] = "ack"
        PROVE  reg'[c].id \in condemned' \cup db'[p].verts
    BY <1>0, <1>1, <2>1 DEF Still, AckInv
  <2>2. \A p \in Part : \A m \in OnWay(p)' : m.kind = "DeleteVertex" => m.id \in condemned'
    BY <1>0, <1>1 DEF Still, AckInv
  <2>3. ASSUME NEW i \in acked' \ condemned' PROVE i \in Database'
    <3>1. i \in Database /\ i \notin condemned
      BY <1>0, <1>1, <2>3 DEF Still, AckInv, DurableAck
    <3>2. PICK p \in Part : i \in db[p].verts
      BY <3>1 DEF Database
    <3>3. i \in db'[p].verts
      BY <1>1, <3>1, <3>2 DEF Still
    <3> QED
      BY <3>3 DEF Database
  <2> QED
    BY <2>1, <2>2, <2>3 DEF AckInv, DurableAck
<1>2. ASSUME NEW c \in Client, OwnStep(c) PROVE AckInv'
  <2>0. db' = db /\ condemned \subseteq condemned'
    BY <1>2 DEF OwnStep
  <2>1. ASSUME NEW d \in Client, NEW p \in Part, pc'[d] = "addVertex", leg'[d][p] = "ack"
        PROVE  reg'[d].id \in condemned' \cup db'[p].verts
    <3>1. d # c
      BY <1>2, <2>1 DEF OwnStep
    <3>2. pc[d] = "addVertex" /\ leg[d][p] = "ack" /\ reg'[d] = reg[d]
      BY <1>2, <2>1, <3>1 DEF OwnStep, StepOf, Same
    <3> QED
      BY <1>0, <2>0, <3>2 DEF AckInv
  <2>2. ASSUME NEW p \in Part, NEW m \in OnWay(p)', m.kind = "DeleteVertex"
        PROVE  m.id \in condemned'
    <3>1. CASE m \in OnWay(p)
      BY <1>0, <2>0, <2>2, <3>1 DEF AckInv
    <3>2. CASE leg'[c][p] \in Underway /\ m = msg'[c]
      <4>1. pc'[c] = "delVertex" /\ m.id = reg'[c].v1
        BY <2>2, <3>2, KindNext DEF KindInv
      <4> QED
        BY <1>0, <1>2, <4>1, CondemnFacts DEF OwnStep
    <3> QED
      BY <1>2, <3>1, <3>2, OnWayOwn
  <2>3. ASSUME NEW i \in acked' \ condemned' PROVE i \in Database'
    <3>1. CASE i \in acked
      BY <1>0, <2>0, <2>3, <3>1 DEF AckInv, DurableAck, Database
    <3>2. CASE i \notin acked
      BY <1>0, <1>2, <2>0, <2>3, <3>2, AddedFacts DEF OwnStep, Database
    <3> QED
      BY <3>1, <3>2
  <2> QED
    BY <2>1, <2>2, <2>3 DEF AckInv, DurableAck
<1> QED
  BY <1>1, <1>2, StepKinds

----------------------------------------------------------------------------
(* The invariant, and what it shows.                                       *)

\* The invariant holds at first: nothing is owned, listed or on its way.
LEMMA InvInit == Init => IInv
<1> SUFFICES ASSUME Init PROVE IInv
  OBVIOUS
<1>1. Base
  BY BaseInit
<1>2. IdInv
  BY DEF Init, IdInv
<1>3. \A p \in Part : OnWay(p) = {}
  BY DEF Init, OnWay, NoLegs, Underway
<1>4. \A p \in Part : /\ db[p].verts = {} /\ db[p].ghosts = {}
                      /\ mem[p].verts = {} /\ mem[p].ghosts = {}
                      /\ mVerts[p] = {} /\ mGhosts[p] = {}
  BY DEF Init, EmptyStore
<1>5. \A p \in Part : \A i : ~Owns(p, i)
  BY <1>3, <1>4 DEF Init, Owns, Holds, Carried, Claims
<1>6. OverInv
  <2>1. Over(NoId)
    BY <1>1, <1>2, NoIdOver
  <2>2. \A c \in Client : reg[c].v1 = NoId /\ reg[c].a = NoId /\ scan[c].found = {}
    BY DEF Init, NoReg, NoScan
  <2>3. condemned = {}
    BY DEF Init
  <2> QED
    BY <1>4, <2>1, <2>2, <2>3 DEF OverInv
<1>7. HomeInv
  BY <1>5 DEF HomeInv
<1>8. GhostInv
  <2>1. \A c \in Client : pc[c] = "idle"
    BY DEF Init
  <2> QED
    BY <1>3, <1>4, <2>1 DEF GhostInv
<1>9. AckInv
  <2>1. (\A c \in Client : pc[c] = "idle") /\ acked = {}
    BY DEF Init
  <2> QED
    BY <1>3, <2>1 DEF AckInv, DurableAck
<1> QED
  BY <1>1, <1>2, <1>6, <1>7, <1>8, <1>9 DEF IInv

\* Every step keeps the invariant.
LEMMA InvStep == IInv /\ [Next]_vars => IInv'
<1> SUFFICES ASSUME IInv, [Next]_vars PROVE IInv'
  OBVIOUS
<1>1. Base'
  BY BaseStep DEF IInv
<1>2. Flow /\ IdInv'
  BY <1>1, StepKinds
<1>3. HomeInv' /\ OverInv'
  BY <1>1, <1>2, HomeNext, OverNext
<1>4. GhostInv' /\ AckInv'
  BY <1>1, GhostNext, AckNext
<1> QED
  BY <1>1, <1>2, <1>3, <1>4 DEF IInv

\* The invariant holds of every behaviour, for every set of clients, every
\* finite set of partitions, and however many requests and faults there
\* are: identifiers, homes, ghosts and acknowledgements are what the
\* handlers of sdp.go take them for.
THEOREM Inductive == Spec => []IInv
  BY InvInit, InvStep, PTL DEF Spec

\* A vertex has one home (placement in ProcessAddVertex2PC, sdp.go:57-94),
\* although updateSummary and deleteVertex take no lock and messages come
\* late.
THEOREM HomeUnique == Spec => []HomeIsUnique
<1>1. IInv => HomeIsUnique
  <2> SUFFICES ASSUME IInv, NEW p \in Part, NEW q \in Part,
                      NEW i \in mVerts[p] \cap (mVerts[q] \cup mem[q].verts \cup db[q].verts)
               PROVE  p = q
    BY DEF HomeIsUnique
  <2>1. Owns(p, i) /\ Owns(q, i)
    BY DEF Owns, Holds
  <2>2. i \in Id
    BY <2>1, OwnsId DEF IInv
  <2> QED
    BY <2>1, <2>2 DEF IInv, HomeInv
<1> QED
  BY <1>1, Inductive, PTL

\* No copy of a partition has a vertex both as its own and as a ghost
\* (ProcessAddEdge2PC, sdp.go:266-334).
THEOREM GhostsElsewhere == Spec => []GhostElsewhere
<1>1. IInv => GhostElsewhere
  <2> SUFFICES ASSUME IInv, NEW p \in Part,
                      NEW i \in mGhosts[p] \cup mem[p].ghosts \cup db[p].ghosts
               PROVE  i \notin mVerts[p] \cup mem[p].verts \cup db[p].verts
    BY DEF GhostElsewhere
  <2>1. i \in mGhosts[p]
    BY DEF IInv, GhostInv
  <2> QED
    BY <2>1 DEF IInv, GhostInv, Owns, Holds
<1> QED
  BY <1>1, Inductive, PTL

\* The master knows of every ghost a worker or a Neo4j may hold, because it
\* lists a ghost before it sends it (sdp.go:327-332).
THEOREM MasterKnows == Spec => []MasterKnowsGhosts
<1>1. IInv => MasterKnowsGhosts
  BY DEF IInv, GhostInv, MasterKnowsGhosts
<1> QED
  BY <1>1, Inductive, PTL

\* A vertex whose creation all workers acknowledged stays in a Neo4j until
\* somebody sets out to delete it (sdp.go:90-94, sdp.go:479).
THEOREM AckDurable == Spec => []DurableAck
<1>1. IInv => DurableAck
  BY DEF IInv, AckInv
<1> QED
  BY <1>1, Inductive, PTL

\* A deleted vertex does not come back, whatever arrives late: Run2PC sends
\* a message once (master.go:65), and what a request deletes was found in a
\* Neo4j, so its creation is not on its way.
THEOREM NoReturn == Spec => NoResurrection
<1>1. IInv /\ IInv' /\ [Next]_vars => [\A i \in condemned : i \notin Database => i \notin Database']_vars
  <2> SUFFICES ASSUME IInv, IInv', [Next]_vars,
                      NEW i \in condemned, i \in Database'
               PROVE  i \in Database
    OBVIOUS
  <2>1. Over(i) /\ Flow
    BY StepKinds DEF IInv, OverInv
  <2>2. PICK p \in Part : i \in db'[p].verts
    BY DEF Database
  <2>3. ~Carried(p, i)
    BY <2>1 DEF Over, Coming
  <2> QED
    BY <2>1, <2>2, <2>3 DEF Flow, Database
<1> QED
  BY <1>1, Inductive, PTL DEF Spec, NoResurrection
=============================================================================
