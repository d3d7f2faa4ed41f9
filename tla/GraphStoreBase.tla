--------------------------- MODULE GraphStoreBase ---------------------------
(***************************************************************************)
(* The type invariant of GraphStore, proved together with what a request   *)
(* knows at each of its steps: which message is on its way, and that a     *)
(* search for an identifier finds that identifier. For every set of        *)
(* clients, every finite set of partitions, any requests and any number of *)
(* faults.                                                                 *)
(***************************************************************************)
EXTENDS GraphStore, TLAPS, FiniteSetTheorems

Underway == {"sent", "stored"}

----------------------------------------------------------------------------
(* What a request knows while it waits for its message.                    *)

\* The message in progress is that of the step the request stands at, and
\* has no legs on their way at any other step.  Only one worker is told of a
\* new vertex.
CallInv(c) ==
  /\ \A p \in Part : leg[c][p] \in Underway => pc[c] \in Calls
  /\ pc[c] = "addVertex" =>
       /\ msg[c].kind = "AddVertex" /\ msg[c].id = reg[c].id
       /\ \E p \in Part :
            /\ reg[c].part = {p} /\ leg[c][p] # "none"
            /\ \A q \in Part : leg[c][q] # "none" => q = p
  /\ pc[c] = "addGhost" => msg[c].kind = "AddGhostVertex"
  /\ pc[c] = "addEdge" => msg[c].kind = "AddEdge"
  /\ pc[c] = "delVertex" => msg[c].kind = "DeleteVertex" /\ msg[c].id = reg[c].v1
  /\ pc[c] = "delEdge" => msg[c].kind = "DeleteEdge"
  /\ pc[c] \in {"summary", "cross", "ghost"} => \E p \in Part : reg[c].part = {p}
  /\ pc[c] = "forget" => \E p \in Part : reg[c].home = {p} /\ reg[c].v1 \in reg[c].list

\* What was looked up: an identifier that is searched for is found as itself.
LookInv(c) ==
  /\ pc[c] \in {"exists", "addVertex", "summary"} => reg[c].id \in Id
  /\ pc[c] \in {"confirm", "delVertex", "forget"} => reg[c].v1 \in Id
  /\ pc[c] = "checkA" => scan[c].found \subseteq ById(reg[c].v1)
  /\ pc[c] = "checkB" => scan[c].found \subseteq ById(reg[c].v2)
  /\ pc[c] = "checkB" => reg[c].a \in ById(reg[c].v1) \cup {NoId}
  /\ pc[c] \in {"duplicate", "find"} =>
       reg[c].a \in ById(reg[c].v1) /\ reg[c].b \in ById(reg[c].v2)

LateInv ==
  \A x \in late :
    /\ x.msg.kind # "none"
    /\ x.msg.kind = "AddVertex" => x.msg.id \in Id

Base == TypeOK /\ (\A c \in Client : CallInv(c) /\ LookInv(c)) /\ LateInv

Leg == {"none", "sent", "stored", "ack", "no"}
Position == Scans \cup Calls \cup Steps
Reply == {"none", "create", "Delete", "error"}

LocalType ==
  /\ pc \in [Client -> Position]
  /\ reg \in [Client -> Registers] /\ scan \in [Client -> ScanState]
  /\ msg \in [Client -> Message] /\ leg \in [Client -> [Part -> Leg]]
  /\ reply \in [Client -> Reply]

GlobalType ==
  /\ counter \in 0 .. MaxId
  /\ keyOf \in [Id -> Key \cup {NoKey}]
  /\ mVerts \in [Part -> SUBSET Id]
  /\ mGhosts \in [Part -> SUBSET AnyId]
  /\ mEdges \in [Part -> SUBSET (AnyId \X AnyId)]
  /\ mInfo \in [Part -> SUBSET AnyId]
  /\ numVertices \in Int /\ numEdges \in Int
  /\ mem \in [Part -> Store] /\ db \in [Part -> Store]
  /\ up \in [Part -> BOOLEAN]
  /\ late \subseteq [part : Part, msg : Message, stage : {"sent", "stored"}]
  /\ issued \in 0 .. MaxRequests /\ faults \in 0 .. MaxFaults
  /\ crashed \subseteq Part
  /\ acked \subseteq Id /\ condemned \subseteq Id

\* The type invariant is that of the requests and that of everything else.
LEMMA TypeParts == TypeOK <=> LocalType /\ GlobalType
  BY DEF TypeOK, LocalType, GlobalType, Position, Leg, Reply

Same(d) ==
  /\ pc'[d] = pc[d] /\ reg'[d] = reg[d] /\ scan'[d] = scan[d]
  /\ msg'[d] = msg[d] /\ leg'[d] = leg[d]
StepOf(c) == \A d \in Client \ {c} : Same(d)

\* A request that a step does not touch knows what it knew.
LEMMA SameInv ==
  ASSUME NEW d \in Client, Same(d), CallInv(d), LookInv(d)
  PROVE  CallInv(d)' /\ LookInv(d)'
  BY DEF Same, CallInv, LookInv, Underway

\* The identifier of what was not found is no identifier, but a number all
\* the same.
LEMMA NoIdFacts == NoId \in AnyId /\ NoId \notin Id /\ Id \subseteq AnyId /\ Id \subseteq Nat
                   /\ MaxId \in Nat
  BY BoundAssumption DEF NoId, AnyId, Id, MaxId

\* The local variables of a goroutine that has just begun, or has returned,
\* are of their types.
LEMMA NoTypes ==
  /\ NoReg \in Registers /\ NoScan \in ScanState /\ NoMsg \in Message
  /\ NoLegs \in [Part -> Leg]
  BY NoIdFacts DEF NoReg, Registers, NoScan, ScanState, NoMsg, Message, NoLegs, Leg

LocalInv(c) == LocalType' /\ StepOf(c) /\ CallInv(c)' /\ LookInv(c)'

\* A handler that returns leaves no message and no local variable behind.
LEMMA FinishStep ==
  ASSUME LocalType, NEW c \in Client, NEW a \in Reply, Finish(c, a)
  PROVE  /\ LocalInv(c) /\ pc'[c] = "idle" /\ reg'[c] = NoReg /\ scan'[c] = NoScan /\ msg'[c] = NoMsg
         /\ leg'[c] = NoLegs
<1>1. /\ LocalType' /\ StepOf(c)
      /\ pc'[c] = "idle" /\ reg'[c] = NoReg /\ scan'[c] = NoScan /\ msg'[c] = NoMsg
      /\ leg'[c] = NoLegs
  <2>1. "idle" \in Position
    BY DEF Position, Steps
  <2> QED
    BY <2>1, NoTypes DEF LocalType, StepOf, Same, Finish
<1>2. CallInv(c)' /\ LookInv(c)'
  BY <1>1 DEF CallInv, LookInv, NoLegs, Underway
<1> QED
  BY <1>1, <1>2 DEF LocalInv

----------------------------------------------------------------------------
(* The records of one request after the assignments the actions make.      *)

\* Registers, scans and messages after the assignments the actions make.
LEMMA RegIdSet ==
  ASSUME NEW r \in Registers, NEW i \in AnyId
  PROVE  /\ [r EXCEPT !.v1 = i] \in Registers /\ [r EXCEPT !.v1 = i].v1 = i
         /\ [r EXCEPT !.v2 = i] \in Registers
         /\ [r EXCEPT !.a = i] \in Registers
         /\ [r EXCEPT !.a = i].a = i /\ [r EXCEPT !.a = i].v1 = r.v1
         /\ [r EXCEPT !.b = i] \in Registers
         /\ [r EXCEPT !.b = i].b = i /\ [r EXCEPT !.b = i].a = r.a
         /\ [r EXCEPT !.b = i].v1 = r.v1 /\ [r EXCEPT !.b = i].v2 = r.v2
  BY DEF Registers

\* ProcessAddVertex2PC, and the deletes, note the partitions to be told.
LEMMA RegPartSet ==
  ASSUME NEW r \in Registers, NEW P \in SUBSET Part
  PROVE  /\ [r EXCEPT !.part = P] \in Registers
         /\ [r EXCEPT !.part = P].part = P /\ [r EXCEPT !.part = P].id = r.id
         /\ [r EXCEPT !.part = P].v1 = r.v1
  BY DEF Registers

\* ProcessAddEdge2PC notes the partition of the edge and the vertex to be a
\* ghost there.
LEMMA RegGhostSet ==
  ASSUME NEW r \in Registers, NEW P \in SUBSET Part, NEW i \in AnyId
  PROVE  [r EXCEPT !.part = P, !.ghost = i] \in Registers
  BY DEF Registers

\* updateSummary reads the list and the count of vertices.
WithList(r, L, n) == [r EXCEPT !.list = L, !.num = n]
LEMMA RegListSet ==
  ASSUME NEW r \in Registers, NEW L \in SUBSET Id, NEW n \in Int
  PROVE  /\ WithList(r, L, n) \in Registers
         /\ WithList(r, L, n).part = r.part /\ WithList(r, L, n).id = r.id
         /\ WithList(r, L, n).v1 = r.v1 /\ WithList(r, L, n).a = r.a
         /\ WithList(r, L, n).list = L
  BY DEF Registers, WithList

\* deleteVertex reads the list and the count of the home.
WithHome(r, P, L, n) == [r EXCEPT !.home = P, !.list = L, !.num = n]
LEMMA RegHomeSet ==
  ASSUME NEW r \in Registers, NEW P \in SUBSET Part, NEW L \in SUBSET Id, NEW n \in Int
  PROVE  /\ WithHome(r, P, L, n) \in Registers
         /\ WithHome(r, P, L, n).home = P /\ WithHome(r, P, L, n).list = L
         /\ WithHome(r, P, L, n).v1 = r.v1 /\ WithHome(r, P, L, n).a = r.a
  BY DEF Registers, WithHome

\* What the local variables of a request range over.
LEMMA RegGet ==
  ASSUME NEW r \in Registers
  PROVE  /\ r.id \in AnyId /\ r.v1 \in AnyId /\ r.v2 \in AnyId
         /\ r.a \in AnyId /\ r.b \in AnyId /\ r.ghost \in AnyId
         /\ r.part \in SUBSET Part /\ r.home \in SUBSET Part
         /\ r.list \in SUBSET Id /\ r.num \in Int /\ r.var \in 0 .. 2
         /\ r.req \in [op : RequestKind \cup {"none"}, a : Key \cup {NoKey},
                       b : Key \cup {NoKey}]
  BY DEF Registers

\* The message that creates a vertex.
LEMMA MsgAddVertex ==
  ASSUME NEW i \in AnyId
  PROVE  /\ [NoMsg EXCEPT !.kind = "AddVertex", !.id = i] \in Message
         /\ [NoMsg EXCEPT !.kind = "AddVertex", !.id = i].kind = "AddVertex"
         /\ [NoMsg EXCEPT !.kind = "AddVertex", !.id = i].id = i
  BY NoIdFacts DEF NoMsg, Message

\* The message of addGhostToWorker.
LEMMA MsgAddGhost ==
  ASSUME NEW i \in AnyId
  PROVE  /\ [NoMsg EXCEPT !.kind = "AddGhostVertex", !.id = i] \in Message
         /\ [NoMsg EXCEPT !.kind = "AddGhostVertex", !.id = i].kind = "AddGhostVertex"
         /\ [NoMsg EXCEPT !.kind = "AddGhostVertex", !.id = i].id = i
  BY NoIdFacts DEF NoMsg, Message

\* The message of ProcessDeleteVertex2PCAll.
LEMMA MsgDeleteVertex ==
  ASSUME NEW i \in AnyId
  PROVE  /\ [NoMsg EXCEPT !.kind = "DeleteVertex", !.id = i] \in Message
         /\ [NoMsg EXCEPT !.kind = "DeleteVertex", !.id = i].kind = "DeleteVertex"
         /\ [NoMsg EXCEPT !.kind = "DeleteVertex", !.id = i].id = i
  BY NoIdFacts DEF NoMsg, Message

\* The messages that create and delete an edge.
LEMMA MsgEdge ==
  ASSUME NEW e \in AnyId \X AnyId, NEW f \in AnyId \X AnyId
  PROVE  /\ [NoMsg EXCEPT !.kind = "AddEdge", !.edge = e, !.link = f] \in Message
         /\ [NoMsg EXCEPT !.kind = "AddEdge", !.edge = e, !.link = f].kind = "AddEdge"
         /\ [NoMsg EXCEPT !.kind = "DeleteEdge", !.edge = e, !.link = f] \in Message
         /\ [NoMsg EXCEPT !.kind = "DeleteEdge", !.edge = e, !.link = f].kind = "DeleteEdge"
  BY NoIdFacts DEF NoMsg, Message

\* Both kinds of partial evaluation start with a well-formed state.
LEMMA ScanSet ==
  ASSUME mVerts \in [Part -> SUBSET Id]
  PROVE  /\ [list |-> mVerts, todo |-> {p \in Part : mVerts[p] # {}}, found |-> {}]
              \in ScanState
         /\ [NoScan EXCEPT !.todo = {p \in Part : mInfo[p] # {}}] \in ScanState
  BY DEF ScanState, NoScan

\* Steps of a request that start a search.  None has a message on its way.
Resting(c) == \A p \in Part : leg[c][p] \notin Underway

----------------------------------------------------------------------------
(* Steps of a request by their kind: a search, a call, or going on.        *)

\* A step that starts a search for a node, with new registers r: the
\* request has nothing on its way and has found nothing yet.
LEMMA NodeScanStep ==
  ASSUME LocalType, mVerts \in [Part -> SUBSET Id], NEW c \in Client,
         NEW w \in NodeScans, StartNodeScan(c, w),
         NEW r \in Registers, reg' = [reg EXCEPT ![c] = r], Resting(c),
         UNCHANGED sending, reply' \in [Client -> Reply],
         w = "exists" => r.id \in Id,
         w = "confirm" => r.v1 \in Id,
         w = "checkB" => r.a \in ById(r.v1) \cup {NoId}
  PROVE  LocalInv(c) /\ pc'[c] = w /\ reg'[c] = r /\ scan'[c].found = {}
<1>1. w \in Position
  BY DEF NodeScans, Position, Scans
<1>2. /\ LocalType' /\ StepOf(c)
      /\ pc'[c] = w /\ reg'[c] = r /\ leg'[c] = leg[c]
      /\ scan'[c] = [list |-> mVerts, todo |-> {p \in Part : mVerts[p] # {}}, found |-> {}]
  BY <1>1, ScanSet DEF LocalType, StepOf, Same, StartNodeScan, sending
<1>3. CallInv(c)' /\ LookInv(c)'
  BY <1>2 DEF CallInv, LookInv, NodeScans, Resting, Underway
<1> QED
  BY <1>2, <1>3 DEF LocalInv

\* The same for a search for a relationship between two vertices that were
\* found.
LEMMA EdgeScanStep ==
  ASSUME LocalType, mVerts \in [Part -> SUBSET Id], NEW c \in Client,
         NEW w \in {"duplicate", "find"}, StartEdgeScan(c, w),
         NEW r \in Registers, reg' = [reg EXCEPT ![c] = r], Resting(c),
         UNCHANGED sending, reply' \in [Client -> Reply],
         r.a \in ById(r.v1), r.b \in ById(r.v2)
  PROVE  LocalInv(c) /\ pc'[c] = w /\ reg'[c] = r /\ scan'[c].found = {}
<1>1. w \in Position
  BY DEF Position, Scans
<1>2. /\ LocalType' /\ StepOf(c)
      /\ pc'[c] = w /\ reg'[c] = r /\ leg'[c] = leg[c]
      /\ scan'[c] = [NoScan EXCEPT !.todo = {p \in Part : mInfo[p] # {}}]
  BY <1>1, ScanSet DEF LocalType, StepOf, Same, StartEdgeScan, sending
<1>3. CallInv(c)' /\ LookInv(c)' /\ scan'[c].found = {}
  BY <1>2 DEF CallInv, LookInv, Resting, Underway, NoScan
<1> QED
  BY <1>2, <1>3 DEF LocalInv

\* The message is the one of the step the request goes to.
Fits(w, m, r, P) ==
  /\ w = "addVertex" =>
       /\ m.kind = "AddVertex" /\ m.id = r.id /\ r.id \in Id
       /\ r.part = P /\ \E p \in Part : P = {p}
  /\ w = "addGhost" => m.kind = "AddGhostVertex"
  /\ w = "addEdge" => m.kind = "AddEdge"
  /\ w = "delVertex" => m.kind = "DeleteVertex" /\ m.id = r.v1 /\ r.v1 \in Id
  /\ w = "delEdge" => m.kind = "DeleteEdge"

\* Steps that start a call, for any of the five kinds of message.
LEMMA SendStep ==
  ASSUME LocalType, NEW c \in Client, NEW P \in SUBSET Part, NEW m \in Message,
         NEW w \in Calls, Send(c, P, m, w),
         NEW r \in Registers, reg' = [reg EXCEPT ![c] = r],
         UNCHANGED scan, reply' \in [Client -> Reply], Fits(w, m, r, P)
  PROVE  /\ LocalInv(c) /\ pc'[c] = w /\ reg'[c] = r /\ scan'[c] = scan[c] /\ msg'[c] = m
         /\ leg'[c] = [p \in Part |-> IF p \in P THEN "sent" ELSE "none"]
<1>1. w \in Position
  BY DEF Position
<1>2. [p \in Part |-> IF p \in P THEN "sent" ELSE "none"] \in [Part -> Leg]
  BY DEF Leg
<1>3. /\ LocalType' /\ StepOf(c)
      /\ pc'[c] = w /\ reg'[c] = r /\ msg'[c] = m /\ scan'[c] = scan[c]
      /\ leg'[c] = [p \in Part |-> IF p \in P THEN "sent" ELSE "none"]
  BY <1>1, <1>2 DEF LocalType, StepOf, Same, Send
<1>4. CallInv(c)'
  BY <1>3 DEF CallInv, Calls, Fits
<1>5. LookInv(c)'
  BY <1>3 DEF LookInv, Calls, Fits
<1> QED
  BY <1>3, <1>4, <1>5 DEF LocalInv

\* A request at a step that is not a call has nothing on its way.
LEMMA AtRest ==
  ASSUME NEW c \in Client, CallInv(c), pc[c] \notin Calls
  PROVE  Resting(c)
  BY DEF CallInv, Resting

\* A call that has been answered by every worker has nothing on its way.
LEMMA SettledRests ==
  ASSUME NEW c \in Client, NEW w, Settled(c, w)
  PROVE  Resting(c)
  BY DEF Settled, Resting, Underway

----------------------------------------------------------------------------
(* Every action of a request keeps Base.                                   *)

\* It is enough to look at the request that makes the step, and at what is
\* not local.
LEMMA BaseFrom ==
  ASSUME Base, NEW c \in Client, LocalInv(c), GlobalType', LateInv'
  PROVE  Base'
<1>1. \A d \in Client : CallInv(d)' /\ LookInv(d)'
  BY SameInv DEF Base, LocalInv, StepOf
<1> QED
  BY <1>1, TypeParts DEF Base, LocalInv, TypeOK, LocalType, GlobalType, Position, Leg, Reply

\* Most actions of a request leave all that is not local to it alone.
LEMMA BaseFromLocal ==
  ASSUME Base, NEW c \in Client, LocalInv(c),
         UNCHANGED <<ids, metadata, workers, db, issued, acked, condemned, channel>>
  PROVE  Base'
<1>1. GlobalType'
  BY TypeParts DEF Base, GlobalType, ids, metadata, workers, channel
<1>2. LateInv'
  BY DEF Base, LateInv, channel
<1> QED
  BY <1>1, <1>2, BaseFrom

\* What Base says, in the form the lemmas about one request use.
LEMMA BaseParts ==
  ASSUME Base, NEW c \in Client
  PROVE  /\ LocalType /\ GlobalType /\ CallInv(c) /\ LookInv(c)
         /\ reg[c] \in Registers /\ scan[c].found \subseteq Id /\ pc[c] \in Position
         /\ mVerts \in [Part -> SUBSET Id] /\ reply \in [Client -> Reply]
         /\ reg = [reg EXCEPT ![c] = reg[c]]
  BY TypeParts DEF Base, LocalType, GlobalType, ScanState

\* The first end point, or the vertex to be deleted, has been looked up.
LEMMA LookedABase == ASSUME Base, NEW c \in Client, LookedA(c) PROVE Base'
<1>1. CASE scan[c].found = {} /\ reg[c].req.op # "AddEdge"
  BY <1>1, FinishStep, BaseParts, BaseFromLocal DEF LookedA, Reply
<1>2. CASE ~(scan[c].found = {} /\ reg[c].req.op # "AddEdge")
  <2>1. PICK i \in OneOf(scan[c].found) : reg' = [reg EXCEPT ![c].v1 = i]
    BY <1>2 DEF LookedA
  <2>2. i \in AnyId /\ (scan[c].found # {} => i \in Id)
    BY BaseParts, NoIdFacts DEF OneOf
  <2> DEFINE r == [reg[c] EXCEPT !.v1 = i]
             w == IF reg[c].req.op = "DeleteVertex" THEN "confirm" ELSE "lookB"
  <2>3. r \in Registers /\ r.v1 = i
    <3>1. reg[c] \in Registers /\ i \in AnyId
      BY <2>2, BaseParts
    <3>2. r \in Registers
      BY <3>1, RegIdSet
    <3>3. r.v1 = i
      BY <3>1, RegIdSet
    <3> QED
      BY <3>2, <3>3
  <2>4. reg' = [reg EXCEPT ![c] = r] /\ reply' \in [Client -> Reply]
    BY <1>2, <2>1, BaseParts DEF LookedA
  <2>5. StartNodeScan(c, w) /\ UNCHANGED sending /\ w \in {"confirm", "lookB"}
    BY <1>2 DEF LookedA
  <2>6. w = "confirm" => r.v1 \in Id
    BY <1>2, <2>2, <2>3
  <2>7. Resting(c)
    BY AtRest, BaseParts DEF LookedA, Scanned, Calls
  <2> HIDE DEF r, w
  <2>8. LocalInv(c)
    BY <2>3, <2>4, <2>5, <2>6, <2>7, NodeScanStep, BaseParts DEF NodeScans
  <2> QED
    BY <1>2, <2>8, BaseFromLocal DEF LookedA
<1> QED
  BY <1>1, <1>2

\* The second end point has been looked up.
LEMMA LookedBBase == ASSUME Base, NEW c \in Client, LookedB(c) PROVE Base'
<1>1. CASE scan[c].found = {} /\ reg[c].req.op # "AddEdge"
  BY <1>1, FinishStep, BaseParts, BaseFromLocal DEF LookedB, Reply
<1>2. CASE ~(scan[c].found = {} /\ reg[c].req.op # "AddEdge")
  <2>1. PICK i \in OneOf(scan[c].found) : reg' = [reg EXCEPT ![c].v2 = i]
    BY <1>2 DEF LookedB
  <2>2. i \in AnyId /\ reg[c] \in Registers
    BY BaseParts, NoIdFacts DEF OneOf
  <2> DEFINE r == [reg[c] EXCEPT !.v2 = i]
  <2>3. r \in Registers
    BY <2>2, RegIdSet
  <2>4. reg' = [reg EXCEPT ![c] = r] /\ reply' \in [Client -> Reply]
    BY <1>2, <2>1, BaseParts DEF LookedB
  <2>5. StartNodeScan(c, "checkA") /\ UNCHANGED sending
    BY <1>2 DEF LookedB
  <2>6. Resting(c)
    BY AtRest, BaseParts DEF LookedB, Scanned, Calls
  <2> HIDE DEF r
  <2>7. LocalInv(c)
    BY <2>3, <2>4, <2>5, <2>6, NodeScanStep, BaseParts DEF NodeScans
  <2> QED
    BY <1>2, <2>7, BaseFromLocal DEF LookedB
<1> QED
  BY <1>1, <1>2

\* checkVertexExistence of the first end: what is found is the identifier
\* that was asked for.
LEMMA CheckedABase == ASSUME Base, NEW c \in Client, CheckedA(c) PROVE Base'
<1>1. CASE scan[c].found = {} /\ reg[c].req.op = "DeleteEdge"
  BY <1>1, FinishStep, BaseParts, BaseFromLocal DEF CheckedA, Reply
<1>2. CASE ~(scan[c].found = {} /\ reg[c].req.op = "DeleteEdge")
  <2>1. PICK i \in OneOf(scan[c].found) : reg' = [reg EXCEPT ![c].a = i]
    BY <1>2 DEF CheckedA
  <2>2. i \in AnyId /\ reg[c] \in Registers /\ i \in ById(reg[c].v1) \cup {NoId}
    BY BaseParts, NoIdFacts DEF OneOf, CheckedA, Scanned, LookInv
  <2> DEFINE r == [reg[c] EXCEPT !.a = i]
  <2>3. r \in Registers
    BY <2>2, RegIdSet
  <2>4. r.a \in ById(r.v1) \cup {NoId}
    BY <2>2, RegIdSet
  <2>5. reg' = [reg EXCEPT ![c] = r] /\ reply' \in [Client -> Reply]
    BY <1>2, <2>1, BaseParts DEF CheckedA
  <2>6. StartNodeScan(c, "checkB") /\ UNCHANGED sending
    BY <1>2 DEF CheckedA
  <2>7. Resting(c)
    BY AtRest, BaseParts DEF CheckedA, Scanned, Calls
  <2> HIDE DEF r
  <2>8. LocalInv(c)
    BY <2>3, <2>4, <2>5, <2>6, <2>7, NodeScanStep, BaseParts DEF NodeScans
  <2> QED
    BY <1>2, <2>8, BaseFromLocal DEF CheckedA
<1> QED
  BY <1>1, <1>2

\* checkVertexExistence of the second end: both are now known by their
\* identifiers.
LEMMA CheckedBBase == ASSUME Base, NEW c \in Client, CheckedB(c) PROVE Base'
<1>1. CASE scan[c].found = {} \/ reg[c].a = NoId
  BY <1>1, FinishStep, BaseParts, BaseFromLocal DEF CheckedB, Reply
<1>2. CASE ~(scan[c].found = {} \/ reg[c].a = NoId)
  <2>1. PICK i \in scan[c].found : reg' = [reg EXCEPT ![c].b = i]
    BY <1>2 DEF CheckedB
  <2>2. /\ i \in AnyId /\ reg[c] \in Registers
        /\ i \in ById(reg[c].v2) /\ reg[c].a \in ById(reg[c].v1)
    BY <1>2, BaseParts, NoIdFacts DEF CheckedB, Scanned, LookInv
  <2> DEFINE r == [reg[c] EXCEPT !.b = i]
             w == IF reg[c].req.op = "AddEdge" THEN "duplicate" ELSE "find"
  <2>3. r \in Registers
    BY <2>2, RegIdSet
  <2>4. r.a \in ById(r.v1) /\ r.b \in ById(r.v2)
    BY <2>2, RegIdSet
  <2>5. reg' = [reg EXCEPT ![c] = r] /\ reply' \in [Client -> Reply]
    BY <1>2, <2>1, BaseParts DEF CheckedB
  <2>6. StartEdgeScan(c, w) /\ UNCHANGED sending /\ w \in {"duplicate", "find"}
    BY <1>2 DEF CheckedB
  <2>7. Resting(c)
    BY AtRest, BaseParts DEF CheckedB, Scanned, Calls
  <2> HIDE DEF r, w
  <2>8. LocalInv(c)
    BY <2>3, <2>4, <2>5, <2>6, <2>7, EdgeScanStep, BaseParts
  <2> QED
    BY <1>2, <2>8, BaseFromLocal DEF CheckedB
<1> QED
  BY <1>1, <1>2

\* A step that goes on without a search or a message, with new registers r.
LEMMA PcStep ==
  ASSUME LocalType, NEW c \in Client,
         NEW w \in {"next", "summary", "cross", "edge", "ghost", "forget"},
         pc' = [pc EXCEPT ![c] = w],
         NEW r \in Registers, reg' = [reg EXCEPT ![c] = r], Resting(c),
         UNCHANGED scan, UNCHANGED sending, reply' \in [Client -> Reply],
         w = "summary" => r.id \in Id,
         w \in {"summary", "cross", "ghost"} => \E p \in Part : r.part = {p},
         w = "forget" => r.v1 \in Id /\ \E p \in Part : r.home = {p} /\ r.v1 \in r.list
  PROVE  LocalInv(c) /\ pc'[c] = w /\ reg'[c] = r /\ scan'[c] = scan[c]
<1>1. w \in Position
  BY DEF Position, Steps
<1>2. /\ LocalType' /\ StepOf(c)
      /\ pc'[c] = w /\ reg'[c] = r /\ leg'[c] = leg[c] /\ scan'[c] = scan[c]
  BY <1>1 DEF LocalType, StepOf, Same, sending
<1>3. CallInv(c)' /\ LookInv(c)'
  BY <1>2 DEF CallInv, LookInv, Resting, Underway
<1> QED
  BY <1>2, <1>3 DEF LocalInv

\* A vertex that exists is refused and the loop over variables goes on.
LEMMA ExistsBase == ASSUME Base, NEW c \in Client, Exists(c) PROVE Base'
<1>1. Resting(c)
  BY AtRest, BaseParts DEF Exists, Scanned, Calls
<1>2. reg' = [reg EXCEPT ![c] = reg[c]] /\ reg[c] \in Registers /\ reply' \in [Client -> Reply]
  BY BaseParts DEF Exists, local, history
<1>3. pc' = [pc EXCEPT ![c] = "next"] /\ UNCHANGED scan /\ UNCHANGED sending
  BY DEF Exists, local
<1>4. LocalInv(c)
  BY <1>1, <1>2, <1>3, PcStep, BaseParts
<1> QED
  BY <1>4, BaseFromLocal DEF Exists, history

\* The decision whether a ghost is needed keeps the partition of the edge.
LEMMA NeedGhostBase == ASSUME Base, NEW c \in Client, NeedGhost(c) PROVE Base'
<1>1. Resting(c)
  BY AtRest, BaseParts DEF NeedGhost, Calls
<1>2. reg' = [reg EXCEPT ![c] = reg[c]] /\ reg[c] \in Registers /\ reply' \in [Client -> Reply]
  BY BaseParts DEF NeedGhost, local, history
<1>3. PICK w \in {"edge", "ghost"} :
        pc' = [pc EXCEPT ![c] = w] /\ UNCHANGED scan /\ UNCHANGED sending
  BY DEF NeedGhost, local
<1>4. \E p \in Part : reg[c].part = {p}
  BY BaseParts DEF NeedGhost, CallInv
<1>5. LocalInv(c)
  BY <1>1, <1>2, <1>3, <1>4, PcStep, BaseParts
<1> QED
  BY <1>5, BaseFromLocal DEF NeedGhost, history

\* The answer to addGhostToWorker ends the request or lets it go on.
LEMMA GhostAddedBase == ASSUME Base, NEW c \in Client, GhostAdded(c) PROVE Base'
<1>1. CASE ~Agreed(c)
  BY <1>1, FinishStep, BaseParts, BaseFromLocal DEF GhostAdded, Reply
<1>2. CASE Agreed(c)
  <2>1. Resting(c)
    BY SettledRests DEF GhostAdded
  <2>2. /\ reg' = [reg EXCEPT ![c] = reg[c]] /\ reg[c] \in Registers
        /\ reply' \in [Client -> Reply]
    BY <1>2, BaseParts DEF GhostAdded, local
  <2>3. pc' = [pc EXCEPT ![c] = "edge"] /\ UNCHANGED scan /\ UNCHANGED sending
    BY <1>2 DEF GhostAdded, local
  <2>4. LocalInv(c)
    BY <2>1, <2>2, <2>3, PcStep, BaseParts
  <2> QED
    BY <2>4, BaseFromLocal DEF GhostAdded
<1> QED
  BY <1>1, <1>2

\* The answer to the message of an edge ends the request.
LEMMA EdgeAddedBase == ASSUME Base, NEW c \in Client, EdgeAdded(c) PROVE Base'
  BY FinishStep, BaseParts, BaseFromLocal DEF EdgeAdded, Reply

\* The loop over variables notes which one comes and the number it got.
LEMMA RegNewSet ==
  ASSUME NEW r \in Registers, NEW n \in 0 .. 2, NEW i \in AnyId
  PROVE  /\ [r EXCEPT !.var = n, !.id = i] \in Registers
         /\ [r EXCEPT !.var = n, !.id = i].id = i
  BY DEF Registers

\* A request that was accepted and has done nothing yet.
LEMMA RequestSet ==
  ASSUME NEW r \in Request
  PROVE  [NoReg EXCEPT !.req = r] \in Registers
<1>1. r \in [op : RequestKind \cup {"none"}, a : Key \cup {NoKey}, b : Key \cup {NoKey}]
  BY RequestAssumption
<1> QED
  BY <1>1, NoIdFacts DEF NoReg, Registers

\* A CREATE names one vertex, or two.
LEMMA VariablesFacts ==
  ASSUME NEW r \in [op : RequestKind \cup {"none"}, a : Key \cup {NoKey}, b : Key \cup {NoKey}]
  PROVE  /\ DOMAIN Variables(r) \subseteq 1 .. 2
         /\ \A n \in DOMAIN Variables(r) : Variables(r)[n] \in Key \cup {NoKey}
<1>1. CASE r.op = "AddEdge"
  BY <1>1 DEF Variables
<1>2. CASE r.op # "AddEdge"
  BY <1>2 DEF Variables
<1> QED
  BY <1>1, <1>2

\* HandleCypher starts a request.
LEMMA BeginBase == ASSUME Base, NEW c \in Client, NEW r \in Request, Begin(c, r) PROVE Base'
<1> DEFINE s == [NoReg EXCEPT !.req = r]
<1>1. s \in Registers /\ reg' = [reg EXCEPT ![c] = s]
  BY RequestSet DEF Begin
<1>2. Resting(c)
  BY AtRest, BaseParts DEF Begin, Calls
<1>3. reply' \in [Client -> Reply]
  BY BaseParts DEF Begin, Reply
<1> HIDE DEF s
<1>4. LocalInv(c)
  <2>1. CASE r.op \in {"AddVertex", "AddEdge"}
    <3>1. pc' = [pc EXCEPT ![c] = "next"] /\ UNCHANGED scan /\ UNCHANGED sending
      BY <2>1 DEF Begin
    <3> QED
      BY <1>1, <1>2, <1>3, <3>1, PcStep, BaseParts
  <2>2. CASE r.op \notin {"AddVertex", "AddEdge"}
    <3>1. StartNodeScan(c, "lookA") /\ UNCHANGED sending
      BY <2>2 DEF Begin
    <3> QED
      BY <1>1, <1>2, <1>3, <3>1, NodeScanStep, BaseParts DEF NodeScans
  <2> QED
    BY <2>1, <2>2
<1>5. GlobalType'
  BY BaseParts, BoundAssumption DEF GlobalType, Begin, ids, metadata, workers, channel
<1>6. LateInv'
  BY DEF Base, LateInv, Begin, channel
<1> QED
  BY <1>4, <1>5, <1>6, BaseFrom

\* getOrCreateVertexID: the number is one of the identifiers the bound
\* allows.
LEMMA NextVariableBase == ASSUME Base, NEW c \in Client, NextVariable(c) PROVE Base'
<1>1. reg[c] \in Registers /\ reg[c].var \in 0 .. 2
  BY BaseParts, RegGet
<1>2. PICK n \in 0 .. 2 : n = reg[c].var + 1
  BY <1>1, RegGet, VariablesFacts DEF NextVariable
<1>3. Variables(reg[c].req)[n] \in Key \cup {NoKey}
  BY <1>1, <1>2, RegGet, VariablesFacts DEF NextVariable
<1>4. counter \in 0 .. MaxId /\ counter' = counter + 1 /\ counter < MaxId
  BY BaseParts DEF GlobalType, NextVariable
<1>5. PICK i \in Id : counter' = i
  BY <1>4, NoIdFacts DEF Id
<1>6. i \in AnyId /\ reg[c] \in Registers /\ n \in 0 .. 2
  BY <1>1, NoIdFacts
<1> DEFINE r == [reg[c] EXCEPT !.var = n, !.id = i]
<1>7. r \in Registers
  BY <1>6, RegNewSet
<1>8. r.id = i
  BY <1>6, RegNewSet
<1>9. /\ reg' = [reg EXCEPT ![c] = r] /\ StartNodeScan(c, "exists")
      /\ UNCHANGED sending /\ reply' \in [Client -> Reply]
  BY <1>2, <1>5, BaseParts DEF NextVariable, history
<1>10. Resting(c)
  BY AtRest, BaseParts DEF NextVariable, Calls
<1> HIDE DEF r
<1>11. LocalInv(c)
  BY <1>7, <1>8, <1>9, <1>10, NodeScanStep, BaseParts DEF NodeScans
<1>12. GlobalType'
  <2>1. keyOf' = [keyOf EXCEPT ![i] = Variables(reg[c].req)[n]]
    BY <1>2, <1>5 DEF NextVariable
  <2>2. keyOf' \in [Id -> Key \cup {NoKey}]
    BY <1>3, <2>1, BaseParts DEF GlobalType
  <2>3. counter' \in 0 .. MaxId
    BY <1>4, NoIdFacts
  <2> QED
    BY <2>2, <2>3, BaseParts DEF GlobalType, NextVariable, metadata, workers, history, channel
<1>13. LateInv'
  BY DEF Base, LateInv, NextVariable, channel
<1> QED
  BY <1>11, <1>12, <1>13, BaseFrom

\* After the last variable the request ends or looks for its end points.
LEMMA VariablesDoneBase == ASSUME Base, NEW c \in Client, VariablesDone(c) PROVE Base'
<1>1. CASE reg[c].req.op # "AddEdge"
  BY <1>1, FinishStep, BaseParts, BaseFromLocal DEF VariablesDone, Reply
<1>2. CASE reg[c].req.op = "AddEdge"
  <2>1. Resting(c)
    BY AtRest, BaseParts DEF VariablesDone, Calls
  <2>2. /\ reg' = [reg EXCEPT ![c] = reg[c]] /\ reg[c] \in Registers
        /\ reply' \in [Client -> Reply]
    BY <1>2, BaseParts DEF VariablesDone
  <2>3. StartNodeScan(c, "lookA") /\ UNCHANGED sending
    BY <1>2 DEF VariablesDone
  <2>4. LocalInv(c)
    BY <2>1, <2>2, <2>3, NodeScanStep, BaseParts DEF NodeScans
  <2> QED
    BY <2>4, BaseFromLocal DEF VariablesDone
<1> QED
  BY <1>1, <1>2

\* ProcessAddVertex2PC addresses one worker, with the number the vertex
\* got.
LEMMA PlaceBase == ASSUME Base, NEW c \in Client, Place(c) PROVE Base'
<1>1. PICK p \in Candidates(Load) :
        /\ Send(c, {p}, [NoMsg EXCEPT !.kind = "AddVertex", !.id = reg[c].id], "addVertex")
        /\ reg' = [reg EXCEPT ![c].part = {p}]
  BY DEF Place
<1>2. p \in Part
  BY DEF Candidates, LeastLoaded, Load
<1> DEFINE r == [reg[c] EXCEPT !.part = {p}]
           m == [NoMsg EXCEPT !.kind = "AddVertex", !.id = reg[c].id]
<1>3. reg[c] \in Registers /\ reg[c].id \in AnyId /\ reg[c].id \in Id
  BY BaseParts, RegGet DEF Place, Scanned, LookInv
<1>4. r \in Registers
  BY <1>2, <1>3, RegPartSet
<1>5. r.part = {p} /\ r.id = reg[c].id
  BY <1>2, <1>3, RegPartSet
<1>6. m \in Message
  BY <1>3, MsgAddVertex
<1>7. m.kind = "AddVertex" /\ m.id = reg[c].id
  BY <1>3, MsgAddVertex
<1>8. /\ Send(c, {p}, m, "addVertex") /\ reg' = [reg EXCEPT ![c] = r]
      /\ UNCHANGED scan /\ reply' \in [Client -> Reply]
  BY <1>1, BaseParts DEF Place, history
<1> DEFINE P == {p}
<1>9. P \in SUBSET Part /\ Fits("addVertex", m, r, P)
  BY <1>2, <1>3, <1>5, <1>7 DEF Fits
<1>10. Send(c, P, m, "addVertex") /\ UNCHANGED scan /\ LocalType /\ "addVertex" \in Calls
  BY <1>8, BaseParts DEF Calls
<1> HIDE DEF r, m, P
<1>11. LocalInv(c)
  BY <1>4, <1>6, <1>8, <1>9, <1>10, SendStep
<1> QED
  BY <1>11, BaseFromLocal DEF Place, history

\* The answer to the message of a vertex, up to updateSummary's reading.
LEMMA VertexAddedBase == ASSUME Base, NEW c \in Client, VertexAdded(c) PROVE Base'
<1>1. /\ reg[c] \in Registers /\ reg[c].id \in Id /\ pc[c] = "addVertex"
      /\ numVertices \in Int /\ mVerts \in [Part -> SUBSET Id] /\ Resting(c)
      /\ UNCHANGED scan /\ UNCHANGED sending
  BY BaseParts, SettledRests DEF VertexAdded, Settled, LookInv, GlobalType
<1>2. PICK p \in Part : reg[c].part = {p}
  BY <1>1, BaseParts DEF CallInv
<1>3. reply' \in [Client -> Reply]
  BY BaseParts DEF VertexAdded
<1>4. LocalInv(c)
  <2>1. CASE Agreed(c)
    <3>a. PICK L \in SUBSET Id, n \in Int : L = mVerts[p] /\ n = numVertices
      BY <1>1
    <3> DEFINE r == WithList(reg[c], L, n)
    <3>1. reg' = [reg EXCEPT ![c] = r]
      BY <2>1, <1>2, <3>a DEF VertexAdded, WithList
    <3>2. r \in Registers /\ r.id = reg[c].id /\ r.part = reg[c].part
      BY <1>1, RegListSet
    <3>6. pc' = [pc EXCEPT ![c] = "summary"]
      BY <2>1 DEF VertexAdded
    <3> HIDE DEF r
    <3>7. r.id \in Id /\ \E q \in Part : r.part = {q}
      BY <1>1, <1>2, <3>2
    <3> QED
      BY <1>1, <1>3, <3>1, <3>2, <3>6, <3>7, PcStep, BaseParts
  <2>2. CASE ~Agreed(c)
    <3>1. reg' = [reg EXCEPT ![c] = reg[c]] /\ pc' = [pc EXCEPT ![c] = "next"]
      BY <2>2, BaseParts DEF VertexAdded
    <3> QED
      BY <1>1, <1>3, <3>1, PcStep, BaseParts
  <2> QED
    BY <2>1, <2>2
<1>5. acked' \subseteq Id
  BY <1>1, BaseParts DEF VertexAdded, GlobalType
<1>6. GlobalType'
  BY <1>5, BaseParts DEF GlobalType, VertexAdded, ids, metadata, workers, channel
<1>7. LateInv'
  BY DEF Base, LateInv, VertexAdded, channel
<1> QED
  BY <1>4, <1>6, <1>7, BaseFrom

\* updateSummary writes a list of vertices.
LEMMA UpdateSummaryBase == ASSUME Base, NEW c \in Client, UpdateSummary(c) PROVE Base'
<1>1. /\ reg[c] \in Registers /\ reg[c].id \in Id /\ reg[c].list \subseteq Id
      /\ reg[c].num \in Int /\ reg' = [reg EXCEPT ![c] = reg[c]]
      /\ reply' \in [Client -> Reply]
  BY BaseParts, RegGet DEF UpdateSummary, LookInv, local, history
<1>2. Resting(c)
  BY AtRest, BaseParts DEF UpdateSummary, Calls
<1>3. pc' = [pc EXCEPT ![c] = "next"] /\ UNCHANGED scan /\ UNCHANGED sending
  BY DEF UpdateSummary, local
<1>4. LocalInv(c)
  BY <1>1, <1>2, <1>3, PcStep, BaseParts
<1>5. PICK p \in reg[c].part :
        /\ mVerts' = [mVerts EXCEPT ![p] = reg[c].list \cup {reg[c].id}]
        /\ mInfo' = [mInfo EXCEPT ![p] = @ \cup {reg[c].id}]
  BY DEF UpdateSummary
<1>6. mVerts' \in [Part -> SUBSET Id] /\ mInfo' \in [Part -> SUBSET AnyId]
  BY <1>1, <1>5, BaseParts, NoIdFacts DEF GlobalType
<1>7. numVertices' \in Int
  BY <1>1, BaseParts DEF UpdateSummary, GlobalType
<1>8. GlobalType'
  BY <1>6, <1>7, BaseParts DEF GlobalType, UpdateSummary, ids, workers, history, channel
<1>9. LateInv'
  BY DEF Base, LateInv, UpdateSummary, channel
<1> QED
  BY <1>4, <1>8, <1>9, BaseFrom

\* Numbers the master counts edges by.
LEMMA CountType ==
  /\ \A E \in SUBSET (AnyId \X AnyId) : IsFiniteSet(E) /\ Cardinality(E) \in Nat
  /\ \A P \in SUBSET Part : IsFiniteSet(P) /\ Cardinality(P) \in Nat
<1>1. IsFiniteSet(AnyId)
  <2>1. IsFiniteSet(Id)
    BY NoIdFacts, FS_Interval DEF Id
  <2> QED
    BY <2>1, FS_AddElement DEF AnyId
<1>2. IsFiniteSet(AnyId \X AnyId)
  BY <1>1, FS_Product
<1> QED
  BY <1>2, PartAssumption, FS_Subset, FS_CardinalityType

\* ProcessAddEdge2PC: an edge that crosses has one partition.
LEMMA PlanBase == ASSUME Base, NEW c \in Client, Plan(c) PROVE Base'
<1>1. CASE Finish(c, "error")
  BY <1>1, FinishStep, BaseParts, BaseFromLocal DEF Plan, Reply
<1>2. CASE ~Finish(c, "error")
  <2>1. PICK p1 \in Part, p2 \in Part :
          /\ reg' = [reg EXCEPT
               ![c].part = {IF p1 # p2 /\ reg[c].v1 \in mGhosts[p1] THEN p2 ELSE p1},
               ![c].ghost = IF reg[c].v1 \in mGhosts[p1] THEN reg[c].v1 ELSE reg[c].v2]
          /\ pc' = [pc EXCEPT ![c] = IF p1 = p2 THEN "edge" ELSE "cross"]
          /\ UNCHANGED <<scan, sending, reply>>
    BY <1>2 DEF Plan, Home
  <2>2. reg[c] \in Registers /\ reg[c].v1 \in AnyId /\ reg[c].v2 \in AnyId
    BY BaseParts, RegGet
  <2>3. PICK q \in Part, P \in SUBSET Part, g \in AnyId, w \in {"edge", "cross"} :
          /\ P = {q} /\ reg' = [reg EXCEPT ![c].part = P, ![c].ghost = g]
          /\ pc' = [pc EXCEPT ![c] = w]
    <3>0. PICK q \in Part :
            q = IF p1 # p2 /\ reg[c].v1 \in mGhosts[p1] THEN p2 ELSE p1
      OBVIOUS
    <3>1. PICK P \in SUBSET Part : P = {q}
      OBVIOUS
    <3>2. PICK g \in AnyId : g = IF reg[c].v1 \in mGhosts[p1] THEN reg[c].v1 ELSE reg[c].v2
      BY <2>2
    <3>3. PICK w \in {"edge", "cross"} : w = IF p1 = p2 THEN "edge" ELSE "cross"
      OBVIOUS
    <3> QED
      BY <2>1, <3>0, <3>1, <3>2, <3>3
  <2> DEFINE r == [reg[c] EXCEPT !.part = P, !.ghost = g]
  <2>4. r \in Registers
    BY <2>2, RegGhostSet
  <2>5. reg' = [reg EXCEPT ![c] = r]
    BY <2>3
  <2>p. r.part = P
    BY <2>2 DEF Registers
  <2>s. \E p \in Part : r.part = {p}
    BY <2>3, <2>p
  <2>6. Resting(c) /\ UNCHANGED scan /\ UNCHANGED sending /\ reply' \in [Client -> Reply]
    BY <2>1, AtRest, BaseParts DEF Plan, Scanned, Calls
  <2> HIDE DEF r
  <2>7. LocalInv(c)
    BY <2>3, <2>4, <2>5, <2>6, <2>s, PcStep, BaseParts
  <2> QED
    BY <2>1, <2>7, BaseFromLocal DEF Plan
<1> QED
  BY <1>1, <1>2

\* addGhostVertex and addGhostToWorker.
LEMMA AddGhostBase == ASSUME Base, NEW c \in Client, AddGhost(c) PROVE Base'
<1>1. /\ reg[c] \in Registers /\ reg[c].ghost \in AnyId /\ reg[c].part \in SUBSET Part
      /\ reg' = [reg EXCEPT ![c] = reg[c]] /\ reply' \in [Client -> Reply]
  BY BaseParts, RegGet DEF AddGhost, local, history
<1> DEFINE m == [NoMsg EXCEPT !.kind = "AddGhostVertex", !.id = reg[c].ghost]
<1>2. m \in Message
  BY <1>1, MsgAddGhost
<1>3. Fits("addGhost", m, reg[c], reg[c].part)
  BY <1>1, MsgAddGhost DEF Fits
<1>4. /\ Send(c, reg[c].part, m, "addGhost") /\ UNCHANGED scan
      /\ LocalType /\ "addGhost" \in Calls
  BY BaseParts DEF AddGhost, Calls, local
<1> HIDE DEF m
<1>5. LocalInv(c)
  BY <1>1, <1>2, <1>3, <1>4, SendStep
<1>6. mGhosts' \in [Part -> SUBSET AnyId]
  BY <1>1, BaseParts DEF AddGhost, GlobalType
<1>7. GlobalType'
  BY <1>6, BaseParts DEF GlobalType, AddGhost, ids, workers, history, channel
<1>8. LateInv'
  BY DEF Base, LateInv, AddGhost, channel
<1> QED
  BY <1>5, <1>7, <1>8, BaseFrom

\* The metadata of an edge, then its message.
LEMMA AddEdgeBase == ASSUME Base, NEW c \in Client, AddEdge(c) PROVE Base'
<1> DEFINE e == <<reg[c].v1, reg[c].v2>>
           m == [NoMsg EXCEPT !.kind = "AddEdge", !.edge = e, !.link = Link(c)]
<1>1. /\ reg[c] \in Registers /\ reg[c].v1 \in AnyId /\ reg[c].part \in SUBSET Part
      /\ reg' = [reg EXCEPT ![c] = reg[c]] /\ reply' \in [Client -> Reply]
  BY BaseParts, RegGet DEF AddEdge, local, history
<1>2. e \in AnyId \X AnyId /\ Link(c) \in AnyId \X AnyId
  BY BaseParts, RegGet DEF Link
<1>3. /\ Send(c, reg[c].part, m, "addEdge") /\ UNCHANGED scan
      /\ LocalType /\ "addEdge" \in Calls
  BY BaseParts DEF AddEdge, Calls, local
<1>4. PICK p \in reg[c].part :
        /\ mEdges' = [mEdges EXCEPT ![p] = @ \cup {e}]
        /\ mInfo' = [mInfo EXCEPT ![p] = @ \cup {reg[c].v1}]
  BY DEF AddEdge
<1>5. numEdges' = numEdges + 1
  BY DEF AddEdge
<1> HIDE DEF e
<1>6. m \in Message
  BY <1>2, MsgEdge
<1>7. m.kind = "AddEdge"
  BY <1>2, MsgEdge
<1> HIDE DEF m
<1>8. Fits("addEdge", m, reg[c], reg[c].part)
  BY <1>7 DEF Fits
<1>9. LocalInv(c)
  BY <1>1, <1>3, <1>6, <1>8, SendStep
<1>10. /\ mEdges' \in [Part -> SUBSET (AnyId \X AnyId)] /\ mInfo' \in [Part -> SUBSET AnyId]
       /\ numEdges' \in Int
  BY <1>1, <1>2, <1>4, <1>5, BaseParts DEF GlobalType
<1>11. GlobalType'
  BY <1>10, BaseParts DEF GlobalType, AddEdge, ids, workers, history, channel
<1>12. LateInv'
  BY DEF Base, LateInv, AddEdge, channel
<1> QED
  BY <1>9, <1>11, <1>12, BaseFrom

\* ProcessDeleteVertex2PCAll tells every worker.
LEMMA DeleteVertexBase == ASSUME Base, NEW c \in Client, DeleteVertex(c) PROVE Base'
<1>1. CASE Finish(c, "error") /\ UNCHANGED condemned
  BY <1>1, FinishStep, BaseParts, BaseFromLocal DEF DeleteVertex, Reply
<1>2. CASE ~(Finish(c, "error") /\ UNCHANGED condemned)
  <2>1. /\ Send(c, Part, [NoMsg EXCEPT !.kind = "DeleteVertex", !.id = reg[c].v1], "delVertex")
        /\ reg' = [reg EXCEPT ![c].part = Knowing(reg[c].v1)]
        /\ condemned' = condemned \cup {reg[c].v1}
        /\ UNCHANGED <<scan, reply>>
    BY <1>2 DEF DeleteVertex
  <2>2. /\ reg[c] \in Registers /\ reg[c].v1 \in AnyId /\ reg[c].v1 \in Id
        /\ reply' \in [Client -> Reply]
    BY <2>1, BaseParts, RegGet DEF DeleteVertex, Scanned, LookInv
  <2>3. PICK K \in SUBSET Part : K = Knowing(reg[c].v1)
    BY DEF Knowing
  <2> DEFINE r == [reg[c] EXCEPT !.part = K]
             m == [NoMsg EXCEPT !.kind = "DeleteVertex", !.id = reg[c].v1]
  <2>4. r \in Registers
    BY <2>2, RegPartSet
  <2>5. r.v1 = reg[c].v1
    BY <2>2, RegPartSet
  <2>6. m \in Message
    BY <2>2, MsgDeleteVertex
  <2>7. m.kind = "DeleteVertex" /\ m.id = reg[c].v1
    BY <2>2, MsgDeleteVertex
  <2>8. /\ reg' = [reg EXCEPT ![c] = r] /\ Send(c, Part, m, "delVertex") /\ UNCHANGED scan
        /\ LocalType /\ "delVertex" \in Calls /\ Part \in SUBSET Part
    BY <2>1, <2>3, BaseParts DEF Calls
  <2> HIDE DEF r, m
  <2>9. Fits("delVertex", m, r, Part)
    BY <2>2, <2>5, <2>7 DEF Fits
  <2>10. LocalInv(c)
    BY <2>2, <2>4, <2>6, <2>8, <2>9, SendStep
  <2>11. condemned' \subseteq Id
    BY <2>1, <2>2, BaseParts DEF GlobalType
  <2>12. GlobalType'
    BY <2>11, BaseParts DEF GlobalType, DeleteVertex, ids, metadata, workers, channel
  <2>13. LateInv'
    BY DEF Base, LateInv, DeleteVertex, channel
  <2> QED
    BY <2>10, <2>12, <2>13, BaseFrom
<1> QED
  BY <1>1, <1>2

\* The home of a deleted vertex is looked up, and its list, which has that
\* vertex, is read.
LEMMA VertexDeletedBase == ASSUME Base, NEW c \in Client, VertexDeleted(c) PROVE Base'
<1>1. CASE \E a \in Reply : Finish(c, a)
  BY <1>1, FinishStep, BaseFromLocal, BaseParts DEF VertexDeleted
<1>2. CASE ~\E a \in Reply : Finish(c, a)
  <2>1. PICK p \in Home(reg[c].v1) :
          /\ reg' = [reg EXCEPT ![c].home = {p}, ![c].list = mVerts[p], ![c].num = numVertices]
          /\ pc' = [pc EXCEPT ![c] = "forget"]
          /\ UNCHANGED <<scan, sending, reply>>
    BY <1>2 DEF VertexDeleted, Reply
  <2>2. /\ p \in Part /\ reg[c].v1 \in mVerts[p] /\ reg[c].v1 \in Id /\ reg[c] \in Registers
        /\ mVerts[p] \in SUBSET Id /\ numVertices \in Int
    BY <2>1, BaseParts DEF Home, VertexDeleted, Settled, LookInv, GlobalType
  <2>3. PICK L \in SUBSET Id, n \in Int, H \in SUBSET Part :
          L = mVerts[p] /\ n = numVertices /\ H = {p}
    BY <2>2
  <2> DEFINE r == WithHome(reg[c], H, L, n)
  <2>4. r \in Registers /\ r.home = H /\ r.list = L /\ r.v1 = reg[c].v1
    BY <2>2, RegHomeSet
  <2>8. reg' = [reg EXCEPT ![c] = r]
    BY <2>1, <2>3 DEF WithHome
  <2> HIDE DEF r
  <2>9. r.v1 \in Id /\ \E q \in Part : r.home = {q} /\ r.v1 \in r.list
    BY <2>2, <2>3, <2>4
  <2>10. Resting(c) /\ reply' \in [Client -> Reply] /\ UNCHANGED scan /\ UNCHANGED sending
    BY <2>1, SettledRests, BaseParts DEF VertexDeleted
  <2>11. LocalInv(c)
    BY <2>1, <2>4, <2>8, <2>9, <2>10, PcStep, BaseParts
  <2> QED
    BY <2>11, <2>1, BaseFromLocal DEF VertexDeleted
<1> QED
  BY <1>1, <1>2

\* deleteVertex writes the metadata of the home; the count of edges stays
\* an integer, as a partition has finitely many.
LEMMA ForgetBase == ASSUME Base, NEW c \in Client, Forget(c) PROVE Base'
<1>1. LocalInv(c)
  BY FinishStep, BaseParts DEF Forget, Reply
<1>2. PICK p \in reg[c].home :
       LET kept == Detached(mEdges[p], reg[c].v1) IN
       /\ mVerts' = [mVerts EXCEPT ![p] = reg[c].list \ {reg[c].v1}]
       /\ mEdges' = [mEdges EXCEPT ![p] = kept]
       /\ mInfo' = [mInfo EXCEPT ![p] = @ \ {reg[c].v1}]
       /\ numEdges' = numEdges - Cardinality(mEdges[p] \ kept)
       /\ mGhosts' = IF reg[c].v1 \notin mGhosts[p] THEN mGhosts
                     ELSE [q \in Part |-> mGhosts[q] \
                             IF q \in reg[c].part THEN {reg[c].v1} ELSE {}]
  BY DEF Forget
<1>3. p \in Part /\ reg[c].list \subseteq Id /\ reg[c].num \in Int
  BY BaseParts, RegGet
<1>4. mEdges[p] \in SUBSET (AnyId \X AnyId) /\ Detached(mEdges[p], reg[c].v1) \subseteq mEdges[p]
  BY <1>3, BaseParts DEF GlobalType, Detached
<1>5. numEdges' \in Int
  <2>1. mEdges[p] \ Detached(mEdges[p], reg[c].v1) \in SUBSET (AnyId \X AnyId)
    BY <1>4
  <2>2. Cardinality(mEdges[p] \ Detached(mEdges[p], reg[c].v1)) \in Nat
    BY <2>1, CountType
  <2> QED
    BY <1>2, <2>2, BaseParts DEF GlobalType
<1>6. /\ mVerts' \in [Part -> SUBSET Id] /\ mInfo' \in [Part -> SUBSET AnyId]
      /\ mEdges' \in [Part -> SUBSET (AnyId \X AnyId)]
  BY <1>2, <1>3, <1>4, BaseParts DEF GlobalType
<1>7. mGhosts' \in [Part -> SUBSET AnyId]
  BY <1>2, BaseParts DEF GlobalType
<1>8. numVertices' \in Int
  BY <1>3, BaseParts DEF GlobalType, Forget
<1>9. GlobalType'
  BY <1>5, <1>6, <1>7, <1>8, BaseParts DEF GlobalType, Forget, ids, workers, channel
<1>10. LateInv'
  BY DEF Base, LateInv, Forget, channel
<1> QED
  BY <1>1, <1>9, <1>10, BaseFrom

\* ProcessDeleteEdge2PC tells the partitions that are affected.
LEMMA DeleteEdgeBase == ASSUME Base, NEW c \in Client, DeleteEdge(c) PROVE Base'
<1>1. CASE Finish(c, "error")
  BY <1>1, FinishStep, BaseParts, BaseFromLocal DEF DeleteEdge, Reply
<1>2. CASE ~Finish(c, "error")
  <2>1. PICK P \in SUBSET Part : P = Affected(reg[c].a, reg[c].b)
    BY DEF Affected, Home, Knowing
  <2> DEFINE m == [NoMsg EXCEPT !.kind = "DeleteEdge", !.edge = Link(c), !.link = Link(c)]
             r == [reg[c] EXCEPT !.part = P]
  <2>2. /\ Send(c, P, m, "delEdge") /\ reg' = [reg EXCEPT ![c] = r]
        /\ UNCHANGED scan /\ UNCHANGED reply
    BY <1>2, <2>1 DEF DeleteEdge
  <2>3. Link(c) \in AnyId \X AnyId /\ reg[c] \in Registers
    BY BaseParts, RegGet DEF Link
  <2>4. m \in Message
    BY <2>3, MsgEdge
  <2>5. m.kind = "DeleteEdge"
    BY <2>3, MsgEdge
  <2>6. r \in Registers
    BY <2>3, RegPartSet
  <2> HIDE DEF m, r
  <2>7. Fits("delEdge", m, r, P)
    BY <2>5 DEF Fits
  <2>8. LocalType /\ "delEdge" \in Calls /\ reply' \in [Client -> Reply]
    BY <2>2, BaseParts DEF Calls
  <2>9. LocalInv(c)
    BY <2>2, <2>4, <2>6, <2>7, <2>8, SendStep
  <2> QED
    BY <2>9, BaseFromLocal DEF DeleteEdge
<1> QED
  BY <1>1, <1>2

\* The edge is taken off the metadata of those partitions, of which there
\* are finitely many.
LEMMA EdgeDeletedBase == ASSUME Base, NEW c \in Client, EdgeDeleted(c) PROVE Base'
<1>1. LocalInv(c)
  BY FinishStep, BaseParts DEF EdgeDeleted, Reply
<1>2. mEdges' \in [Part -> SUBSET (AnyId \X AnyId)]
  BY BaseParts DEF GlobalType, EdgeDeleted
<1>3. numEdges' \in Int
  <2>1. {p \in reg[c].part : Link(c) \in mEdges[p]} \in SUBSET Part
    BY BaseParts, RegGet
  <2>2. Cardinality({p \in reg[c].part : Link(c) \in mEdges[p]}) \in Nat
    BY <2>1, CountType
  <2> QED
    BY <2>2, BaseParts DEF GlobalType, EdgeDeleted
<1>4. GlobalType'
  BY <1>2, <1>3, BaseParts DEF GlobalType, EdgeDeleted, ids, workers, channel
<1>5. LateInv'
  BY DEF Base, LateInv, EdgeDeleted, channel
<1> QED
  BY <1>1, <1>4, <1>5, BaseFrom

----------------------------------------------------------------------------
(* Every step of the network and of the workers keeps Base.                *)

\* What a message under way is: that of the request's step.
LEMMA MsgOnWay ==
  ASSUME Base, NEW c \in Client, NEW p \in Part, leg[c][p] \in Underway
  PROVE  /\ pc[c] \in Calls /\ msg[c] \in Message /\ msg[c].kind # "none"
         /\ msg[c].kind = "AddVertex" =>
              /\ pc[c] = "addVertex" /\ msg[c].id = reg[c].id /\ msg[c].id \in Id
              /\ reg[c].part = {p}
         /\ msg[c].kind = "DeleteVertex" => pc[c] = "delVertex" /\ msg[c].id = reg[c].v1
         /\ msg[c].kind = "AddGhostVertex" => pc[c] = "addGhost"
<1>1. CallInv(c) /\ LookInv(c) /\ msg[c] \in Message
  BY BaseParts DEF LocalType
<1>2. pc[c] \in Calls
  BY <1>1 DEF CallInv
<1>3. leg[c][p] # "none"
  BY DEF Underway
<1> QED
  BY <1>1, <1>2, <1>3 DEF CallInv, LookInv, Calls

\* What a worker or a Neo4j holds.
LEMMA StoreGet ==
  ASSUME NEW s \in Store
  PROVE  s.verts \subseteq Id /\ s.ghosts \subseteq AnyId /\ s.edges \subseteq AnyId \X AnyId
  BY DEF Store

\* A store whose vertices change.
LEMMA StoreVerts ==
  ASSUME NEW s \in Store, NEW V \in SUBSET Id
  PROVE  /\ [s EXCEPT !.verts = V] \in Store
         /\ [s EXCEPT !.verts = V].verts = V /\ [s EXCEPT !.verts = V].ghosts = s.ghosts
  BY DEF Store

\* A store whose ghosts change.
LEMMA StoreGhosts ==
  ASSUME NEW s \in Store, NEW G \in SUBSET AnyId
  PROVE  /\ [s EXCEPT !.ghosts = G] \in Store
         /\ [s EXCEPT !.ghosts = G].verts = s.verts /\ [s EXCEPT !.ghosts = G].ghosts = G
  BY DEF Store

\* A store whose edges change.
LEMMA StoreEdges ==
  ASSUME NEW s \in Store, NEW E \in SUBSET (AnyId \X AnyId)
  PROVE  /\ [s EXCEPT !.edges = E] \in Store
         /\ [s EXCEPT !.edges = E].verts = s.verts /\ [s EXCEPT !.edges = E].ghosts = s.ghosts
  BY DEF Store

\* What a message does to the memory of a worker and to its Neo4j.
LEMMA Effect ==
  ASSUME NEW s \in Store, NEW m \in Message, m.kind # "none",
         m.kind = "AddVertex" => m.id \in Id,
         NEW t, t = Stored(s, m) \/ t = Executed(s, m)
  PROVE  /\ t \in Store
         /\ \A i \in t.verts : i \in s.verts \/ (m.kind = "AddVertex" /\ i = m.id)
         /\ \A i \in t.ghosts : i \in s.ghosts \/ (m.kind = "AddGhostVertex" /\ i = m.id)
         /\ m.kind = "AddVertex" => m.id \in t.verts
         /\ \A i \in s.verts : i \in t.verts \/ (m.kind = "DeleteVertex" /\ i = m.id)
<1>1. /\ m.kind \in {"AddVertex", "AddGhostVertex", "AddEdge", "DeleteVertex", "DeleteEdge"}
      /\ m.id \in AnyId /\ m.edge \in AnyId \X AnyId /\ m.link \in AnyId \X AnyId
  BY DEF Message
<1>2. s.verts \subseteq Id /\ s.ghosts \subseteq AnyId /\ s.edges \subseteq AnyId \X AnyId
  BY StoreGet
<1>3. CASE m.kind = "AddVertex"
  <2>1. PICK V \in SUBSET Id : V = s.verts \cup {m.id}
    BY <1>2, <1>3
  <2>2. t = [s EXCEPT !.verts = V]
    BY <1>3, <2>1 DEF Stored, Executed
  <2>3. t \in Store /\ t.verts = V /\ t.ghosts = s.ghosts
    BY <2>2, StoreVerts
  <2> QED
    BY <1>3, <2>1, <2>3
<1>4. CASE m.kind = "AddGhostVertex"
  <2>1. PICK G \in SUBSET AnyId : G = s.ghosts \cup {m.id}
    BY <1>1, <1>2
  <2>2. t = [s EXCEPT !.ghosts = G]
    BY <1>4, <2>1 DEF Stored, Executed
  <2>3. t \in Store /\ t.verts = s.verts /\ t.ghosts = G
    BY <2>2, StoreGhosts
  <2> QED
    BY <1>4, <2>1, <2>3
<1>5. CASE m.kind \in {"AddEdge", "DeleteEdge"}
  <2>1. t = s \/ \E E \in SUBSET (AnyId \X AnyId) : t = [s EXCEPT !.edges = E]
    <3>1. /\ s.edges \cup {m.edge} \in SUBSET (AnyId \X AnyId)
          /\ s.edges \cup {m.link} \in SUBSET (AnyId \X AnyId)
          /\ s.edges \ {m.edge} \in SUBSET (AnyId \X AnyId)
          /\ s.edges \ {m.link} \in SUBSET (AnyId \X AnyId)
      BY <1>1, <1>2
    <3>2. t = s \/ t = [s EXCEPT !.edges = @ \cup {m.edge}] \/ t = [s EXCEPT !.edges = @ \ {m.edge}]
          \/ t = [s EXCEPT !.edges = @ \cup {m.link}] \/ t = [s EXCEPT !.edges = @ \ {m.link}]
      BY <1>5 DEF Stored, Executed
    <3> QED
      BY <3>1, <3>2
  <2>2. CASE t = s
    BY <1>5, <2>2
  <2>3. ASSUME NEW E \in SUBSET (AnyId \X AnyId), t = [s EXCEPT !.edges = E]
        PROVE  t \in Store /\ t.verts = s.verts /\ t.ghosts = s.ghosts
    BY <2>3, StoreEdges
  <2> QED
    BY <1>5, <2>1, <2>2, <2>3
<1>6. CASE m.kind = "DeleteVertex"
  <2>1. t = [verts |-> s.verts \ {m.id}, ghosts |-> s.ghosts \ {m.id},
             edges |-> Detached(s.edges, m.id)]
    BY <1>6 DEF Stored, Executed
  <2>2. Detached(s.edges, m.id) \subseteq AnyId \X AnyId
    BY <1>2 DEF Detached
  <2>3. t \in Store
    BY <1>2, <2>1, <2>2 DEF Store
  <2>4. t.verts = s.verts \ {m.id} /\ t.ghosts = s.ghosts \ {m.id}
    BY <2>1
  <2> QED
    BY <1>6, <2>3, <2>4
<1> QED
  BY <1>1, <1>3, <1>4, <1>5, <1>6

\* Steps of the network and of the workers.
LEMMA LegStep ==
  ASSUME Base, UNCHANGED <<pc, reg, msg, reply>>,
         leg' \in [Client -> [Part -> Leg]], scan' \in [Client -> ScanState],
         \A d \in Client : scan'[d].found = scan[d].found,
         \A d \in Client, q \in Part :
           /\ leg'[d][q] \in Underway => leg[d][q] \in Underway
           /\ leg'[d][q] = "none" <=> leg[d][q] = "none",
         GlobalType', LateInv'
  PROVE  Base'
<1>1. LocalType'
  BY TypeParts DEF Base, LocalType
<1>2. ASSUME NEW d \in Client PROVE CallInv(d)' /\ LookInv(d)'
  <2>1. CallInv(d) /\ LookInv(d)
    BY DEF Base
  <2>2. /\ pc'[d] = pc[d] /\ reg'[d] = reg[d] /\ msg'[d] = msg[d]
        /\ scan'[d].found = scan[d].found
    OBVIOUS
  <2>3. LookInv(d)'
    BY <2>1, <2>2 DEF LookInv
  <2>4. ASSUME pc[d] = "addVertex"
        PROVE  /\ msg[d].kind = "AddVertex" /\ msg[d].id = reg[d].id
               /\ \E p \in Part :
                    /\ reg[d].part = {p} /\ leg'[d][p] # "none"
                    /\ \A q \in Part : leg'[d][q] # "none" => q = p
    BY <2>1, <2>4 DEF CallInv
  <2>5. \A p \in Part : leg'[d][p] \in Underway => pc[d] \in Calls
    BY <2>1 DEF CallInv
  <2>6. CallInv(d)'
    BY <2>1, <2>2, <2>4, <2>5 DEF CallInv, Underway
  <2> QED
    BY <2>3, <2>6
<1> QED
  BY <1>1, <1>2, TypeParts DEF Base, TypeOK, LocalType, GlobalType, Position, Leg, Reply

\* A worker was asked: an answer to checkVertexExistence has only what was
\* asked for.
LEMMA ScanStep ==
  ASSUME Base, NEW c \in Client, NEW s \in ScanState, scan' = [scan EXCEPT ![c] = s],
         pc[c] \in {"checkA", "checkB"} => s.found \subseteq scan[c].found \cup Wanted(c),
         UNCHANGED <<pc, reg, sending, reply>>
  PROVE  LocalInv(c)
<1>1. LocalType' /\ StepOf(c)
  BY BaseParts DEF LocalType, StepOf, Same, sending
<1>2. scan'[c] = s /\ pc'[c] = pc[c] /\ reg'[c] = reg[c] /\ leg'[c] = leg[c] /\ msg'[c] = msg[c]
  BY BaseParts DEF LocalType, sending
<1>3. pc[c] = "checkA" => s.found \subseteq ById(reg[c].v1)
  BY BaseParts DEF LookInv, Wanted
<1>4. pc[c] = "checkB" => s.found \subseteq ById(reg[c].v2)
  BY BaseParts DEF LookInv, Wanted
<1>5. CallInv(c) /\ LookInv(c)
  BY BaseParts
<1>6. CallInv(c)'
  BY <1>2, <1>5 DEF CallInv
<1>7. LookInv(c)'
  BY <1>2, <1>3, <1>4, <1>5 DEF LookInv
<1> QED
  BY <1>1, <1>6, <1>7 DEF LocalInv

\* A search finds what the Neo4j holds and the query wants; a search for a
\* relationship finds its source.
LEMMA FoundFacts ==
  ASSUME Base, NEW c \in Client, NEW p \in Part
  PROVE  /\ pc[c] # "find" => Found(c, p) \subseteq db[p].verts \cap Wanted(c)
         /\ pc[c] = "find" => Found(c, p) \subseteq {reg[c].a} /\ reg[c].a \in Id
         /\ Found(c, p) \subseteq Id
<1>1. db[p].verts \subseteq Id
  BY BaseParts DEF GlobalType, Store
<1>2. pc[c] = "find" => reg[c].a \in Id
  <2>1. reg[c].a \in AnyId /\ reg[c].v1 \in AnyId
    BY BaseParts, RegGet
  <2> QED
    BY <2>1, BaseParts, NoIdFacts DEF LookInv, ById, AnyId
<1> QED
  BY <1>1, <1>2 DEF Found

\* sendPartialMatchRequest.
LEMMA AskBase == ASSUME Base, NEW c \in Client, NEW p \in Part, Ask(c, p) PROVE Base'
<1>1. scan[c] \in ScanState
  BY BaseParts DEF LocalType
<1>2. PICK F \in SUBSET Id :
        /\ F = IF up[p] /\ pc[c] # "duplicate" THEN Found(c, p) ELSE {}
        /\ scan' = [scan EXCEPT ![c].todo = @ \ {p}, ![c].found = @ \cup F]
  <2>1. (IF up[p] /\ pc[c] # "duplicate" THEN Found(c, p) ELSE {}) \in SUBSET Id
    BY FoundFacts
  <2> QED
    BY <2>1 DEF Ask
<1> DEFINE s == [scan[c] EXCEPT !.todo = @ \ {p}, !.found = @ \cup F]
<1>3. s \in ScanState
  BY <1>1 DEF ScanState
<1>4. s.found = scan[c].found \cup F
  BY <1>1 DEF ScanState
<1>5. scan' = [scan EXCEPT ![c] = s]
  BY <1>2
<1> HIDE DEF s
<1>6. pc[c] \in {"checkA", "checkB"} => s.found \subseteq scan[c].found \cup Wanted(c)
  BY <1>2, <1>4, FoundFacts
<1>7. UNCHANGED <<pc, reg, sending, reply>>
  BY DEF Ask, history
<1>8. LocalInv(c)
  BY <1>3, <1>5, <1>6, <1>7, ScanStep
<1> QED
  BY <1>8, BaseFromLocal DEF Ask, history

\* A worker that cannot be asked counts as one that found nothing.
LEMMA AskFailsBase == ASSUME Base, NEW c \in Client, NEW p \in Part, AskFails(c, p) PROVE Base'
<1>1. scan[c] \in ScanState
  BY BaseParts DEF LocalType
<1> DEFINE s == [scan[c] EXCEPT !.todo = @ \ {p}]
<1>2. s \in ScanState
  BY <1>1 DEF ScanState
<1>3. s.found = scan[c].found
  BY <1>1 DEF ScanState
<1>4. scan' = [scan EXCEPT ![c] = s]
  BY DEF AskFails
<1> HIDE DEF s
<1>5. UNCHANGED <<pc, reg, sending, reply>>
  BY DEF AskFails, history
<1>6. LocalInv(c)
  BY <1>2, <1>3, <1>4, <1>5, ScanStep
<1>7. GlobalType'
  BY BaseParts, BoundAssumption DEF GlobalType, AskFails, ids, metadata, workers, history
<1>8. LateInv'
  BY DEF Base, LateInv, AskFails
<1> QED
  BY <1>6, <1>7, <1>8, BaseFrom

\* A worker that is left with nothing.
LEMMA EmptyIsStore == EmptyStore \in Store /\ EmptyStore.verts = {} /\ EmptyStore.ghosts = {}
  BY DEF EmptyStore, Store

\* A message that its call has given up on.
LEMMA Abandoned ==
  ASSUME Base, NEW c \in Client, NEW p \in Part, leg[c][p] \in Underway,
         NEW g \in Underway
  PROVE  [part |-> p, msg |-> msg[c], stage |-> g]
           \in [part : Part, msg : Message, stage : {"sent", "stored"}]
  BY MsgOnWay DEF Underway

\* A worker whose process panics: its legs fail, and what its Neo4j already
\* runs goes on by itself.
LEMMA AskPanicsBase == ASSUME Base, NEW c \in Client, NEW p \in Part, AskPanics(c, p) PROVE Base'
<1>1. PICK kept \in SUBSET {d \in Client : leg[d][p] = "sent"} :
         leg' = [d \in Client |->
                   [leg[d] EXCEPT ![p] =
                      IF @ \in {"sent", "stored"} /\ d \notin kept THEN "no" ELSE @]]
  BY DEF AskPanics
<1>2. leg \in [Client -> [Part -> Leg]] /\ scan \in [Client -> ScanState]
  BY BaseParts DEF LocalType
<1>3. leg' \in [Client -> [Part -> Leg]]
  BY <1>1, <1>2 DEF Leg
<1>4. \A d \in Client, q \in Part :
         /\ leg'[d][q] \in Underway => leg[d][q] \in Underway
         /\ leg'[d][q] = "none" <=> leg[d][q] = "none"
  BY <1>1, <1>2 DEF Underway
<1>5. scan' \in [Client -> ScanState] /\ \A d \in Client : scan'[d].found = scan[d].found
  <2>1. scan' = [scan EXCEPT ![c].todo = @ \ {p}]
    BY DEF AskPanics
  <2> QED
    BY <1>2, <2>1 DEF ScanState
<1>6. \A x \in late' : x \in late \/ \E d \in Client :
         leg[d][p] \in Underway /\ x = [part |-> p, msg |-> msg[d], stage |-> "stored"]
  BY DEF AskPanics, Underway
<1>7. late' \subseteq [part : Part, msg : Message, stage : {"sent", "stored"}]
  BY <1>6, Abandoned, BaseParts DEF GlobalType, Underway
<1>8. LateInv'
  BY <1>6, MsgOnWay DEF Base, LateInv
<1>9. GlobalType'
  BY <1>7, EmptyIsStore, BaseParts DEF GlobalType, AskPanics, ids, metadata, history
<1> QED
  BY <1>3, <1>4, <1>5, <1>8, <1>9, LegStep DEF AskPanics, history

\* One leg of a call moves on.
LEMMA OneLeg ==
  ASSUME Base, NEW c \in Client, NEW p \in Part, leg[c][p] \in Underway,
         NEW g \in {"stored", "ack", "no"}, leg' = [leg EXCEPT ![c][p] = g],
         UNCHANGED <<pc, reg, msg, scan, reply>>, GlobalType', LateInv'
  PROVE  Base'
<1>1. leg \in [Client -> [Part -> Leg]] /\ scan \in [Client -> ScanState]
  BY BaseParts DEF LocalType
<1>2. leg' \in [Client -> [Part -> Leg]]
  BY <1>1 DEF Leg
<1>3. \A d \in Client, q \in Part :
         /\ leg'[d][q] \in Underway => leg[d][q] \in Underway
         /\ leg'[d][q] = "none" <=> leg[d][q] = "none"
  BY <1>1 DEF Underway
<1> QED
  BY <1>1, <1>2, <1>3, LegStep

\* The steps of one leg: stored, refused, run or lost.
LEMMA MessageBase ==
  ASSUME Base, NEW c \in Client, NEW p \in Part,
         Deliver(c, p) \/ Unreachable(c, p) \/ RunQuery(c, p) \/ Lose(c, p)
  PROVE  Base'
<1>1. leg[c][p] \in Underway
  BY DEF Deliver, Unreachable, RunQuery, Lose, Underway
<1>2. /\ msg[c] \in Message /\ msg[c].kind # "none"
      /\ msg[c].kind = "AddVertex" => msg[c].id \in Id
      /\ mem[p] \in Store /\ db[p] \in Store
  BY <1>1, MsgOnWay, BaseParts DEF GlobalType
<1>3. CASE Deliver(c, p)
  <2>1. mem' \in [Part -> Store]
    BY <1>2, <1>3, Effect, BaseParts DEF Deliver, GlobalType
  <2>2. GlobalType' /\ LateInv'
    BY <1>3, <2>1, BaseParts
    DEF Base, LateInv, GlobalType, Deliver, ids, metadata, history, channel
  <2> QED
    BY <1>1, <1>3, <2>2, OneLeg DEF Deliver, local, history
<1>4. CASE Unreachable(c, p)
  <2>1. GlobalType' /\ LateInv'
    BY <1>4, BaseParts
    DEF Base, LateInv, GlobalType, Unreachable, ids, metadata, workers, history, channel
  <2> QED
    BY <1>1, <1>4, <2>1, OneLeg DEF Unreachable, local, history
<1>5. CASE RunQuery(c, p)
  <2>1. db' \in [Part -> Store]
    BY <1>2, <1>5, Effect, BaseParts DEF RunQuery, GlobalType
  <2>2. GlobalType' /\ LateInv'
    BY <1>5, <2>1, BaseParts
    DEF Base, LateInv, GlobalType, RunQuery, ids, metadata, workers, history, channel
  <2> QED
    BY <1>1, <1>5, <2>2, OneLeg DEF RunQuery, local, history
<1>6. CASE Lose(c, p)
  <2>1. late' = late \cup {[part |-> p, msg |-> msg[c], stage |-> leg[c][p]]}
    BY <1>6 DEF Lose
  <2>2. late' \subseteq [part : Part, msg : Message, stage : {"sent", "stored"}]
    BY <1>1, <2>1, Abandoned, BaseParts DEF GlobalType
  <2>3. LateInv'
    BY <1>2, <2>1 DEF Base, LateInv
  <2>4. GlobalType'
    BY <1>6, <2>2, BaseParts, BoundAssumption
    DEF GlobalType, Lose, ids, metadata, workers, history
  <2> QED
    BY <1>1, <1>6, <2>3, <2>4, OneLeg DEF Lose, local, history
<1> QED
  BY <1>3, <1>4, <1>5, <1>6

\* Steps that no request takes part in.
LEMMA OtherStep ==
  ASSUME Base, UNCHANGED <<pc, local, sending, reply>>, GlobalType', LateInv'
  PROVE  Base'
<1>1. leg \in [Client -> [Part -> Leg]] /\ scan \in [Client -> ScanState]
  BY TypeParts DEF Base, LocalType
<1> QED
  BY <1>1, LegStep DEF local, sending

\* A message that its call has given up on is stored, run or dropped.
LEMMA LateBase ==
  ASSUME Base, NEW x \in late, LateDeliver(x) \/ LateRun(x) \/ LateDrop(x)
  PROVE  Base'
<1>0. GlobalType
  BY TypeParts DEF Base
<1>1. /\ x \in [part : Part, msg : Message, stage : {"sent", "stored"}]
      /\ x.msg.kind # "none" /\ (x.msg.kind = "AddVertex" => x.msg.id \in Id)
  BY <1>0 DEF Base, LateInv, GlobalType
<1>2. x.part \in Part /\ x.msg \in Message /\ mem[x.part] \in Store /\ db[x.part] \in Store
  BY <1>0, <1>1 DEF GlobalType
<1>3. CASE LateDeliver(x)
  <2> DEFINE z == [x EXCEPT !.stage = "stored"]
  <2>a. z \in [part : Part, msg : Message, stage : {"sent", "stored"}]
    BY <1>1
  <2>b. z.msg = x.msg
    BY <1>1
  <2>1. PICK y \in [part : Part, msg : Message, stage : {"sent", "stored"}] :
          y = z /\ y.msg = x.msg
    BY <2>a, <2>b
  <2>2. mem' \in [Part -> Store]
    BY <1>0, <1>1, <1>2, <1>3, Effect DEF LateDeliver, GlobalType
  <2>3. late' = (late \ {x}) \cup {y}
    BY <1>3, <2>1 DEF LateDeliver
  <2>4. LateInv'
    BY <1>1, <2>1, <2>3 DEF Base, LateInv
  <2>5. late' \subseteq [part : Part, msg : Message, stage : {"sent", "stored"}]
    BY <1>0, <2>1, <2>3 DEF GlobalType
  <2>6. GlobalType'
    BY <1>0, <1>3, <2>2, <2>5 DEF GlobalType, LateDeliver, ids, metadata, history
  <2> QED
    BY <1>3, <2>4, <2>6, OtherStep DEF LateDeliver, history
<1>4. CASE LateRun(x)
  <2>1. db' \in [Part -> Store]
    BY <1>0, <1>1, <1>2, <1>4, Effect DEF LateRun, GlobalType
  <2>2. GlobalType'
    BY <1>0, <1>4, <2>1 DEF GlobalType, LateRun, ids, metadata, workers, history
  <2>3. LateInv'
    BY <1>4 DEF Base, LateInv, LateRun
  <2> QED
    BY <1>4, <2>2, <2>3, OtherStep DEF LateRun, history
<1>5. CASE LateDrop(x)
  <2>1. GlobalType'
    BY <1>0, <1>5 DEF GlobalType, LateDrop, ids, metadata, workers, history
  <2>2. LateInv'
    BY <1>5 DEF Base, LateInv, LateDrop
  <2> QED
    BY <1>5, <2>1, <2>2, OtherStep DEF LateDrop, history
<1> QED
  BY <1>3, <1>4, <1>5

\* A worker is started again.
LEMMA RestartBase == ASSUME Base, NEW p \in Part, Restart(p) PROVE Base'
<1>1. GlobalType'
  BY TypeParts DEF Base, GlobalType, Restart, ids, metadata, history, channel
<1>2. LateInv'
  BY DEF Base, LateInv, Restart, channel
<1> QED
  BY <1>1, <1>2, OtherStep DEF Restart, history

----------------------------------------------------------------------------
(* Base is inductive.                                                      *)

\* Nothing has been asked, sent or found at first.
LEMMA BaseInit == Init => Base
<1> SUFFICES ASSUME Init PROVE Base
  OBVIOUS
<1>1. LocalType
  BY NoTypes DEF Init, LocalType, Position, Steps, Reply
<1>2. GlobalType
  BY NoIdFacts, EmptyIsStore, BoundAssumption DEF Init, GlobalType
<1>3. ASSUME NEW c \in Client PROVE CallInv(c) /\ LookInv(c)
  BY <1>3 DEF Init, CallInv, LookInv, NoLegs, Underway
<1>4. LateInv
  BY DEF Init, LateInv
<1> QED
  BY <1>1, <1>2, <1>3, <1>4, TypeParts DEF Base

\* Every step keeps the types and what requests know.
LEMMA BaseStep == Base /\ [Next]_vars => Base'
<1> SUFFICES ASSUME Base, [Next]_vars PROVE Base'
  OBVIOUS
<1>1. ASSUME NEW c \in Client, NEW r \in Request, Begin(c, r) PROVE Base'
  BY <1>1, BeginBase
<1>2. ASSUME NEW c \in Client, AddVertexStep(c) PROVE Base'
  BY <1>2, NextVariableBase, VariablesDoneBase, ExistsBase, PlaceBase, VertexAddedBase,
     UpdateSummaryBase DEF AddVertexStep
<1>3. ASSUME NEW c \in Client, LookStep(c) PROVE Base'
  BY <1>3, LookedABase, LookedBBase, CheckedABase, CheckedBBase DEF LookStep
<1>4. ASSUME NEW c \in Client, AddEdgeStep(c) PROVE Base'
  BY <1>4, PlanBase, NeedGhostBase, AddGhostBase, GhostAddedBase, AddEdgeBase, EdgeAddedBase
  DEF AddEdgeStep
<1>5. ASSUME NEW c \in Client, DeleteStep(c) PROVE Base'
  BY <1>5, DeleteVertexBase, VertexDeletedBase, ForgetBase, DeleteEdgeBase, EdgeDeletedBase
  DEF DeleteStep
<1>6. ASSUME NEW c \in Client, NEW p \in Part,
             Ask(c, p) \/ AskPanics(c, p) \/ AskFails(c, p)
      PROVE  Base'
  BY <1>6, AskBase, AskPanicsBase, AskFailsBase
<1>7. ASSUME NEW x \in late, LateDeliver(x) \/ LateRun(x) \/ LateDrop(x) PROVE Base'
  BY <1>7, LateBase
<1>8. ASSUME NEW p \in Part, Restart(p) PROVE Base'
  BY <1>8, RestartBase
<1>9. CASE UNCHANGED vars
  <2>1. GlobalType'
    BY <1>9, TypeParts DEF Base, GlobalType, vars, ids, metadata, workers, history, channel
  <2>2. LateInv'
    BY <1>9 DEF Base, LateInv, vars, channel
  <2> QED
    BY <1>9, <2>1, <2>2, OtherStep DEF vars, history
<1> QED
  BY <1>1, <1>2, <1>3, <1>4, <1>5, <1>6, <1>7, <1>8, <1>9, MessageBase DEF Next, Progress

\* Every variable keeps its type, in every behaviour: in particular no list,
\* memory or Neo4j ever has a vertex under the -1 of a failed lookup, although
\* ghosts and edges may (ProcessAddEdge2PC, which a CREATE calls with what
\* it did not find).
THEOREM TypeCorrect == Spec => []TypeOK
<1>1. Base => TypeOK
  BY DEF Base
<1> QED
  BY <1>1, BaseInit, BaseStep, PTL DEF Spec
=============================================================================
