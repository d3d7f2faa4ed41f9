----------------------------- MODULE GraphStore -----------------------------
(***************************************************************************)
(* The distributed graph: the requests of the web interface that change    *)
(* it (internal/master/cypher_handler.go), carried out on the master's     *)
(* metadata (sdp.go, utils.go), the memory of the workers (worker.go) and  *)
(* the Neo4j behind each worker.                                           *)
(*                                                                         *)
(* A vertex lives in one partition, its home.  An edge is stored with its  *)
(* source; when the target lives elsewhere a ghost of it is put next to    *)
(* the source.  Nothing ties the three copies together but the order in    *)
(* which a request changes them, and every HTTP request runs in a          *)
(* goroutine of its own: the requests of different clients interleave at   *)
(* every message and at every lock.                                        *)
(*                                                                         *)
(* Coordinator.Run2PC is taken as module Broadcast describes it; TwoPhase  *)
(* shows that it is one.  What identifies a vertex to the user, its type   *)
(* and properties, is one value, its key.  Multiplicity is abstracted: the *)
(* nodes and relationships of a Neo4j are sets.                            *)
(***************************************************************************)
EXTENDS Balance, Sequences

CONSTANTS
  Client,      \* the HTTP requests that may be in progress at a time
  Part,        \* the partitions, one per worker address
  Key,         \* what vertices can be called
  NoKey,       \* what a vertex is called that has not been numbered yet
  Describes,   \* Describes[k]: the keys of the vertices that answer to k
  IdProperty,  \* the value of the property "id" of the keys that have one
  Request,     \* the requests that may be made
  MaxRequests, \* bound: requests in a behaviour
  MaxFaults    \* bound: messages lost or queries refused in a behaviour

RequestKind == {"AddVertex", "AddEdge", "DeleteVertex", "DeleteEdge"}

ASSUME RequestAssumption ==
  Request \subseteq [op : RequestKind, a : Key, b : Key]
ASSUME KeyAssumption == NoKey \notin Key
ASSUME DescribesAssumption == Describes \in [Key -> SUBSET Key]
ASSUME IdPropertyAssumption ==
  DOMAIN IdProperty \subseteq Key /\ \A k \in DOMAIN IdProperty : IdProperty[k] \in Nat
ASSUME BoundAssumption == MaxRequests \in Nat /\ MaxFaults \in Nat
ASSUME PartAssumption == IsFiniteSet(Part)

\* The bound on identifiers that the bound on requests implies.
MaxId == 2 * MaxRequests
NoId == 0      \* the -1 of extractVertexIDFromResults; identifiers start at 1
Id == 1 .. MaxId
AnyId == Id \cup {NoId}

VARIABLES
  counter,  \* vertexIDCounter
  keyOf,    \* keyOf[i]: the type and properties given to vertex i
  \* MasterMetaData
  mVerts,   \* PartitionInfoMap[p].Vertices
  mGhosts,  \* PartitionInfoMap[p].Ghosts
  mEdges,   \* PartitionInfoMap[p].Edges, as pairs
  mInfo,    \* the keys of EdgeInfoMap[p]
  numVertices, numEdges,
  \* workers
  mem,      \* mem[p]: partition.Info of the worker of p
  up,       \* up[p]: whether that worker runs
  db,       \* db[p]: its Neo4j
  \* requests
  pc,       \* pc[c]: where the goroutine of c stands
  reg,      \* reg[c]: its local variables
  scan,     \* scan[c]: the partial evaluation in progress
  msg,      \* msg[c]: the message of its Run2PC
  leg,      \* leg[c][p]: that message on its way to p
  late,     \* messages whose call has given up on them
  \* the behaviour so far
  issued, faults, crashed, acked, condemned, reply

ids == <<counter, keyOf>>
metadata == <<mVerts, mGhosts, mEdges, mInfo, numVertices, numEdges>>
workers == <<mem, up, crashed>>
local == <<reg, scan>>
sending == <<msg, leg>>
history == <<issued, acked, condemned, reply>>
channel == <<late, faults>>
vars == <<ids, metadata, workers, db, pc, local, sending, history, channel>>

Scans == {"exists", "lookA", "lookB", "checkA", "checkB", "confirm",
          "duplicate", "find"}
Calls == {"addVertex", "addGhost", "addEdge", "delVertex", "delEdge"}
Steps == {"idle", "next", "summary", "cross", "ghost", "edge", "forget"}

Store == [verts : SUBSET Id, ghosts : SUBSET AnyId,
          edges : SUBSET (AnyId \X AnyId)]
EmptyStore == [verts |-> {}, ghosts |-> {}, edges |-> {}]

\* v1, v2: what ProcessAddEdge2PC and ProcessDeleteEdge2PC are called with;
\* a, b: v1Id and v2Id, which they look up again.
NoReg == [req |-> [op |-> "none", a |-> NoKey, b |-> NoKey],
          var |-> 0, id |-> NoId,
          v1 |-> NoId, v2 |-> NoId, a |-> NoId, b |-> NoId,
          part |-> {}, home |-> {}, ghost |-> NoId, list |-> {}, num |-> 0]
NoScan == [list |-> [p \in Part |-> {}], todo |-> {}, found |-> {}]
NoLegs == [p \in Part |-> "none"]
NoMsg == [kind |-> "none", id |-> NoId, edge |-> <<NoId, NoId>>,
          link |-> <<NoId, NoId>>]

\* What the variables of one request, one scan and one message range over.
Registers ==
  [req : [op : RequestKind \cup {"none"}, a : Key \cup {NoKey}, b : Key \cup {NoKey}],
   var : 0 .. 2, id : AnyId, v1 : AnyId, v2 : AnyId, a : AnyId, b : AnyId,
   part : SUBSET Part, home : SUBSET Part, ghost : AnyId, list : SUBSET Id, num : Int]
ScanState ==
  [list : [Part -> SUBSET Id], todo : SUBSET Part, found : SUBSET Id]
Message ==
  [kind : {"none", "AddVertex", "AddGhostVertex", "AddEdge", "DeleteVertex", "DeleteEdge"},
   id : AnyId, edge : AnyId \X AnyId, link : AnyId \X AnyId]

TypeOK ==
  /\ counter \in 0 .. MaxId
  /\ keyOf \in [Id -> Key \cup {NoKey}]
  /\ mVerts \in [Part -> SUBSET Id]
  /\ mGhosts \in [Part -> SUBSET AnyId]
  /\ mEdges \in [Part -> SUBSET (AnyId \X AnyId)]
  /\ mInfo \in [Part -> SUBSET AnyId]
  /\ numVertices \in Int /\ numEdges \in Int
  /\ mem \in [Part -> Store] /\ db \in [Part -> Store]
  /\ up \in [Part -> BOOLEAN]
  /\ pc \in [Client -> Scans \cup Calls \cup Steps]
  /\ reg \in [Client -> Registers] /\ scan \in [Client -> ScanState]
  /\ msg \in [Client -> Message]
  /\ leg \in [Client -> [Part -> {"none", "sent", "stored", "ack", "no"}]]
  /\ late \subseteq [part : Part, msg : Message, stage : {"sent", "stored"}]
  /\ issued \in 0 .. MaxRequests /\ faults \in 0 .. MaxFaults
  /\ crashed \subseteq Part
  /\ acked \subseteq Id /\ condemned \subseteq Id
  /\ reply \in [Client -> {"none", "create", "Delete", "error"}]

Init ==
  /\ counter = 0
  /\ keyOf = [i \in Id |-> NoKey]
  /\ mVerts = [p \in Part |-> {}]
  /\ mGhosts = [p \in Part |-> {}]
  /\ mEdges = [p \in Part |-> {}]
  /\ mInfo = [p \in Part |-> {}]
  /\ numVertices = 0 /\ numEdges = 0
  /\ mem = [p \in Part |-> EmptyStore]
  /\ up = [p \in Part |-> TRUE]
  /\ db = [p \in Part |-> EmptyStore]
  /\ pc = [c \in Client |-> "idle"]
  /\ reg = [c \in Client |-> NoReg]
  /\ scan = [c \in Client |-> NoScan]
  /\ msg = [c \in Client |-> NoMsg]
  /\ leg = [c \in Client |-> NoLegs]
  /\ late = {} /\ faults = 0 /\ issued = 0 /\ crashed = {}
  /\ acked = {} /\ condemned = {}
  /\ reply = [c \in Client |-> "none"]

----------------------------------------------------------------------------
(* Partial evaluation of the small queries the handlers make for           *)
(* themselves: ProcessMatchQuery asks the workers one after another.  A    *)
(* worker that cannot be asked counts as one that found nothing.           *)

\* A query for nodes goes to the partitions that list vertices, with the
\* list as it is now.
StartNodeScan(c, where) ==
  /\ pc' = [pc EXCEPT ![c] = where]
  /\ scan' = [scan EXCEPT ![c] =
                [list |-> mVerts, todo |-> {p \in Part : mVerts[p] # {}},
                 found |-> {}]]

\* A query for a relationship goes to the partitions hasRelevantRelationship
\* accepts.
StartEdgeScan(c, where) ==
  /\ pc' = [pc EXCEPT ![c] = where]
  /\ scan' = [scan EXCEPT ![c] =
                [NoScan EXCEPT !.todo = {p \in Part : mInfo[p] # {}}]]

\* The search of buildVertexExistenceQuery for k finds vertex i, of key l.  A
\* vertex with more properties than k names answers to k as well; nothing
\* answers to a label alone, since the query for it, MATCH (n:K{}) RETURN n,
\* becomes WHERE n:K{}, which Neo4j refuses, and the error is dropped.  If k
\* has a property named id, matchesSpecificValues compares it with the
\* identifier of the vertex and drops the results that differ.
Finds(k, l, i) ==
  l \in Describes[k] /\ (k \in DOMAIN IdProperty => IdProperty[k] = i)

ByKey(k) == {i \in Id : Finds(k, keyOf[i], i)}

\* checkVertexExistence: parseProperties does not read the -1 of an
\* identifier that was not found, and the condition is dropped.
ById(i) == IF i = NoId THEN Id ELSE {i}

Wanted(c) ==
  CASE pc[c] = "exists" -> ByKey(keyOf[reg[c].id])
    [] pc[c] = "lookA" -> ByKey(reg[c].req.a)
    [] pc[c] = "lookB" -> ByKey(reg[c].req.b)
    [] pc[c] \in {"checkA", "confirm"} -> ById(reg[c].v1)
    [] pc[c] = "checkB" -> ById(reg[c].v2)

NodeScans == {"exists", "lookA", "lookB", "checkA", "checkB", "confirm"}

Link(c) == <<reg[c].a, reg[c].b>>

\* isRecordValidForPartition, of the worker's memory.
ValidAt(p, e) ==
  /\ e[1] \in mem[p].verts
  /\ e[2] \in mem[p].verts \cup mem[p].ghosts

Found(c, p) ==
  IF pc[c] = "find"
  THEN IF Link(c) \in db[p].edges /\ ValidAt(p, Link(c)) THEN {reg[c].a} ELSE {}
  ELSE db[p].verts \cap scan[c].list[p] \cap Wanted(c)

\* sendPartialMatchRequest to the worker of p.
Ask(c, p) ==
  /\ pc[c] \in Scans
  /\ p \in scan[c].todo
  /\ pc[c] = "duplicate" => ~up[p] \/ Link(c) \notin db[p].edges
  /\ scan' = [scan EXCEPT ![c].todo = @ \ {p},
                          ![c].found = @ \cup IF up[p] /\ pc[c] # "duplicate"
                                              THEN Found(c, p) ELSE {}]
  /\ UNCHANGED <<ids, metadata, workers, db, pc, reg, sending, history, channel>>

\* The query of checkEdgeExistence returns the relationship without its end
\* points; extractPartialMatchFromRecord then asserts an integer in a map
\* that has none, and the worker's process panics.  With it go the handlers
\* of all its connections; a message still to be dialled, one of kept, is not
\* touched, and a query that Neo4j has been sent may go on.
AskPanics(c, p) ==
  /\ pc[c] = "duplicate"
  /\ p \in scan[c].todo
  /\ up[p]
  /\ Link(c) \in db[p].edges
  /\ scan' = [scan EXCEPT ![c].todo = @ \ {p}]
  /\ up' = [up EXCEPT ![p] = FALSE]
  /\ crashed' = crashed \cup {p}
  /\ mem' = [mem EXCEPT ![p] = EmptyStore]
  /\ \E kept \in SUBSET {d \in Client : leg[d][p] = "sent"} :
       leg' = [d \in Client |->
                 [leg[d] EXCEPT ![p] =
                    IF @ \in {"sent", "stored"} /\ d \notin kept THEN "no" ELSE @]]
  /\ late' = {x \in late : x.part # p \/ x.stage = "stored"} \cup
             {[part |-> p, msg |-> msg[d], stage |-> "stored"] :
                d \in {d \in Client : leg[d][p] = "stored"}}
  /\ UNCHANGED <<ids, metadata, db, pc, reg, msg, history, faults>>

\* The worker could not be reached or its Neo4j refused: the error is
\* dropped by executePartialEvaluation.
AskFails(c, p) ==
  /\ pc[c] \in Scans
  /\ p \in scan[c].todo
  /\ faults < MaxFaults
  /\ faults' = faults + 1
  /\ scan' = [scan EXCEPT ![c].todo = @ \ {p}]
  /\ UNCHANGED <<ids, metadata, workers, db, pc, reg, sending, history, late>>

Scanned(c, where) == pc[c] = where /\ scan[c].todo = {}

----------------------------------------------------------------------------
(* Messages: one leg of Run2PC for every worker addressed.  A handler      *)
(* changes the worker's memory, then has Neo4j run the query.              *)

Send(c, P, m, where) ==
  /\ pc' = [pc EXCEPT ![c] = where]
  /\ msg' = [msg EXCEPT ![c] = m]
  /\ leg' = [leg EXCEPT ![c] = [p \in Part |-> IF p \in P THEN "sent" ELSE "none"]]

Settled(c, where) ==
  /\ pc[c] = where
  /\ \A p \in Part : leg[c][p] \notin {"sent", "stored"}

Agreed(c) == \A p \in Part : leg[c][p] # "no"

\* The edges of E that do not touch vertex i.
Detached(E, i) == {e \in E : e[1] # i /\ e[2] # i}

\* handleConn, under partition.mu.
Stored(s, m) ==
  CASE m.kind = "AddVertex" -> [s EXCEPT !.verts = @ \cup {m.id}]
    [] m.kind = "AddGhostVertex" -> [s EXCEPT !.ghosts = @ \cup {m.id}]
    [] m.kind = "AddEdge" -> [s EXCEPT !.edges = @ \cup {m.edge}]
    [] m.kind = "DeleteEdge" -> [s EXCEPT !.edges = @ \ {m.edge}]
    [] m.kind = "DeleteVertex" ->
         [verts |-> s.verts \ {m.id}, ghosts |-> s.ghosts \ {m.id},
          edges |-> Detached(s.edges, m.id)]

\* The message's query, run by Neo4j: buildCreateVertexQuery, the query of
\* addGhostToWorker, buildCreateEdgeQuery (which matches its two end points
\* and creates nothing when one is missing), and the two delete queries.
Executed(s, m) ==
  CASE m.kind = "AddEdge" ->
         IF {m.link[1], m.link[2]} \subseteq s.verts \cup s.ghosts
         THEN [s EXCEPT !.edges = @ \cup {m.link}] ELSE s
    [] m.kind = "DeleteEdge" -> [s EXCEPT !.edges = @ \ {m.link}]
    [] OTHER -> Stored(s, m)

Deliver(c, p) ==
  /\ leg[c][p] = "sent"
  /\ up[p]
  /\ leg' = [leg EXCEPT ![c][p] = "stored"]
  /\ mem' = [mem EXCEPT ![p] = Stored(@, msg[c])]
  /\ UNCHANGED <<ids, metadata, up, crashed, db, pc, local, msg, history, channel>>

Unreachable(c, p) ==
  /\ leg[c][p] = "sent"
  /\ ~up[p]
  /\ leg' = [leg EXCEPT ![c][p] = "no"]
  /\ UNCHANGED <<ids, metadata, workers, db, pc, local, msg, history, channel>>

RunQuery(c, p) ==
  /\ leg[c][p] = "stored"
  /\ leg' = [leg EXCEPT ![c][p] = "ack"]
  /\ db' = [db EXCEPT ![p] = Executed(@, msg[c])]
  /\ UNCHANGED <<ids, metadata, workers, pc, local, msg, history, channel>>

\* Mutant of Lose: a worker that does not answer has agreed.
SilenceIsConsent(c, p) ==
  /\ leg[c][p] \in {"sent", "stored"}
  /\ faults < MaxFaults
  /\ faults' = faults + 1
  /\ leg' = [leg EXCEPT ![c][p] = "ack"]
  /\ late' = late \cup {[part |-> p, msg |-> msg[c], stage |-> leg[c][p]]}
  /\ UNCHANGED <<ids, metadata, workers, db, pc, local, msg, history>>

\* Mutant of Lose: the message is sent a second time.
SendAgain(c, p) ==
  /\ leg[c][p] \in {"sent", "stored"}
  /\ faults < MaxFaults
  /\ faults' = faults + 1
  /\ leg' = [leg EXCEPT ![c][p] = "sent"]
  /\ late' = late \cup {[part |-> p, msg |-> msg[c], stage |-> leg[c][p]]}
  /\ UNCHANGED <<ids, metadata, workers, db, pc, local, msg, history>>

\* The connection is lost, or Neo4j's answer is: the call counts a NO, the
\* message goes on by itself or comes to nothing.
Lose(c, p) ==
  /\ leg[c][p] \in {"sent", "stored"}
  /\ faults < MaxFaults
  /\ faults' = faults + 1
  /\ leg' = [leg EXCEPT ![c][p] = "no"]
  /\ late' = late \cup {[part |-> p, msg |-> msg[c], stage |-> leg[c][p]]}
  /\ UNCHANGED <<ids, metadata, workers, db, pc, local, msg, history>>

LateDeliver(x) ==
  /\ x.stage = "sent"
  /\ up[x.part]
  /\ late' = (late \ {x}) \cup {[x EXCEPT !.stage = "stored"]}
  /\ mem' = [mem EXCEPT ![x.part] = Stored(@, x.msg)]
  /\ UNCHANGED <<ids, metadata, up, crashed, db, pc, local, sending, history, faults>>

LateRun(x) ==
  /\ x.stage = "stored"
  /\ late' = late \ {x}
  /\ db' = [db EXCEPT ![x.part] = Executed(@, x.msg)]
  /\ UNCHANGED <<ids, metadata, workers, pc, local, sending, history, faults>>

LateDrop(x) ==
  /\ late' = late \ {x}
  /\ UNCHANGED <<ids, metadata, workers, db, pc, local, sending, history, faults>>

\* A worker is started again, with an empty partition.
Restart(p) ==
  /\ ~up[p]
  /\ up' = [up EXCEPT ![p] = TRUE]
  /\ UNCHANGED <<ids, metadata, mem, crashed, db, pc, local, sending, history, channel>>

----------------------------------------------------------------------------
(* Requests.                                                               *)

Home(i) == {p \in Part : i \in mVerts[p]}

\* What a request leaves behind when it returns.
Finish(c, r) ==
  /\ pc' = [pc EXCEPT ![c] = "idle"]
  /\ reg' = [reg EXCEPT ![c] = NoReg]
  /\ scan' = [scan EXCEPT ![c] = NoScan]
  /\ msg' = [msg EXCEPT ![c] = NoMsg]
  /\ leg' = [leg EXCEPT ![c] = NoLegs]
  /\ reply' = [reply EXCEPT ![c] = r]

\* HandleCypher starts a request; the variables of a CREATE come first, the
\* others begin by looking up the vertices they name.
Begin(c, r) ==
  /\ pc[c] = "idle"
  /\ issued < MaxRequests
  /\ issued' = issued + 1
  /\ reg' = [reg EXCEPT ![c] = [NoReg EXCEPT !.req = r]]
  /\ reply' = [reply EXCEPT ![c] = "none"]
  /\ IF r.op \in {"AddVertex", "AddEdge"}
     THEN pc' = [pc EXCEPT ![c] = "next"] /\ UNCHANGED scan
     ELSE StartNodeScan(c, "lookA")
  /\ UNCHANGED <<ids, metadata, workers, db, sending, acked, condemned, channel>>

Variables(r) == IF r.op = "AddEdge" THEN <<r.a, r.b>> ELSE <<r.a>>

\* Mutant of NextVariable: the identifier is the counter before it is
\* incremented.
PostIncrement(c) ==
  LET n == reg[c].var + 1 IN
  /\ pc[c] = "next"
  /\ n \in DOMAIN Variables(reg[c].req)
  /\ counter' = counter + 1
  /\ keyOf' = [keyOf EXCEPT ![counter'] = Variables(reg[c].req)[n]]
  /\ reg' = [reg EXCEPT ![c].var = n, ![c].id = counter]
  /\ pc' = [pc EXCEPT ![c] = "exists"]
  /\ scan' = [scan EXCEPT ![c] = NoScan]
  /\ UNCHANGED <<metadata, workers, db, sending, history, channel>>

\* The loop over variables: each gets an identifier (getOrCreateVertexID)
\* before ProcessAddVertex2PC looks whether the vertex exists.  The bound on
\* identifiers never stops it, since each request takes two at most.
NextVariable(c) ==
  LET n == reg[c].var + 1 IN
  /\ pc[c] = "next"
  /\ n \in DOMAIN Variables(reg[c].req)
  /\ counter < MaxId
  /\ counter' = counter + 1
  /\ keyOf' = [keyOf EXCEPT ![counter'] = Variables(reg[c].req)[n]]
  /\ reg' = [reg EXCEPT ![c].var = n, ![c].id = counter']
  /\ StartNodeScan(c, "exists")
  /\ UNCHANGED <<metadata, workers, db, sending, history, channel>>

\* After the last variable a CREATE with a relationship looks up its end
\* points; one without is done, whatever has become of its vertices.
VariablesDone(c) ==
  /\ pc[c] = "next"
  /\ reg[c].var = Len(Variables(reg[c].req))
  /\ IF reg[c].req.op = "AddEdge"
     THEN StartNodeScan(c, "lookA") /\ UNCHANGED <<reg, sending, reply>>
     ELSE Finish(c, "create")
  /\ UNCHANGED <<ids, metadata, workers, db, issued, acked, condemned, channel>>

\* ProcessAddVertex2PC refuses a vertex that was found; its caller goes on.
Exists(c) ==
  /\ Scanned(c, "exists")
  /\ scan[c].found # {}
  /\ pc' = [pc EXCEPT ![c] = "next"]
  /\ UNCHANGED <<ids, metadata, workers, db, local, sending, history, channel>>

Load == [p \in Part |-> Cardinality(mVerts[p])]

\* Mutant of Place: the answer of the existence check is ignored.
PlaceAnyway(c) ==
  /\ Scanned(c, "exists")
  /\ \E p \in Candidates(Load) :
       /\ Send(c, {p}, [NoMsg EXCEPT !.kind = "AddVertex", !.id = reg[c].id],
               "addVertex")
       /\ reg' = [reg EXCEPT ![c].part = {p}]
  /\ UNCHANGED <<ids, metadata, workers, db, scan, history, channel>>

Place(c) ==
  /\ Scanned(c, "exists")
  /\ scan[c].found = {}
  /\ \E p \in Candidates(Load) :
       /\ Send(c, {p}, [NoMsg EXCEPT !.kind = "AddVertex", !.id = reg[c].id],
               "addVertex")
       /\ reg' = [reg EXCEPT ![c].part = {p}]
  /\ UNCHANGED <<ids, metadata, workers, db, scan, history, channel>>

\* updateSummary takes no lock: it reads the list and the count, and writes
\* them later.
VertexAdded(c) ==
  /\ Settled(c, "addVertex")
  /\ IF Agreed(c)
     THEN /\ pc' = [pc EXCEPT ![c] = "summary"]
          /\ \E p \in reg[c].part :
               reg' = [reg EXCEPT ![c].list = mVerts[p], ![c].num = numVertices]
          /\ acked' = acked \cup {reg[c].id}
     ELSE /\ pc' = [pc EXCEPT ![c] = "next"]
          /\ UNCHANGED <<reg, acked>>
  /\ UNCHANGED <<ids, metadata, workers, db, scan, sending, issued, condemned,
                 reply, channel>>

\* Mutant of UpdateSummary: the partition is worked out a second time.
SummaryElsewhere(c) ==
  LET i == reg[c].id IN
  /\ pc[c] = "summary"
  /\ \E p \in Candidates(Load) :
       /\ mVerts' = [mVerts EXCEPT ![p] = reg[c].list \cup {i}]
       /\ mInfo' = [mInfo EXCEPT ![p] = @ \cup {i}]
  /\ numVertices' = numVertices + 1
  /\ pc' = [pc EXCEPT ![c] = "next"]
  /\ UNCHANGED <<ids, mGhosts, mEdges, numEdges, workers, db, local, sending,
                 history, channel>>

UpdateSummary(c) ==
  LET i == reg[c].id IN
  /\ pc[c] = "summary"
  /\ \E p \in reg[c].part :
       /\ mVerts' = [mVerts EXCEPT ![p] = reg[c].list \cup {i}]
       /\ mInfo' = [mInfo EXCEPT ![p] = @ \cup {i}]
  /\ numVertices' \in {numVertices + 1, reg[c].num + 1}
  /\ pc' = [pc EXCEPT ![c] = "next"]
  /\ UNCHANGED <<ids, mGhosts, mEdges, numEdges, workers, db, local, sending,
                 history, channel>>

\* extractVertexIDFromResults: the first result, in no particular order.
OneOf(S) == IF S = {} THEN {NoId} ELSE S

\* The first end point, or the vertex to be deleted.  A CREATE ignores that
\* it was not found; a DELETE gives up on it and still reports success.
LookedA(c) ==
  /\ Scanned(c, "lookA")
  /\ IF scan[c].found = {} /\ reg[c].req.op # "AddEdge"
     THEN Finish(c, "Delete")
     ELSE /\ \E i \in OneOf(scan[c].found) : reg' = [reg EXCEPT ![c].v1 = i]
          /\ StartNodeScan(c, IF reg[c].req.op = "DeleteVertex"
                              THEN "confirm" ELSE "lookB")
          /\ UNCHANGED <<sending, reply>>
  /\ UNCHANGED <<ids, metadata, workers, db, issued, acked, condemned, channel>>

LookedB(c) ==
  /\ Scanned(c, "lookB")
  /\ IF scan[c].found = {} /\ reg[c].req.op # "AddEdge"
     THEN Finish(c, "Delete")
     ELSE /\ \E i \in OneOf(scan[c].found) : reg' = [reg EXCEPT ![c].v2 = i]
          /\ StartNodeScan(c, "checkA")
          /\ UNCHANGED <<sending, reply>>
  /\ UNCHANGED <<ids, metadata, workers, db, issued, acked, condemned, channel>>

\* checkVertexExistence of both ends, by identifier.
CheckedA(c) ==
  /\ Scanned(c, "checkA")
  /\ IF scan[c].found = {} /\ reg[c].req.op = "DeleteEdge"
     THEN Finish(c, "error")
     ELSE /\ \E i \in OneOf(scan[c].found) : reg' = [reg EXCEPT ![c].a = i]
          /\ StartNodeScan(c, "checkB")
          /\ UNCHANGED <<sending, reply>>
  /\ UNCHANGED <<ids, metadata, workers, db, issued, acked, condemned, channel>>

CheckedB(c) ==
  /\ Scanned(c, "checkB")
  /\ IF scan[c].found = {} \/ reg[c].a = NoId
     THEN Finish(c, "error")
     ELSE /\ \E i \in scan[c].found : reg' = [reg EXCEPT ![c].b = i]
          /\ StartEdgeScan(c, IF reg[c].req.op = "AddEdge"
                              THEN "duplicate" ELSE "find")
          /\ UNCHANGED <<sending, reply>>
  /\ UNCHANGED <<ids, metadata, workers, db, issued, acked, condemned, channel>>

----------------------------------------------------------------------------
(* ProcessAddEdge2PC, from the search for the edge on.                     *)

\* Both homes and both ghost flags are read under one lock.  The edge goes
\* to the home of its source, the ghost is its target; only a source that
\* is a ghost in its own home turns the two around.
Plan(c) ==
  /\ Scanned(c, "duplicate")
  /\ LET r == reg[c] IN
     IF Home(r.a) = {} \/ Home(r.b) = {} THEN Finish(c, "error")
     ELSE \E p1 \in Home(r.a), p2 \in Home(r.b) :
       LET ghost1 == r.v1 \in mGhosts[p1]
           ghost2 == r.v2 \in mGhosts[p2]
       IN  IF p1 # p2 /\ ghost1 /\ ghost2 THEN Finish(c, "error")
           ELSE /\ reg' = [reg EXCEPT
                     ![c].part = {IF p1 # p2 /\ ghost1 THEN p2 ELSE p1},
                     ![c].ghost = IF ghost1 THEN r.v1 ELSE r.v2]
                /\ pc' = [pc EXCEPT ![c] = IF p1 = p2 THEN "edge" ELSE "cross"]
                /\ UNCHANGED <<scan, sending, reply>>
  /\ UNCHANGED <<ids, metadata, workers, db, issued, acked, condemned, channel>>

\* A ghost is only added where the vertex is not yet known.
NeedGhost(c) ==
  /\ pc[c] = "cross"
  /\ \E p \in reg[c].part :
       pc' = [pc EXCEPT ![c] = IF reg[c].ghost \in mGhosts[p] \cup mVerts[p]
                               THEN "edge" ELSE "ghost"]
  /\ UNCHANGED <<ids, metadata, workers, db, local, sending, history, channel>>

\* Mutant of AddGhost: the ghost is left to the worker.
GhostUnlisted(c) ==
  /\ pc[c] = "ghost"
  /\ Send(c, reg[c].part,
          [NoMsg EXCEPT !.kind = "AddGhostVertex", !.id = reg[c].ghost],
          "addGhost")
  /\ UNCHANGED <<ids, metadata, workers, db, local, history, channel>>

\* Mutant of AddGhost: the source of the edge is sent instead of the end that is
\* not known there.
GhostOfSource(c) ==
  /\ pc[c] = "ghost"
  /\ \E p \in reg[c].part : mGhosts' = [mGhosts EXCEPT ![p] = @ \cup {reg[c].v1}]
  /\ Send(c, reg[c].part,
          [NoMsg EXCEPT !.kind = "AddGhostVertex", !.id = reg[c].v1],
          "addGhost")
  /\ UNCHANGED <<ids, mVerts, mEdges, mInfo, numVertices, numEdges, workers, db,
                 local, history, channel>>

\* addGhostVertex on the master, then addGhostToWorker.
AddGhost(c) ==
  /\ pc[c] = "ghost"
  /\ \E p \in reg[c].part : mGhosts' = [mGhosts EXCEPT ![p] = @ \cup {reg[c].ghost}]
  /\ Send(c, reg[c].part,
          [NoMsg EXCEPT !.kind = "AddGhostVertex", !.id = reg[c].ghost],
          "addGhost")
  /\ UNCHANGED <<ids, mVerts, mEdges, mInfo, numVertices, numEdges, workers, db,
                 local, history, channel>>

GhostAdded(c) ==
  /\ Settled(c, "addGhost")
  /\ IF Agreed(c)
     THEN pc' = [pc EXCEPT ![c] = "edge"] /\ UNCHANGED <<local, sending, reply>>
     ELSE Finish(c, "error")
  /\ UNCHANGED <<ids, metadata, workers, db, issued, acked, condemned, channel>>

\* The master's metadata first (addEdgeToMeta, EdgeInfoMap, NumEdges, in one
\* critical section), then Run2PC; a failure undoes nothing.
AddEdge(c) ==
  LET e == <<reg[c].v1, reg[c].v2>> IN
  /\ pc[c] = "edge"
  /\ \E p \in reg[c].part :
       /\ mEdges' = [mEdges EXCEPT ![p] = @ \cup {e}]
       /\ mInfo' = [mInfo EXCEPT ![p] = @ \cup {reg[c].v1}]
  /\ numEdges' = numEdges + 1
  /\ Send(c, reg[c].part,
          [NoMsg EXCEPT !.kind = "AddEdge", !.edge = e, !.link = Link(c)],
          "addEdge")
  /\ UNCHANGED <<ids, mVerts, mGhosts, numVertices, workers, db, local, history,
                 channel>>

\* Mutant of EdgeAdded: only a success is answered.
AnswersSuccess(c) ==
  /\ Settled(c, "addEdge")
  /\ Agreed(c)
  /\ Finish(c, "create")
  /\ UNCHANGED <<ids, metadata, workers, db, issued, acked, condemned, channel>>

EdgeAdded(c) ==
  /\ Settled(c, "addEdge")
  /\ Finish(c, IF Agreed(c) THEN "create" ELSE "error")
  /\ UNCHANGED <<ids, metadata, workers, db, issued, acked, condemned, channel>>

----------------------------------------------------------------------------
(* ProcessDeleteVertex2PCAll.                                              *)

\* The partitions that know vertex i, as home or as ghost.
Knowing(i) == {p \in Part : i \in mVerts[p] \cup mGhosts[p]}

\* Mutant of DeleteVertex: only the home of the vertex is told.
DeleteAtHome(c) ==
  LET i == reg[c].v1 IN
  /\ Scanned(c, "confirm")
  /\ IF scan[c].found = {} \/ Knowing(i) = {}
     THEN Finish(c, "error") /\ UNCHANGED condemned
     ELSE /\ Send(c, Home(i),
                  [NoMsg EXCEPT !.kind = "DeleteVertex", !.id = i], "delVertex")
          /\ reg' = [reg EXCEPT ![c].part = Knowing(i)]
          /\ condemned' = condemned \cup {i}
          /\ UNCHANGED <<scan, reply>>
  /\ UNCHANGED <<ids, metadata, workers, db, issued, acked, channel>>

\* The message goes to every worker, whoever knows the vertex.
DeleteVertex(c) ==
  LET i == reg[c].v1 IN
  /\ Scanned(c, "confirm")
  /\ IF scan[c].found = {} \/ Knowing(i) = {}
     THEN Finish(c, "error") /\ UNCHANGED condemned
     ELSE /\ Send(c, Part, [NoMsg EXCEPT !.kind = "DeleteVertex", !.id = i],
                  "delVertex")
          /\ reg' = [reg EXCEPT ![c].part = Knowing(i)]
          /\ condemned' = condemned \cup {i}
          /\ UNCHANGED <<scan, reply>>
  /\ UNCHANGED <<ids, metadata, workers, db, issued, acked, channel>>

\* deleteVertex takes no lock either: the list is read here, written later.
VertexDeleted(c) ==
  LET i == reg[c].v1 IN
  /\ Settled(c, "delVertex")
  /\ IF ~Agreed(c) THEN Finish(c, "error")
     ELSE IF Home(i) = {} THEN Finish(c, "Delete")
     ELSE \E p \in Home(i) :
            /\ reg' = [reg EXCEPT ![c].home = {p}, ![c].list = mVerts[p],
                                  ![c].num = numVertices]
            /\ pc' = [pc EXCEPT ![c] = "forget"]
            /\ UNCHANGED <<scan, sending, reply>>
  /\ UNCHANGED <<ids, metadata, workers, db, issued, acked, condemned, channel>>

\* Only the metadata of the home forgets the vertex and the edges that touch
\* it.  Ghosts would be forgotten if the home held one of its own vertex.
Forget(c) ==
  LET i == reg[c].v1 IN
  /\ pc[c] = "forget"
  /\ \E p \in reg[c].home :
       LET kept == Detached(mEdges[p], i) IN
       /\ mVerts' = [mVerts EXCEPT ![p] = reg[c].list \ {i}]
       /\ mEdges' = [mEdges EXCEPT ![p] = kept]
       /\ mInfo' = [mInfo EXCEPT ![p] = @ \ {i}]
       /\ numEdges' = numEdges - Cardinality(mEdges[p] \ kept)
       /\ mGhosts' = IF i \notin mGhosts[p] THEN mGhosts
                     ELSE [q \in Part |-> mGhosts[q] \
                             IF q \in reg[c].part THEN {i} ELSE {}]
  /\ numVertices' \in {numVertices - 1, reg[c].num - 1}
  /\ Finish(c, "Delete")
  /\ UNCHANGED <<ids, workers, db, issued, acked, condemned, channel>>

----------------------------------------------------------------------------
(* ProcessDeleteEdge2PC, from the search for the edge on.                  *)

\* The homes of both ends and every partition that knows both.
Affected(a, b) == Home(a) \cup Home(b) \cup (Knowing(a) \cap Knowing(b))

DeleteEdge(c) ==
  LET P == Affected(reg[c].a, reg[c].b) IN
  /\ Scanned(c, "find")
  /\ IF scan[c].found = {} \/ P = {} THEN Finish(c, "error")
     ELSE /\ Send(c, P, [NoMsg EXCEPT !.kind = "DeleteEdge", !.edge = Link(c),
                                      !.link = Link(c)], "delEdge")
          /\ reg' = [reg EXCEPT ![c].part = P]
          /\ UNCHANGED <<scan, reply>>
  /\ UNCHANGED <<ids, metadata, workers, db, issued, acked, condemned, channel>>

\* deleteEdge in each partition counts the edges it finds, and the handler
\* counts one more unless none is left.
EdgeDeleted(c) ==
  /\ Settled(c, "delEdge")
  /\ IF ~Agreed(c) THEN UNCHANGED <<mEdges, numEdges>>
     ELSE LET n == numEdges -
                     Cardinality({p \in reg[c].part : Link(c) \in mEdges[p]})
          IN  /\ mEdges' = [p \in Part |->
                              IF p \in reg[c].part THEN mEdges[p] \ {Link(c)}
                                                   ELSE mEdges[p]]
              /\ numEdges' = IF n > 0 THEN n - 1 ELSE n
  /\ Finish(c, IF Agreed(c) THEN "Delete" ELSE "error")
  /\ UNCHANGED <<ids, mVerts, mGhosts, mInfo, numVertices, workers, db, issued,
                 acked, condemned, channel>>

----------------------------------------------------------------------------
AddVertexStep(c) ==
  \/ NextVariable(c) \/ VariablesDone(c) \/ Exists(c) \/ Place(c)
  \/ VertexAdded(c) \/ UpdateSummary(c)

LookStep(c) == LookedA(c) \/ LookedB(c) \/ CheckedA(c) \/ CheckedB(c)

AddEdgeStep(c) ==
  \/ Plan(c) \/ NeedGhost(c) \/ AddGhost(c) \/ GhostAdded(c)
  \/ AddEdge(c) \/ EdgeAdded(c)

DeleteStep(c) ==
  \/ DeleteVertex(c) \/ VertexDeleted(c) \/ Forget(c)
  \/ DeleteEdge(c) \/ EdgeDeleted(c)

\* What happens without anybody's fault, once a request has begun.
Progress(c) ==
  \/ AddVertexStep(c) \/ LookStep(c) \/ AddEdgeStep(c) \/ DeleteStep(c)
  \/ \E p \in Part :
       \/ Ask(c, p) \/ AskPanics(c, p)
       \/ Deliver(c, p) \/ Unreachable(c, p) \/ RunQuery(c, p)

Next ==
  \/ \E c \in Client :
       \/ \E r \in Request : Begin(c, r)
       \/ Progress(c)
       \/ \E p \in Part : AskFails(c, p) \/ Lose(c, p)
  \/ \E x \in late : LateDeliver(x) \/ LateRun(x) \/ LateDrop(x)
  \/ \E p \in Part : Restart(p)

Spec == Init /\ [][Next]_vars

\* The goroutine of a request and the workers it talks to go on when they
\* can; nobody has to make a request or to start a worker again.
Fairness == \A c \in Client : WF_vars(Progress(c))

----------------------------------------------------------------------------
(* What should hold of the three copies of the graph.                      *)

Live == UNION {mVerts[p] : p \in Part}
Database == UNION {db[p].verts : p \in Part}

\* A vertex has one home: where the master lists it, no other partition
\* lists it and no other worker or Neo4j holds it (placement in
\* ProcessAddVertex2PC, sdp.go:57-94, whatever the unlocked updates do).
HomeIsUnique ==
  \A p, q \in Part :
    mVerts[p] \cap (mVerts[q] \cup mem[q].verts \cup db[q].verts) # {} => p = q

\* No copy of a partition holds a vertex both as its own and as a ghost
\* (target and ghost of a crossing edge, sdp.go:266-334).
GhostElsewhere ==
  \A p \in Part :
    /\ mGhosts[p] \cap mVerts[p] = {}
    /\ mem[p].ghosts \cap mem[p].verts = {}
    /\ db[p].ghosts \cap db[p].verts = {}

\* The master knows of every ghost a worker or a Neo4j may hold, also when
\* it was told that the ghost could not be added: the ghost is put down
\* before it is sent (sdp.go:327-332).
MasterKnowsGhosts ==
  \A p \in Part : mem[p].ghosts \cup db[p].ghosts \subseteq mGhosts[p]

\* A vertex whose creation all workers acknowledged is in a Neo4j until
\* somebody sets out to delete it, whatever is lost or crashes meanwhile
\* (sdp.go:90-94, sdp.go:479).
DurableAck == acked \ condemned \subseteq Database

\* A deleted vertex does not come back: no late message creates again what
\* a later request has deleted (Run2PC sends a message once, master.go:65).
NoResurrection ==
  [][\A i \in condemned : i \notin Database => i \notin Database']_vars

\* Two vertices never have the same type and properties: what the message
\* "vertex already exists" of ProcessAddVertex2PC says (sdp.go:53-55).
KeyUnique ==
  \A i, j \in Database : keyOf[i] = keyOf[j] => i = j

\* The keys a search for which finds the vertices that have them.
Findable == {k \in Key : k \in Describes[k] /\ k \notin DOMAIN IdProperty}

\* No worker has failed, no message was lost, and nobody asks for an edge at
\* a vertex that no search finds: it would be made with the identifier -1.
Calm ==
  /\ faults = 0 /\ crashed = {}
  /\ \A r \in Request : r.op = "AddEdge" => {r.a, r.b} \subseteq Findable

\* Requests come one at a time.
Alone == \E c \in Client : Client = {c}

\* ... which the code achieves for the vertices a search can find, as long
\* as requests come one at a time and every worker answers (an error of a
\* worker counts as "not found").
KeyUniqueAlone ==
  Alone /\ Calm =>
    \A i, j \in Database : keyOf[i] = keyOf[j] /\ keyOf[i] \in Findable => i = j

\* Between requests, if they come one at a time, nothing fails and edges are
\* asked for between vertices a search finds, the master, the memories and
\* the Neo4js describe one graph.  Only what concerns vertices that are no
\* more is different: the ghosts and the edges of a deleted vertex stay in the
\* metadata of the partitions that are not its home
\* (ProcessDeleteVertex2PCAll, sdp.go:482-499).
Agreement ==
  Alone /\ Calm /\ (\A c \in Client : pc[c] = "idle") =>
    /\ numVertices = Cardinality(Live)
    /\ \A p \in Part :
         LET links == mEdges[p] \cap (Live \X Live) IN
         mem[p] = [verts |-> mVerts[p], ghosts |-> mGhosts[p] \cap Live,
                   edges |-> links]
         /\ db[p] = mem[p]
         /\ {e[1] : e \in mEdges[p]} \cap Live \subseteq mInfo[p]

\* An edge that is already there is refused: what the message "edge between
\* %d and %d already exists" of ProcessAddEdge2PC says (sdp.go:211-213).
DuplicateEdgeRefused ==
  [][\A c \in Client :
       /\ pc[c] = "duplicate" /\ pc'[c] # "duplicate"
       /\ faults = 0
       /\ \E p \in Part : Link(c) \in db[p].edges
       => reply'[c] = "error"]_vars

\* Every request is answered, whichever workers are down (Run2PC and
\* ProcessMatchQuery count a worker they cannot reach and go on).
RequestsFinish == \A c \in Client : pc[c] # "idle" ~> pc[c] = "idle"
=============================================================================
