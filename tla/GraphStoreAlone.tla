-------------------------- MODULE GraphStoreAlone ---------------------------
(***************************************************************************)
(* What GraphStore keeps when requests come one at a time and nothing      *)
(* fails: the master, the memories and the Neo4js describe one graph       *)
(* between requests, and no two vertices that a search can find have the   *)
(* same key.  The invariant behind both says at every step of a request    *)
(* how the copies differ (by the message in progress) and what the request *)
(* has found out so far.                                                   *)
(***************************************************************************)
EXTENDS GraphStoreProofs

----------------------------------------------------------------------------
(* What the stores are to become.                                          *)

Creating(c) == pc[c] \in {"addVertex", "summary"}
Numbering(c) == pc[c] = "exists" \/ Creating(c)

\* What the request takes from the master's graph that is still listed, and
\* what it adds to partition p that is not listed yet.
Gone(c) == IF pc[c] \in {"delVertex", "forget"} THEN {reg[c].v1} ELSE {}
Born(c, p) == IF Creating(c) /\ p \in reg[c].part THEN {reg[c].id} ELSE {}
Cut(c, p) == IF pc[c] = "delEdge" /\ p \in reg[c].part THEN {Link(c)} ELSE {}
Stays(c) == Live \ Gone(c)

StoreOf(V, G, E) == [verts |-> V, ghosts |-> G, edges |-> E]

\* The store of p once the message in progress has been carried out.
Goal(c, p) ==
  StoreOf((mVerts[p] \ Gone(c)) \cup Born(c, p), mGhosts[p] \cap Stays(c),
          (mEdges[p] \cap (Stays(c) \X Stays(c))) \ Cut(c, p))

\* The copies differ from it by the message in progress, and by nothing else.
SyncInv(c) ==
  \A p \in Part :
    /\ leg[c][p] \notin Underway => mem[p] = Goal(c, p) /\ db[p] = Goal(c, p)
    /\ leg[c][p] = "sent" => Stored(mem[p], msg[c]) = Goal(c, p)
    /\ leg[c][p] = "stored" => mem[p] = Goal(c, p)
    /\ leg[c][p] \in Underway =>
         Executed(db[p], msg[c]) = Goal(c, p) /\ db[p].verts \subseteq mVerts[p]

----------------------------------------------------------------------------
(* What the request knows.                                                 *)

Known(c) == (0 .. counter) \ (IF Numbering(c) THEN {reg[c].id} ELSE {})

\* The metadata mention no number that is still to be given to a vertex.
NumbersInv(c) ==
  /\ Numbering(c) => reg[c].id = counter
  /\ \A p \in Part :
       /\ mVerts[p] \cup mGhosts[p] \subseteq Known(c)
       /\ mEdges[p] \subseteq Known(c) \X Known(c)

\* A search for k finds something.
HasKey(k) == \E i \in Live : Finds(k, keyOf[i], i)

KeysInv(c) ==
  /\ \A i, j \in Live : keyOf[i] = keyOf[j] /\ keyOf[i] \in Findable => i = j
  /\ Creating(c) => ~HasKey(keyOf[reg[c].id])

\* The ends of an edge that is to be created exist, from the first variable
\* or from the second on.
MadeInv(c) ==
  /\ Numbering(c) =>
       /\ reg[c].var \in DOMAIN Variables(reg[c].req)
       /\ keyOf[reg[c].id] = Variables(reg[c].req)[reg[c].var]
  /\ reg[c].req.op = "AddEdge" =>
       /\ reg[c].req.a \in Findable /\ reg[c].req.b \in Findable
       /\ \/ pc[c] = "next" /\ reg[c].var >= 1
          \/ Numbering(c) /\ reg[c].var = 2
          \/ pc[c] \in {"lookA", "lookB"}
          => HasKey(reg[c].req.a)
       /\ \/ pc[c] = "next" /\ reg[c].var = 2
          \/ pc[c] \in {"lookA", "lookB"}
          => HasKey(reg[c].req.b)

\* A search has found what it looks for in the partitions it is through with.
ScanInv(c) ==
  pc[c] \in NodeScans =>
    /\ scan[c].list = mVerts
    /\ scan[c].found =
         {i \in Wanted(c) : \E p \in Part \ scan[c].todo : i \in mVerts[p]}

\* A vertex that was looked up exists, and is found again as itself.
EndsInv(c) ==
  /\ pc[c] \in {"lookB", "checkA", "checkB", "confirm", "delVertex", "forget"} =>
       reg[c].v1 \in Live
  /\ pc[c] \in {"checkA", "checkB"} => reg[c].v2 \in Live
  /\ pc[c] = "checkB" => reg[c].a = reg[c].v1
  /\ pc[c] \in {"duplicate", "find", "cross", "ghost", "addGhost", "edge"} =>
       /\ reg[c].v1 \in Live /\ reg[c].v2 \in Live
       /\ reg[c].a = reg[c].v1 /\ reg[c].b = reg[c].v2

\* The partitions a request has chosen, and the lists it has read.
PartInv(c) ==
  /\ pc[c] = "summary" =>
       /\ \A p \in reg[c].part : reg[c].list = mVerts[p]
       /\ reg[c].num = numVertices
  /\ pc[c] = "forget" =>
       /\ \A p \in reg[c].home : reg[c].v1 \in mVerts[p] /\ reg[c].list = mVerts[p]
       /\ reg[c].num = numVertices
  /\ pc[c] \in {"cross", "ghost", "addGhost", "edge"} =>
       \E p \in Part : reg[c].part = {p} /\ reg[c].v1 \in mVerts[p]
  /\ pc[c] \in {"cross", "ghost"} => reg[c].ghost = reg[c].v2
  /\ pc[c] = "addGhost" => \A p \in reg[c].part : reg[c].v2 \in mGhosts[p]
  /\ pc[c] = "edge" => \A p \in reg[c].part : reg[c].v2 \in mVerts[p] \cup mGhosts[p]

\* Nothing has failed: no worker is down and no leg was given up.
CalmInv(c) ==
  /\ late = {}
  /\ \A p \in Part : up[p] /\ leg[c][p] # "no"

CountInv ==
  /\ numVertices = Cardinality(Live)
  /\ \A p \in Part : \A e \in mEdges[p] : e[1] \in Live => e[1] \in mInfo[p]

SharedInv(c) ==
  CountInv /\ CalmInv(c) /\ SyncInv(c) /\ NumbersInv(c) /\ KeysInv(c)
KnowInv(c) == MadeInv(c) /\ ScanInv(c) /\ EndsInv(c) /\ PartInv(c)

AloneInv == Alone /\ Calm => \A c \in Client : SharedInv(c) /\ KnowInv(c)

\* Client c is the only one, and all is well.
Only(c) == Client = {c} /\ IInv /\ Calm /\ SharedInv(c) /\ KnowInv(c)

----------------------------------------------------------------------------
(* The stores.                                                             *)

\* The steps at which the master's lists say what the stores hold.
Plain(c) == pc[c] \notin {"addVertex", "summary", "delVertex", "forget", "delEdge"}

\* Nothing is listed too much or too little then.
LEMMA PlainMeans ==
  ASSUME NEW c \in Client, Plain(c)
  PROVE  Gone(c) = {} /\ (\A p \in Part : Born(c, p) = {} /\ Cut(c, p) = {}) /\ ~Creating(c)
  BY DEF Plain, Gone, Born, Cut, Creating

\* The same, after a step.
LEMMA PlainNext ==
  ASSUME NEW c \in Client, Plain(c)'
  PROVE  /\ Gone(c)' = {} /\ \A p \in Part : Born(c, p)' = {} /\ Cut(c, p)' = {}
         /\ ~Creating(c)'
  BY DEF Plain, Gone, Born, Cut, Creating

\* What the stores are to become is what the master lists, and the request
\* adds and takes away.
LEMMA GoalSame ==
  ASSUME NEW c \in Client, UNCHANGED metadata, Gone(c)' = Gone(c), NEW p \in Part,
         Born(c, p)' = Born(c, p), Cut(c, p)' = Cut(c, p)
  PROVE  Goal(c, p)' = Goal(c, p)
<1>1. Live' = Live /\ Stays(c)' = Stays(c)
  BY DEF Live, Stays, metadata
<1> QED
  BY <1>1 DEF Goal, metadata

\* The parts of the invariant the lemmas below cite.
LEMMA OnlyParts ==
  ASSUME NEW c \in Client, Only(c)
  PROVE  /\ Base /\ CallInv(c) /\ LookInv(c) /\ LocalType /\ GlobalType
         /\ reg[c] \in Registers /\ scan[c] \in ScanState
         /\ faults = 0 /\ crashed = {}
         /\ CountInv /\ CalmInv(c) /\ SyncInv(c) /\ NumbersInv(c) /\ KeysInv(c)
         /\ MadeInv(c) /\ ScanInv(c) /\ EndsInv(c) /\ PartInv(c)
         /\ \A p \in Part : leg[c][p] # "no"
         /\ Live \subseteq Id
<1>1. IInv /\ Calm /\ SharedInv(c) /\ KnowInv(c)
  BY DEF Only
<1>2. Base
  BY <1>1 DEF IInv
<1>3. LocalType /\ GlobalType /\ CallInv(c) /\ LookInv(c) /\ reg[c] \in Registers
  BY <1>2, BaseParts
<1>4. scan[c] \in ScanState
  BY <1>3 DEF LocalType
<1>5. Live \subseteq Id
  BY <1>3 DEF GlobalType, Live
<1>6. \A p \in Part : leg[c][p] # "no"
  BY <1>1 DEF SharedInv, CalmInv
<1> QED
  BY <1>1, <1>2, <1>3, <1>4, <1>5, <1>6 DEF SharedInv, KnowInv, Calm

\* While no message is on its way every copy is what it is to be.
LEMMA RestSync ==
  ASSUME NEW c \in Client, Only(c), Resting(c), NEW p \in Part
  PROVE  mem[p] = Goal(c, p) /\ db[p] = Goal(c, p)
  BY OnlyParts DEF SyncInv, Resting

\* It stays so while what it is to be stays.
LEMMA RestNext ==
  ASSUME NEW c \in Client, Only(c), UNCHANGED <<mem, db>>, Resting(c), Resting(c)',
         \A p \in Part : Goal(c, p)' = Goal(c, p)
  PROVE  SyncInv(c)'
<1>1. ASSUME NEW p \in Part
      PROVE  leg'[c][p] \notin Underway /\ mem'[p] = Goal(c, p)' /\ db'[p] = Goal(c, p)'
  BY RestSync DEF Resting
<1> QED
  BY <1>1 DEF SyncInv, Underway

\* A step that only the request takes notice of.
LEMMA Quiet ==
  ASSUME NEW c \in Client, Only(c), UNCHANGED <<ids, metadata, workers, db, channel>>,
         Resting(c), Resting(c)', \A p \in Part : leg'[c][p] # "no",
         Gone(c)' = Gone(c),
         \A p \in Part : Born(c, p)' = Born(c, p) /\ Cut(c, p)' = Cut(c, p),
         Creating(c)' => Creating(c), Numbering(c)' => Numbering(c),
         Numbering(c)' => reg'[c].id = reg[c].id
  PROVE  SharedInv(c)'
<1>1. Live' = Live
  BY DEF Live, metadata
<1>2. CountInv'
  BY <1>1, OnlyParts DEF CountInv, metadata
<1>3. CalmInv(c)'
  BY OnlyParts DEF CalmInv, channel, workers
<1>4. SyncInv(c)'
  BY GoalSame, RestNext DEF workers
<1>5. Known(c) \subseteq Known(c)' /\ (Numbering(c)' => reg'[c].id = counter')
  BY OnlyParts DEF Known, NumbersInv, ids
<1>6. NumbersInv(c)'
  <2>1. ASSUME NEW p \in Part
        PROVE  mVerts'[p] \cup mGhosts'[p] \subseteq Known(c)'
                  /\ mEdges'[p] \subseteq Known(c)' \X Known(c)'
    BY <1>5, OnlyParts DEF NumbersInv, metadata
  <2> QED
    BY <1>5, <2>1 DEF NumbersInv
<1>7. KeysInv(c)'
  BY <1>1, OnlyParts DEF KeysInv, HasKey, ids, Numbering
<1> QED
  BY <1>2, <1>3, <1>4, <1>6, <1>7 DEF SharedInv

----------------------------------------------------------------------------
(* Steps that leave the stores and the metadata alone.                     *)

\* Nothing is known to a handler that returns.
LEMMA FinishKnow ==
  ASSUME NEW c \in Client, Only(c), NEW a \in Reply, Finish(c, a)
  PROVE  /\ KnowInv(c)' /\ Plain(c)' /\ Resting(c)' /\ ~Numbering(c)'
         /\ \A p \in Part : leg'[c][p] = "none"
<1>1. pc'[c] = "idle" /\ reg'[c] = NoReg /\ leg'[c] = NoLegs
  BY FinishStep, OnlyParts
<1>2. NoReg.req.op # "AddEdge" /\ \A p \in Part : NoLegs[p] = "none"
  BY DEF NoReg, NoLegs
<1>3. Plain(c)' /\ Resting(c)' /\ ~Numbering(c)' /\ \A p \in Part : leg'[c][p] = "none"
  BY <1>1, <1>2 DEF Plain, Resting, Underway, Numbering, Creating
<1>4. MadeInv(c)'
  BY <1>1, <1>2, <1>3 DEF MadeInv
<1>5. ScanInv(c)' /\ EndsInv(c)' /\ PartInv(c)'
  BY <1>1 DEF ScanInv, EndsInv, PartInv, NodeScans
<1> QED
  BY <1>3, <1>4, <1>5 DEF KnowInv

\* Between two steps that change no list the copies stay as they are.
LEMMA PlainQuiet ==
  ASSUME NEW c \in Client, Only(c), UNCHANGED <<ids, metadata, workers, db, channel>>,
         Plain(c), Plain(c)', Resting(c), Resting(c)', \A p \in Part : leg'[c][p] # "no",
         ~Numbering(c)'
  PROVE  SharedInv(c)'
<1>1. Gone(c) = {} /\ \A p \in Part : Born(c, p) = {} /\ Cut(c, p) = {}
  BY PlainMeans
<1>2. /\ Gone(c)' = {} /\ \A p \in Part : Born(c, p)' = {} /\ Cut(c, p)' = {}
      /\ ~Creating(c)'
  BY PlainNext
<1> QED
  BY <1>1, <1>2, Quiet

\* A handler that returns before it has sent anything, or after.
LEMMA FinishWhole ==
  ASSUME NEW c \in Client, Only(c), NEW a \in Reply, Finish(c, a), Plain(c), Resting(c),
         UNCHANGED <<ids, metadata, workers, db, channel>>
  PROVE  SharedInv(c)' /\ KnowInv(c)'
<1>1. /\ KnowInv(c)' /\ Plain(c)' /\ Resting(c)' /\ ~Numbering(c)'
      /\ \A p \in Part : leg'[c][p] = "none"
  BY FinishKnow
<1> QED
  BY <1>1, PlainQuiet

\* A search begins with what the master lists and has found nothing.
LEMMA SearchBegins ==
  ASSUME NEW c \in Client, Only(c), NEW w \in NodeScans, StartNodeScan(c, w),
         UNCHANGED mVerts
  PROVE  ScanInv(c)' /\ pc'[c] = w
<1>1. pc'[c] = w
  BY OnlyParts DEF StartNodeScan, LocalType
<1>2. scan'[c] = [list |-> mVerts, todo |-> {p \in Part : mVerts[p] # {}}, found |-> {}]
  BY OnlyParts DEF StartNodeScan, LocalType
<1>3. scan'[c].list = mVerts' /\ scan'[c].found = {}
  BY <1>2
<1>4. \A p \in Part \ scan'[c].todo : mVerts'[p] = {}
  BY <1>2
<1> QED
  BY <1>1, <1>3, <1>4 DEF ScanInv

\* A step that begins a search, once what was found before it is settled.
LEMMA SearchWhole ==
  ASSUME NEW c \in Client, Only(c),
         NEW w \in {"lookA", "lookB", "checkA", "checkB", "confirm"}, StartNodeScan(c, w),
         Plain(c), Resting(c), UNCHANGED sending,
         UNCHANGED <<ids, metadata, workers, db, channel>>, MadeInv(c)', EndsInv(c)'
  PROVE  SharedInv(c)' /\ KnowInv(c)'
<1>1. ScanInv(c)' /\ pc'[c] = w
  BY SearchBegins DEF NodeScans, metadata
<1>2. Plain(c)' /\ ~Numbering(c)' /\ PartInv(c)'
  BY <1>1 DEF Plain, Numbering, Creating, PartInv
<1>3. Resting(c)' /\ \A p \in Part : leg'[c][p] # "no"
  BY OnlyParts DEF Resting, sending
<1> QED
  BY <1>1, <1>2, <1>3, PlainQuiet DEF KnowInv

\* A step that goes on without a search or a message.
LEMMA OnWhole ==
  ASSUME NEW c \in Client, Only(c),
         NEW w \in {"next", "duplicate", "find", "cross", "ghost", "edge"}, pc'[c] = w,
         Plain(c), Resting(c), UNCHANGED sending,
         UNCHANGED <<ids, metadata, workers, db, channel>>,
         MadeInv(c)', EndsInv(c)', PartInv(c)'
  PROVE  SharedInv(c)' /\ KnowInv(c)'
<1>1. Plain(c)' /\ ~Numbering(c)' /\ ScanInv(c)'
  BY DEF Plain, Numbering, Creating, ScanInv, NodeScans
<1>2. Resting(c)' /\ \A p \in Part : leg'[c][p] # "no"
  BY OnlyParts DEF Resting, sending
<1> QED
  BY <1>1, <1>2, PlainQuiet DEF KnowInv

\* A search that is over has found what there is.
LEMMA SearchEnds ==
  ASSUME NEW c \in Client, Only(c), NEW w \in NodeScans, Scanned(c, w)
  PROVE  /\ \A i : i \in scan[c].found <=> i \in Wanted(c) /\ i \in Live
         /\ Resting(c) /\ (w # "exists" => Plain(c))
<1>1. pc[c] = w /\ scan[c].todo = {}
  BY DEF Scanned
<1>2. scan[c].found = {i \in Wanted(c) : \E p \in Part \ scan[c].todo : i \in mVerts[p]}
  BY <1>1, OnlyParts DEF ScanInv
<1>3. Resting(c)
  BY <1>1, OnlyParts, AtRest DEF NodeScans, Calls
<1>4. w # "exists" => Plain(c)
  BY <1>1 DEF NodeScans, Plain
<1> QED
  BY <1>1, <1>2, <1>3, <1>4 DEF Live

\* What a search for a key or for an identifier looks for.
LEMMA WantedIs ==
  ASSUME NEW c \in Client, Only(c)
  PROVE  /\ pc[c] = "exists" =>
              \A i \in Id : i \in Wanted(c) <=> Finds(keyOf[reg[c].id], keyOf[i], i)
         /\ pc[c] = "lookA" =>
              \A i \in Id : i \in Wanted(c) <=> Finds(reg[c].req.a, keyOf[i], i)
         /\ pc[c] = "lookB" =>
              \A i \in Id : i \in Wanted(c) <=> Finds(reg[c].req.b, keyOf[i], i)
         /\ pc[c] \in {"checkA", "confirm"} /\ reg[c].v1 \in Id => Wanted(c) = {reg[c].v1}
         /\ pc[c] = "checkB" /\ reg[c].v2 \in Id => Wanted(c) = {reg[c].v2}
<1>1. \A k, i : i \in ByKey(k) <=> i \in Id /\ Finds(k, keyOf[i], i)
  BY DEF ByKey
<1>2. \A i \in Id : ById(i) = {i}
  BY NoIdFacts DEF ById
<1> QED
  BY <1>1, <1>2 DEF Wanted

\* A vertex whose key can be found is found by it.
LEMMA FindsItself ==
  ASSUME NEW k \in Findable, NEW i
  PROVE  Finds(k, k, i)
  BY DEF Findable, Finds

\* What an assignment to a local variable of a request leaves as it was.
LEMMA RegKeeps ==
  ASSUME NEW r \in Registers, NEW i, NEW P, NEW Q, NEW n
  PROVE  /\ [r EXCEPT !.v1 = i].v1 = i /\ [r EXCEPT !.v1 = i].req = r.req
         /\ [r EXCEPT !.v2 = i].v2 = i /\ [r EXCEPT !.v2 = i].req = r.req
         /\ [r EXCEPT !.v2 = i].v1 = r.v1
         /\ [r EXCEPT !.a = i].a = i /\ [r EXCEPT !.a = i].req = r.req
         /\ [r EXCEPT !.a = i].v1 = r.v1 /\ [r EXCEPT !.a = i].v2 = r.v2
         /\ [r EXCEPT !.b = i].b = i /\ [r EXCEPT !.b = i].req = r.req
         /\ [r EXCEPT !.b = i].v1 = r.v1 /\ [r EXCEPT !.b = i].v2 = r.v2
         /\ [r EXCEPT !.b = i].a = r.a
         /\ [r EXCEPT !.part = P].part = P /\ [r EXCEPT !.part = P].req = r.req
         /\ [r EXCEPT !.part = P].id = r.id /\ [r EXCEPT !.part = P].var = r.var
         /\ [r EXCEPT !.part = P].v1 = r.v1 /\ [r EXCEPT !.part = P].a = r.a
         /\ [r EXCEPT !.part = P].b = r.b
         /\ [r EXCEPT !.var = n, !.id = i].var = n /\ [r EXCEPT !.var = n, !.id = i].id = i
         /\ [r EXCEPT !.var = n, !.id = i].req = r.req
  BY DEF Registers

\* The same, for the choice of a partition and for the lists read.
LEMMA RegKeepsMore ==
  ASSUME NEW r \in Registers, NEW i, NEW P, NEW Q, NEW n
  PROVE  /\ [r EXCEPT !.part = P, !.ghost = i].part = P
         /\ [r EXCEPT !.part = P, !.ghost = i].ghost = i
         /\ [r EXCEPT !.part = P, !.ghost = i].req = r.req
         /\ [r EXCEPT !.part = P, !.ghost = i].v1 = r.v1
         /\ [r EXCEPT !.part = P, !.ghost = i].v2 = r.v2
         /\ [r EXCEPT !.part = P, !.ghost = i].a = r.a
         /\ [r EXCEPT !.part = P, !.ghost = i].b = r.b
         /\ [r EXCEPT !.list = Q, !.num = n].list = Q /\ [r EXCEPT !.list = Q, !.num = n].num = n
         /\ [r EXCEPT !.list = Q, !.num = n].req = r.req
         /\ [r EXCEPT !.list = Q, !.num = n].part = r.part
         /\ [r EXCEPT !.list = Q, !.num = n].id = r.id
         /\ [r EXCEPT !.list = Q, !.num = n].var = r.var
         /\ [r EXCEPT !.home = P, !.list = Q, !.num = n].home = P
         /\ [r EXCEPT !.home = P, !.list = Q, !.num = n].list = Q
         /\ [r EXCEPT !.home = P, !.list = Q, !.num = n].num = n
         /\ [r EXCEPT !.home = P, !.list = Q, !.num = n].req = r.req
         /\ [r EXCEPT !.home = P, !.list = Q, !.num = n].v1 = r.v1
  BY DEF Registers

\* HandleCypher starts a request.
LEMMA BeginWhole ==
  ASSUME NEW c \in Client, Only(c), NEW r \in Request, Begin(c, r)
  PROVE  SharedInv(c)' /\ KnowInv(c)'
<1>1. /\ pc[c] = "idle" /\ reg'[c] = [NoReg EXCEPT !.req = r] /\ UNCHANGED sending
      /\ UNCHANGED <<ids, metadata, workers, db, channel>>
  BY OnlyParts DEF Begin, LocalType
<1>2. reg'[c].req = r /\ reg'[c].var = 0
  BY <1>1 DEF NoReg
<1>3. Plain(c) /\ Resting(c)
  BY <1>1, OnlyParts, AtRest DEF Plain, Calls
<1>4. CASE r.op \in {"AddVertex", "AddEdge"}
  <2>1. pc'[c] = "next"
    BY <1>4, OnlyParts DEF Begin, LocalType
  <2>2. MadeInv(c)' /\ EndsInv(c)' /\ PartInv(c)'
    <3>1. r.op = "AddEdge" => r.a \in Findable /\ r.b \in Findable
      BY DEF Only, Calm
    <3> QED
      BY <1>2, <2>1, <3>1 DEF MadeInv, EndsInv, PartInv, Numbering, Creating
  <2> QED
    BY <1>1, <1>3, <2>1, <2>2, OnWhole
<1>5. CASE r.op \notin {"AddVertex", "AddEdge"}
  <2>1. StartNodeScan(c, "lookA") /\ pc'[c] = "lookA"
    BY <1>5, OnlyParts DEF Begin, LocalType, StartNodeScan
  <2>2. MadeInv(c)' /\ EndsInv(c)'
    BY <1>2, <1>5, <2>1 DEF MadeInv, EndsInv, Numbering, Creating
  <2> QED
    BY <1>1, <1>3, <2>1, <2>2, SearchWhole
<1> QED
  BY <1>4, <1>5

\* The vertices of an edge have all been made sure of.
LEMMA VariablesDoneWhole ==
  ASSUME NEW c \in Client, Only(c), VariablesDone(c)
  PROVE  SharedInv(c)' /\ KnowInv(c)'
<1>1. pc[c] = "next" /\ reg[c].var = Len(Variables(reg[c].req))
  BY DEF VariablesDone
<1>2. Plain(c) /\ Resting(c)
  BY <1>1, OnlyParts, AtRest DEF Plain, Calls
<1>3. UNCHANGED <<ids, metadata, workers, db, channel>>
  BY DEF VariablesDone
<1>4. CASE reg[c].req.op = "AddEdge"
  <2>1. StartNodeScan(c, "lookA") /\ UNCHANGED <<reg, sending>> /\ pc'[c] = "lookA"
    BY <1>4, OnlyParts DEF VariablesDone, LocalType, StartNodeScan
  <2>2. reg[c].var = 2
    BY <1>1, <1>4 DEF Variables
  <2>3. HasKey(reg[c].req.a) /\ HasKey(reg[c].req.b)
    BY <1>1, <1>4, <2>2, OnlyParts DEF MadeInv
  <2>4. MadeInv(c)'
    BY <1>3, <2>1, <2>3, OnlyParts DEF MadeInv, Numbering, Creating, HasKey, Live, metadata, ids
  <2>5. EndsInv(c)'
    BY <2>1 DEF EndsInv
  <2> QED
    BY <1>2, <1>3, <2>1, <2>4, <2>5, SearchWhole
<1>5. CASE reg[c].req.op # "AddEdge"
  BY <1>2, <1>3, <1>5, FinishWhole DEF VariablesDone, Reply
<1> QED
  BY <1>4, <1>5

\* A vertex that was found exists: it is the one asked for.
LEMMA ExistsWhole ==
  ASSUME NEW c \in Client, Only(c), Exists(c)
  PROVE  SharedInv(c)' /\ KnowInv(c)'
<1>1. /\ Scanned(c, "exists") /\ scan[c].found # {} /\ pc'[c] = "next" /\ pc[c] = "exists"
      /\ UNCHANGED <<reg, ids, metadata, workers, db, channel, sending>>
  BY OnlyParts DEF Exists, LocalType, local, Scanned
<1>2. Resting(c) /\ Plain(c) /\ Numbering(c)
  BY <1>1, SearchEnds DEF NodeScans, Plain, Numbering
<1>3. PICK i \in Live : Finds(keyOf[reg[c].id], keyOf[i], i)
  <2>1. PICK i \in scan[c].found : TRUE
    BY <1>1
  <2>2. i \in Live /\ i \in Wanted(c)
    BY <1>1, SearchEnds DEF NodeScans
  <2> QED
    BY <1>1, <2>2, WantedIs, OnlyParts
<1>4. HasKey(Variables(reg[c].req)[reg[c].var]) /\ reg[c].var \in DOMAIN Variables(reg[c].req)
  BY <1>2, <1>3, OnlyParts DEF MadeInv, HasKey
<1>5. MadeInv(c)'
  <2>1. ASSUME reg[c].req.op = "AddEdge"
        PROVE  /\ Variables(reg[c].req) = <<reg[c].req.a, reg[c].req.b>>
               /\ reg[c].var \in {1, 2}
    BY <1>4, <2>1 DEF Variables
  <2>2. reg[c].req.op = "AddEdge" => /\ HasKey(reg[c].req.a)
                                     /\ reg[c].var = 2 => HasKey(reg[c].req.b)
    BY <1>2, <1>4, <2>1, OnlyParts DEF MadeInv
  <2>3. \A k : HasKey(k)' <=> HasKey(k)
    BY <1>1 DEF HasKey, Live, ids, metadata
  <2> QED
    BY <1>1, <2>2, <2>3, OnlyParts DEF MadeInv, Numbering, Creating, HasKey
<1>6. EndsInv(c)' /\ PartInv(c)'
  BY <1>1 DEF EndsInv, PartInv
<1> QED
  BY <1>1, <1>2, <1>5, <1>6, OnWhole

\* A key that some listed vertex has is still one after a step that changes
\* neither lists nor keys.
LEMMA KeyStays ==
  ASSUME UNCHANGED <<ids, metadata>>, NEW k
  PROVE  (\E i \in Live' : Finds(k, keyOf'[i], i)) <=> HasKey(k)
  BY DEF HasKey, Live, ids, metadata

\* Once both ends of an edge have been made sure of, they are there.
LEMMA MadeLater ==
  ASSUME NEW c \in Client, Only(c), UNCHANGED <<ids, metadata>>,
         pc'[c] \notin {"exists", "addVertex", "summary", "next"}, reg'[c].req = reg[c].req,
         \/ pc'[c] \notin {"lookA", "lookB"}
         \/ reg[c].req.op = "AddEdge" => HasKey(reg[c].req.a) /\ HasKey(reg[c].req.b)
  PROVE  MadeInv(c)'
<1>1. ~Numbering(c)'
  BY DEF Numbering, Creating
<1>2. \A k : (\E i \in Live' : Finds(k, keyOf'[i], i)) <=> HasKey(k)
  BY KeyStays
<1> QED
  BY <1>1, <1>2, OnlyParts DEF MadeInv, HasKey

\* The first end point is found, or the vertex to be deleted is, if there is
\* one; an edge is created between vertices that exist.
LEMMA LookedAWhole ==
  ASSUME NEW c \in Client, Only(c), LookedA(c)
  PROVE  SharedInv(c)' /\ KnowInv(c)'
<1>1. /\ Scanned(c, "lookA") /\ pc[c] = "lookA" /\ Resting(c) /\ Plain(c)
      /\ UNCHANGED <<ids, metadata, workers, db, channel>>
      /\ \A i : i \in scan[c].found <=> i \in Wanted(c) /\ i \in Live
  BY SearchEnds DEF LookedA, Scanned, NodeScans
<1>2. CASE scan[c].found = {} /\ reg[c].req.op # "AddEdge"
  BY <1>1, <1>2, FinishWhole DEF LookedA, Reply
<1>3. CASE ~(scan[c].found = {} /\ reg[c].req.op # "AddEdge")
  <2>1. reg[c].req.op = "AddEdge" => HasKey(reg[c].req.a) /\ HasKey(reg[c].req.b)
    BY <1>1, OnlyParts DEF MadeInv
  <2>2. scan[c].found # {}
    BY <1>1, <1>3, <2>1, WantedIs, OnlyParts DEF HasKey
  <2>3. PICK i \in scan[c].found : reg' = [reg EXCEPT ![c].v1 = i]
    BY <1>3, <2>2 DEF LookedA, OneOf
  <2>4. i \in Live
    BY <1>1
  <2>5. reg'[c].v1 = i /\ reg'[c].req = reg[c].req
    <3>1. reg'[c] = [reg[c] EXCEPT !.v1 = i]
      BY <2>3, OnlyParts DEF LocalType
    <3> QED
      BY <3>1, RegKeeps, OnlyParts
  <2> DEFINE w == IF reg[c].req.op = "DeleteVertex" THEN "confirm" ELSE "lookB"
  <2>6. StartNodeScan(c, w) /\ UNCHANGED sending /\ w \in {"confirm", "lookB"}
    BY <1>3 DEF LookedA
  <2> HIDE DEF w
  <2>7. pc'[c] = w
    BY <2>6, OnlyParts DEF StartNodeScan, LocalType
  <2>8. MadeInv(c)'
    BY <1>1, <2>1, <2>5, <2>6, <2>7, MadeLater
  <2>9. EndsInv(c)'
    BY <1>1, <2>4, <2>5, <2>6, <2>7 DEF EndsInv, Live, metadata
  <2> QED
    BY <1>1, <2>6, <2>8, <2>9, SearchWhole
<1> QED
  BY <1>2, <1>3

\* So is the second.
LEMMA LookedBWhole ==
  ASSUME NEW c \in Client, Only(c), LookedB(c)
  PROVE  SharedInv(c)' /\ KnowInv(c)'
<1>1. /\ Scanned(c, "lookB") /\ pc[c] = "lookB" /\ Resting(c) /\ Plain(c)
      /\ UNCHANGED <<ids, metadata, workers, db, channel>>
      /\ \A i : i \in scan[c].found <=> i \in Wanted(c) /\ i \in Live
  BY SearchEnds DEF LookedB, Scanned, NodeScans
<1>2. CASE scan[c].found = {} /\ reg[c].req.op # "AddEdge"
  BY <1>1, <1>2, FinishWhole DEF LookedB, Reply
<1>3. CASE ~(scan[c].found = {} /\ reg[c].req.op # "AddEdge")
  <2>1. reg[c].req.op = "AddEdge" => HasKey(reg[c].req.b)
    BY <1>1, OnlyParts DEF MadeInv
  <2>2. scan[c].found # {}
    BY <1>1, <1>3, <2>1, WantedIs, OnlyParts DEF HasKey
  <2>3. PICK i \in scan[c].found : reg' = [reg EXCEPT ![c].v2 = i]
    BY <1>3, <2>2 DEF LookedB, OneOf
  <2>4. i \in Live /\ reg[c].v1 \in Live
    BY <1>1, OnlyParts DEF EndsInv
  <2>5. reg'[c].v2 = i /\ reg'[c].v1 = reg[c].v1 /\ reg'[c].req = reg[c].req
    <3>1. reg'[c] = [reg[c] EXCEPT !.v2 = i]
      BY <2>3, OnlyParts DEF LocalType
    <3> QED
      BY <3>1, RegKeeps, OnlyParts
  <2>6. StartNodeScan(c, "checkA") /\ UNCHANGED sending
    BY <1>3 DEF LookedB
  <2>7. pc'[c] = "checkA"
    BY <2>6, OnlyParts DEF StartNodeScan, LocalType
  <2>8. MadeInv(c)'
    BY <1>1, <2>5, <2>7, MadeLater
  <2>9. EndsInv(c)'
    BY <1>1, <2>4, <2>5, <2>7 DEF EndsInv, Live, metadata
  <2> QED
    BY <1>1, <2>6, <2>8, <2>9, SearchWhole
<1> QED
  BY <1>2, <1>3

\* checkVertexExistence finds the first end again, as itself.
LEMMA CheckedAWhole ==
  ASSUME NEW c \in Client, Only(c), CheckedA(c)
  PROVE  SharedInv(c)' /\ KnowInv(c)'
<1>1. /\ Scanned(c, "checkA") /\ pc[c] = "checkA" /\ Resting(c) /\ Plain(c)
      /\ UNCHANGED <<ids, metadata, workers, db, channel>>
      /\ \A i : i \in scan[c].found <=> i \in Wanted(c) /\ i \in Live
  BY SearchEnds DEF CheckedA, Scanned, NodeScans
<1>2. reg[c].v1 \in Live /\ reg[c].v2 \in Live
  BY <1>1, OnlyParts DEF EndsInv
<1>3. scan[c].found = {reg[c].v1}
  BY <1>1, <1>2, WantedIs, OnlyParts
<1>4. reg' = [reg EXCEPT ![c].a = reg[c].v1]
  BY <1>3 DEF CheckedA, OneOf
<1>5. /\ reg'[c].a = reg[c].v1 /\ reg'[c].v1 = reg[c].v1 /\ reg'[c].v2 = reg[c].v2
      /\ reg'[c].req = reg[c].req
  <2>1. reg'[c] = [reg[c] EXCEPT !.a = reg[c].v1]
    BY <1>4, OnlyParts DEF LocalType
  <2> QED
    BY <2>1, RegKeeps, OnlyParts
<1>6. StartNodeScan(c, "checkB") /\ UNCHANGED sending
  BY <1>3 DEF CheckedA
<1>7. pc'[c] = "checkB"
  BY <1>6, OnlyParts DEF StartNodeScan, LocalType
<1>8. MadeInv(c)'
  BY <1>1, <1>5, <1>7, MadeLater
<1>9. EndsInv(c)'
  BY <1>1, <1>2, <1>5, <1>7 DEF EndsInv, Live, metadata
<1> QED
  BY <1>1, <1>6, <1>8, <1>9, SearchWhole

\* And the second.
LEMMA CheckedBWhole ==
  ASSUME NEW c \in Client, Only(c), CheckedB(c)
  PROVE  SharedInv(c)' /\ KnowInv(c)'
<1>1. /\ Scanned(c, "checkB") /\ pc[c] = "checkB" /\ Resting(c) /\ Plain(c)
      /\ UNCHANGED <<ids, metadata, workers, db, channel>>
      /\ \A i : i \in scan[c].found <=> i \in Wanted(c) /\ i \in Live
  BY SearchEnds DEF CheckedB, Scanned, NodeScans
<1>2. reg[c].v1 \in Live /\ reg[c].v2 \in Live /\ reg[c].a = reg[c].v1
  BY <1>1, OnlyParts DEF EndsInv
<1>3. scan[c].found = {reg[c].v2} /\ reg[c].a # NoId
  BY <1>1, <1>2, WantedIs, OnlyParts, NoIdFacts
<1>4. reg' = [reg EXCEPT ![c].b = reg[c].v2]
  BY <1>3 DEF CheckedB
<1>5. /\ reg'[c].b = reg[c].v2 /\ reg'[c].a = reg[c].a
      /\ reg'[c].v1 = reg[c].v1 /\ reg'[c].v2 = reg[c].v2 /\ reg'[c].req = reg[c].req
  <2>1. reg'[c] = [reg[c] EXCEPT !.b = reg[c].v2]
    BY <1>4, OnlyParts DEF LocalType
  <2> QED
    BY <2>1, RegKeeps, OnlyParts
<1>6. pc'[c] \in {"duplicate", "find"} /\ UNCHANGED sending
  BY <1>3, OnlyParts DEF CheckedB, StartEdgeScan, LocalType
<1>7. MadeInv(c)'
  BY <1>1, <1>5, <1>6, MadeLater
<1>8. EndsInv(c)' /\ PartInv(c)'
  BY <1>1, <1>2, <1>5, <1>6 DEF EndsInv, PartInv, Live, metadata
<1> QED
  BY <1>1, <1>6, <1>7, <1>8, OnWhole

\* A vertex has one home, and is no ghost there.
LEMMA Homes ==
  ASSUME NEW c \in Client, Only(c), NEW p \in Part, NEW i \in mVerts[p]
  PROVE  i \in Id /\ i \notin mGhosts[p] /\ \A q \in Part : i \in mVerts[q] => q = p
<1>1. IInv /\ i \in Id
  BY OnlyParts DEF Only, GlobalType
<1>2. Owns(p, i) /\ \A q \in Part : i \in mVerts[q] => Owns(q, i)
  BY DEF Owns, Holds
<1>3. i \notin mGhosts[p]
  BY <1>1, <1>2 DEF IInv, GhostInv
<1>4. \A q \in Part : Owns(q, i) => q = p
  BY <1>1, <1>2 DEF IInv, HomeInv
<1> QED
  BY <1>1, <1>2, <1>3, <1>4

\* The edge goes to the home of its source, and the target is what may have
\* to become a ghost: neither end is one at home.
LEMMA PlanWhole ==
  ASSUME NEW c \in Client, Only(c), Plan(c)
  PROVE  SharedInv(c)' /\ KnowInv(c)'
<1>1. /\ Scanned(c, "duplicate") /\ pc[c] = "duplicate"
      /\ UNCHANGED <<ids, metadata, workers, db, channel>>
  BY DEF Plan, Scanned
<1>2. Resting(c) /\ Plain(c)
  BY <1>1, OnlyParts, AtRest DEF Plain, Calls
<1>3. CASE Finish(c, "error")
  BY <1>1, <1>2, <1>3, FinishWhole DEF Reply
<1>4. CASE ~Finish(c, "error")
  <2>1. /\ reg[c].v1 \in Live /\ reg[c].v2 \in Live
        /\ reg[c].a = reg[c].v1 /\ reg[c].b = reg[c].v2
    BY <1>1, OnlyParts DEF EndsInv
  <2> DEFINE g1(x) == reg[c].v1 \in mGhosts[x]
             g2(x) == reg[c].v2 \in mGhosts[x]
  <2>2. PICK p1 \in Home(reg[c].a), p2 \in Home(reg[c].b) :
          /\ reg' = [reg EXCEPT ![c].part = {IF p1 # p2 /\ g1(p1) THEN p2 ELSE p1},
                                ![c].ghost = IF g1(p1) THEN reg[c].v1 ELSE reg[c].v2]
          /\ pc' = [pc EXCEPT ![c] = IF p1 = p2 THEN "edge" ELSE "cross"]
          /\ UNCHANGED <<scan, sending, reply>>
    BY <1>4 DEF Plan
  <2>3. /\ p1 \in Part /\ p2 \in Part
        /\ reg[c].v1 \in mVerts[p1] /\ reg[c].v2 \in mVerts[p2]
    BY <2>1 DEF Home
  <2>4. ~g1(p1)
    BY <2>3, Homes
  <2>5. /\ reg' = [reg EXCEPT ![c].part = {p1}, ![c].ghost = reg[c].v2]
        /\ pc' = [pc EXCEPT ![c] = IF p1 = p2 THEN "edge" ELSE "cross"] /\ UNCHANGED sending
    BY <2>2, <2>4
  <2>6. /\ pc'[c] = (IF p1 = p2 THEN "edge" ELSE "cross")
        /\ reg'[c] = [reg[c] EXCEPT !.part = {p1}, !.ghost = reg[c].v2]
    BY <2>5, OnlyParts DEF LocalType
  <2>7. /\ reg'[c].part = {p1} /\ reg'[c].ghost = reg[c].v2 /\ reg'[c].req = reg[c].req
        /\ reg'[c].v1 = reg[c].v1 /\ reg'[c].v2 = reg[c].v2
        /\ reg'[c].a = reg[c].a /\ reg'[c].b = reg[c].b
    BY <2>6, RegKeepsMore, OnlyParts
  <2>8. MadeInv(c)'
    BY <1>1, <2>6, <2>7, MadeLater
  <2>9. EndsInv(c)'
    BY <1>1, <2>1, <2>6, <2>7 DEF EndsInv, Live, metadata
  <2>10. PartInv(c)'
    BY <1>1, <2>3, <2>6, <2>7 DEF PartInv, metadata
  <2> QED
    BY <1>1, <1>2, <2>5, <2>6, <2>8, <2>9, <2>10, OnWhole
<1> QED
  BY <1>3, <1>4

\* A target that is known where the edge goes needs no ghost.
LEMMA NeedGhostWhole ==
  ASSUME NEW c \in Client, Only(c), NeedGhost(c)
  PROVE  SharedInv(c)' /\ KnowInv(c)'
<1>1. /\ pc[c] = "cross" /\ UNCHANGED <<reg, sending, ids, metadata, workers, db, channel>>
  BY DEF NeedGhost, local
<1>2. Resting(c) /\ Plain(c)
  BY <1>1, OnlyParts, AtRest DEF Plain, Calls
<1>3. PICK p \in reg[c].part :
        pc' = [pc EXCEPT ![c] = IF reg[c].ghost \in mGhosts[p] \cup mVerts[p]
                                THEN "edge" ELSE "ghost"]
  BY DEF NeedGhost
<1>4. pc'[c] = IF reg[c].ghost \in mGhosts[p] \cup mVerts[p] THEN "edge" ELSE "ghost"
  BY <1>3, OnlyParts DEF LocalType
<1>5. /\ p \in Part /\ reg[c].part = {p} /\ reg[c].v1 \in mVerts[p] /\ reg[c].ghost = reg[c].v2
  BY <1>1, <1>3, OnlyParts DEF PartInv
<1>6. MadeInv(c)'
  BY <1>1, <1>4, MadeLater
<1>7. EndsInv(c)'
  BY <1>1, <1>4, OnlyParts DEF EndsInv, Live, metadata
<1>8. PartInv(c)'
  BY <1>1, <1>4, <1>5 DEF PartInv, metadata
<1> QED
  BY <1>1, <1>2, <1>4, <1>6, <1>7, <1>8, OnWhole

\* The ghost is there before the edge.
LEMMA GhostAddedWhole ==
  ASSUME NEW c \in Client, Only(c), GhostAdded(c)
  PROVE  SharedInv(c)' /\ KnowInv(c)'
<1>1. /\ pc[c] = "addGhost" /\ Resting(c) /\ Agreed(c)
      /\ UNCHANGED <<reg, sending, ids, metadata, workers, db, channel>>
      /\ pc' = [pc EXCEPT ![c] = "edge"]
  BY OnlyParts, SettledRests DEF GhostAdded, Settled, Agreed, local
<1>2. pc'[c] = "edge" /\ Plain(c)
  BY <1>1, OnlyParts DEF LocalType, Plain
<1>3. MadeInv(c)'
  BY <1>1, <1>2, MadeLater
<1>4. EndsInv(c)' /\ PartInv(c)'
  BY <1>1, <1>2, OnlyParts DEF EndsInv, PartInv, Live, metadata
<1> QED
  BY <1>1, <1>2, <1>3, <1>4, OnWhole

\* The last answer of a CREATE with a relationship.
LEMMA EdgeAddedWhole ==
  ASSUME NEW c \in Client, Only(c), EdgeAdded(c)
  PROVE  SharedInv(c)' /\ KnowInv(c)'
<1>1. /\ pc[c] = "addEdge" /\ Resting(c) /\ UNCHANGED <<ids, metadata, workers, db, channel>>
      /\ Finish(c, IF Agreed(c) THEN "create" ELSE "error")
  BY SettledRests DEF EdgeAdded, Settled
<1>2. Plain(c)
  BY <1>1 DEF Plain
<1> QED
  BY <1>1, <1>2, FinishWhole DEF Reply

\* All workers have the new vertex: its list is read, nothing else happens.
LEMMA VertexAddedWhole ==
  ASSUME NEW c \in Client, Only(c), VertexAdded(c)
  PROVE  SharedInv(c)' /\ KnowInv(c)'
<1>1. /\ pc[c] = "addVertex" /\ Resting(c) /\ Agreed(c)
      /\ UNCHANGED <<sending, ids, metadata, workers, db, channel>>
  BY OnlyParts, SettledRests DEF VertexAdded, Settled, Agreed
<1>2. PICK p \in reg[c].part :
        reg' = [reg EXCEPT ![c].list = mVerts[p], ![c].num = numVertices]
  BY <1>1 DEF VertexAdded
<1>3. reg[c].part = {p} /\ p \in Part
  BY <1>1, <1>2, OnlyParts DEF CallInv
<1>4. pc'[c] = "summary"
  BY <1>1, OnlyParts DEF VertexAdded, LocalType
<1>5. /\ reg'[c].list = mVerts[p] /\ reg'[c].num = numVertices /\ reg'[c].part = reg[c].part
      /\ reg'[c].id = reg[c].id /\ reg'[c].var = reg[c].var /\ reg'[c].req = reg[c].req
  <2>1. reg'[c] = [reg[c] EXCEPT !.list = mVerts[p], !.num = numVertices]
    BY <1>2, OnlyParts DEF LocalType
  <2> QED
    BY <2>1, RegKeepsMore, OnlyParts
<1>6. /\ Gone(c)' = Gone(c) /\ \A q \in Part : Born(c, q)' = Born(c, q) /\ Cut(c, q)' = Cut(c, q)
      /\ Creating(c) /\ Numbering(c)
  BY <1>1, <1>4, <1>5 DEF Gone, Born, Cut, Creating, Numbering
<1>7. SharedInv(c)'
  <2>1. Resting(c)' /\ \A q \in Part : leg'[c][q] # "no"
    BY <1>1, OnlyParts DEF Resting, sending
  <2> QED
    BY <1>1, <1>5, <1>6, <2>1, Quiet
<1>8. MadeInv(c)'
  <2>1. \A k : (\E i \in Live' : Finds(k, keyOf'[i], i)) <=> HasKey(k)
    BY <1>1, KeyStays
  <2>2. /\ reg'[c].var \in DOMAIN Variables(reg'[c].req)
        /\ keyOf'[reg'[c].id] = Variables(reg'[c].req)[reg'[c].var]
    BY <1>1, <1>5, <1>6, OnlyParts DEF MadeInv, ids
  <2>3. reg'[c].req.op = "AddEdge" /\ reg'[c].var = 2 => HasKey(reg'[c].req.a)
    BY <1>5, <1>6, OnlyParts DEF MadeInv
  <2> QED
    BY <1>4, <1>5, <2>1, <2>2, <2>3, OnlyParts DEF MadeInv, HasKey
<1>9. PartInv(c)'
  BY <1>1, <1>3, <1>4, <1>5 DEF PartInv, metadata
<1>10. ScanInv(c)' /\ EndsInv(c)'
  BY <1>4 DEF ScanInv, EndsInv, NodeScans
<1> QED
  BY <1>7, <1>8, <1>9, <1>10 DEF KnowInv

\* No store has the vertex any more: the list of its home is read.
LEMMA VertexDeletedWhole ==
  ASSUME NEW c \in Client, Only(c), VertexDeleted(c)
  PROVE  SharedInv(c)' /\ KnowInv(c)'
<1>1. /\ pc[c] = "delVertex" /\ Resting(c) /\ Agreed(c) /\ reg[c].v1 \in Live
      /\ UNCHANGED <<ids, metadata, workers, db, channel>>
  BY OnlyParts, SettledRests DEF VertexDeleted, Settled, Agreed, EndsInv
<1>2. Home(reg[c].v1) # {}
  BY <1>1 DEF Home, Live
<1>3. PICK p \in Home(reg[c].v1) :
        /\ reg' = [reg EXCEPT ![c].home = {p}, ![c].list = mVerts[p], ![c].num = numVertices]
        /\ pc' = [pc EXCEPT ![c] = "forget"] /\ UNCHANGED sending
  BY <1>1, <1>2 DEF VertexDeleted
<1>4. p \in Part /\ reg[c].v1 \in mVerts[p] /\ pc'[c] = "forget"
  BY <1>3, OnlyParts DEF Home, LocalType
<1>5. /\ reg'[c].home = {p} /\ reg'[c].list = mVerts[p] /\ reg'[c].num = numVertices
      /\ reg'[c].v1 = reg[c].v1 /\ reg'[c].req = reg[c].req
  <2>1. reg'[c] = [reg[c] EXCEPT !.home = {p}, !.list = mVerts[p], !.num = numVertices]
    BY <1>3, OnlyParts DEF LocalType
  <2> QED
    BY <2>1, RegKeepsMore, OnlyParts
<1>6. /\ Gone(c)' = Gone(c) /\ \A q \in Part : Born(c, q)' = Born(c, q) /\ Cut(c, q)' = Cut(c, q)
      /\ ~Numbering(c)' /\ ~Creating(c)'
  BY <1>1, <1>4, <1>5 DEF Gone, Born, Cut, Creating, Numbering
<1>7. SharedInv(c)'
  <2>1. Resting(c)' /\ \A q \in Part : leg'[c][q] # "no"
    BY <1>1, <1>3, OnlyParts DEF Resting, sending
  <2> QED
    BY <1>1, <1>5, <1>6, <2>1, Quiet
<1>8. MadeInv(c)'
  BY <1>1, <1>4, <1>5, MadeLater
<1>9. PartInv(c)'
  BY <1>1, <1>4, <1>5 DEF PartInv, metadata
<1>10. ScanInv(c)' /\ EndsInv(c)'
  BY <1>1, <1>4, <1>5 DEF ScanInv, EndsInv, NodeScans, Live, metadata
<1> QED
  BY <1>7, <1>8, <1>9, <1>10 DEF KnowInv

\* A number is given out that nothing has yet, and the key comes with it.
LEMMA NextVariableWhole ==
  ASSUME NEW c \in Client, Only(c), NextVariable(c)
  PROVE  SharedInv(c)' /\ KnowInv(c)'
<1>1. /\ pc[c] = "next" /\ StartNodeScan(c, "exists") /\ counter' = counter + 1
      /\ UNCHANGED <<metadata, workers, db, sending, channel>>
  BY DEF NextVariable, history
<1>2. Resting(c) /\ Plain(c) /\ ~Numbering(c)
  BY <1>1, OnlyParts, AtRest DEF Plain, Calls, Numbering, Creating
<1>3. ScanInv(c)' /\ pc'[c] = "exists"
  BY <1>1, SearchBegins DEF NodeScans, metadata
<1>4. /\ reg[c] \in Registers /\ reg[c].var \in 0 .. 2 /\ counter \in 0 .. MaxId
      /\ counter < MaxId
      /\ DOMAIN Variables(reg[c].req) \subseteq 1 .. 2
  BY OnlyParts, RegGet, VariablesFacts DEF GlobalType, NextVariable
<1>5. PICK n \in 0 .. 2 : n = reg[c].var + 1 /\ n \in DOMAIN Variables(reg[c].req)
  BY <1>4 DEF NextVariable
<1>6. PICK j \in Id : counter' = j /\ j = counter + 1 /\ j \notin 0 .. counter
                      /\ 0 .. j = 0 .. counter \cup {j}
  <2>1. counter \in Int /\ counter >= 0 /\ MaxId \in Int /\ counter < MaxId
    BY <1>4, NoIdFacts
  <2>2. counter + 1 \in Id /\ counter + 1 \notin 0 .. counter
    BY <2>1 DEF Id
  <2>3. 0 .. (counter + 1) = 0 .. counter \cup {counter + 1}
    BY <2>1
  <2> QED
    BY <1>1, <2>2, <2>3
<1>7. reg'[c].var = n /\ reg'[c].id = j /\ reg'[c].req = reg[c].req
  <2>1. reg' = [reg EXCEPT ![c].var = n, ![c].id = j]
    BY <1>5, <1>6 DEF NextVariable
  <2>2. reg'[c] = [reg[c] EXCEPT !.var = n, !.id = j]
    BY <2>1, OnlyParts DEF LocalType
  <2> QED
    BY <2>2, RegKeeps, OnlyParts
<1>8. keyOf'[j] = Variables(reg[c].req)[n]
         /\ \A i \in 0 .. counter : i \in Id => keyOf'[i] = keyOf[i]
  <2>1. keyOf' = [keyOf EXCEPT ![j] = Variables(reg[c].req)[n]]
    BY <1>5, <1>6 DEF NextVariable
  <2> QED
    BY <1>6, <2>1, OnlyParts DEF GlobalType
<1>9. Known(c) = 0 .. counter /\ Numbering(c)' /\ ~Creating(c)' /\ Known(c)' = 0 .. counter
  BY <1>2, <1>3, <1>6, <1>7 DEF Known, Numbering, Creating
<1>10. Live' = Live /\ \A i \in Live : i \in Id /\ keyOf'[i] = keyOf[i]
  <2>1. Live \subseteq 0 .. counter
    BY <1>9, OnlyParts DEF Live, NumbersInv
  <2> QED
    BY <1>1, <1>8, <2>1, OnlyParts DEF Live, metadata
<1>11. Resting(c)' /\ Plain(c)' /\ \A p \in Part : leg'[c][p] # "no"
  BY <1>1, <1>2, <1>3, OnlyParts DEF Resting, sending, Plain
<1>12. SyncInv(c)'
  <2>1. \A p \in Part : Goal(c, p)' = Goal(c, p)
    BY <1>1, <1>2, <1>11, PlainMeans, PlainNext, GoalSame
  <2> QED
    BY <1>1, <1>2, <1>11, <2>1, RestNext DEF workers
<1>13. CountInv' /\ CalmInv(c)'
  BY <1>1, <1>10, <1>11, OnlyParts DEF CountInv, CalmInv, metadata, workers, channel
<1>14. NumbersInv(c)'
  BY <1>1, <1>6, <1>7, <1>9, OnlyParts DEF NumbersInv, metadata
<1>15. KeysInv(c)'
  BY <1>9, <1>10, OnlyParts DEF KeysInv
<1>16. MadeInv(c)'
  <2>1. \A k : HasKey(k) => \E i \in Live' : Finds(k, keyOf'[i], i)
    BY <1>10 DEF HasKey
  <2>2. reg[c].req.op = "AddEdge" /\ n = 2 => HasKey(reg[c].req.a)
    BY <1>1, <1>4, <1>5, OnlyParts DEF MadeInv
  <2>3. reg'[c].var \in DOMAIN Variables(reg'[c].req)
    BY <1>5, <1>7
  <2>4. keyOf'[reg'[c].id] = Variables(reg'[c].req)[reg'[c].var]
    BY <1>7, <1>8
  <2> QED
    BY <1>3, <1>7, <2>1, <2>2, <2>3, <2>4, OnlyParts DEF MadeInv, HasKey
<1>17. EndsInv(c)' /\ PartInv(c)'
  BY <1>3 DEF EndsInv, PartInv
<1> QED
  BY <1>3, <1>12, <1>13, <1>14, <1>15, <1>16, <1>17 DEF SharedInv, KnowInv

\* A worker is asked: what its Neo4j has is what the master lists.
LEMMA AskWhole ==
  ASSUME NEW c \in Client, Only(c), NEW p \in Part, Ask(c, p)
  PROVE  SharedInv(c)' /\ KnowInv(c)'
<1>1. /\ pc[c] \in Scans /\ UNCHANGED <<pc, reg, sending, ids, metadata, workers, db, channel>>
  BY DEF Ask
<1>2. Resting(c) /\ Resting(c)' /\ Plain(c) /\ \A q \in Part : leg'[c][q] # "no"
  BY <1>1, OnlyParts, AtRest DEF Scans, Calls, Plain, Resting, sending
<1>3. /\ Gone(c)' = Gone(c) /\ \A q \in Part : Born(c, q)' = Born(c, q) /\ Cut(c, q)' = Cut(c, q)
      /\ Creating(c)' = Creating(c) /\ Numbering(c)' = Numbering(c)
  BY <1>1 DEF Gone, Born, Cut, Creating, Numbering, Link
<1>4. SharedInv(c)'
  BY <1>1, <1>2, <1>3, Quiet
<1>5. MadeInv(c)' /\ EndsInv(c)' /\ PartInv(c)'
  <2>1. MadeInv(c)'
    <3>1. \A k : (\E i \in Live' : Finds(k, keyOf'[i], i)) <=> HasKey(k)
      BY <1>1, KeyStays
    <3> QED
      BY <1>1, <1>3, <3>1, OnlyParts DEF MadeInv, HasKey, ids
  <2> QED
    BY <1>1, <2>1, OnlyParts DEF EndsInv, PartInv, Live, metadata
<1>6. ScanInv(c)'
  <2>1. CASE pc[c] \in NodeScans
    <3>1. scan[c].list = mVerts /\ db[p].verts = mVerts[p] /\ up[p]
      <4>1. db[p] = Goal(c, p)
        BY <1>2, RestSync
      <4>2. Goal(c, p).verts = (mVerts[p] \ Gone(c)) \cup Born(c, p)
        BY DEF Goal, StoreOf
      <4> QED
        BY <1>2, <2>1, <4>1, <4>2, PlainMeans, OnlyParts DEF ScanInv, CalmInv
    <3>2. Found(c, p) = mVerts[p] \cap Wanted(c)
      BY <2>1, <3>1 DEF Found, NodeScans
    <3>3. scan'[c] = [scan[c] EXCEPT !.todo = @ \ {p}, !.found = @ \cup Found(c, p)]
      BY <2>1, <3>1, OnlyParts DEF Ask, LocalType, NodeScans
    <3>4. /\ scan'[c].todo = scan[c].todo \ {p} /\ scan'[c].list = scan[c].list
          /\ scan'[c].found = scan[c].found \cup (mVerts[p] \cap Wanted(c))
      BY <3>2, <3>3, OnlyParts DEF ScanState
    <3>5. scan[c].found = {i \in Wanted(c) : \E q \in Part \ scan[c].todo : i \in mVerts[q]}
      BY <2>1, OnlyParts DEF ScanInv
    <3>6. Wanted(c)' = Wanted(c) /\ mVerts' = mVerts
      BY <1>1 DEF Wanted, ByKey, ById, ids, metadata
    <3>7. scan'[c].found =
            {i \in Wanted(c) : \E q \in Part \ scan'[c].todo : i \in mVerts[q]}
      BY <3>4, <3>5
    <3> QED
      BY <3>1, <3>4, <3>6, <3>7 DEF ScanInv
  <2>2. CASE pc[c] \notin NodeScans
    BY <1>1, <2>2 DEF ScanInv
  <2> QED
    BY <2>1, <2>2
<1> QED
  BY <1>4, <1>5, <1>6 DEF KnowInv

----------------------------------------------------------------------------
(* Messages.                                                               *)

\* A step of which the request knows nothing, and the metadata neither.
LEMMA Unnoticed ==
  ASSUME NEW c \in Client, Only(c), UNCHANGED <<ids, metadata, pc, local>>
  PROVE  /\ KnowInv(c)' /\ CountInv' /\ NumbersInv(c)' /\ KeysInv(c)'
         /\ \A p \in Part : Goal(c, p)' = Goal(c, p)
<1>1. Live' = Live /\ Numbering(c)' = Numbering(c) /\ Creating(c)' = Creating(c)
  BY DEF Live, Numbering, Creating, metadata, local
<1>2. MadeInv(c)'
  <2>1. \A k : (\E i \in Live' : Finds(k, keyOf'[i], i)) <=> HasKey(k)
    BY KeyStays
  <2> QED
    BY <1>1, <2>1, OnlyParts DEF MadeInv, HasKey, ids, local
<1>3. Wanted(c)' = Wanted(c)
  BY DEF Wanted, ByKey, ById, ids, local
<1>4. ScanInv(c)'
  BY <1>3, OnlyParts DEF ScanInv, local, metadata
<1>5. EndsInv(c)' /\ PartInv(c)'
  BY <1>1, OnlyParts DEF EndsInv, PartInv, local, metadata
<1>6. CountInv'
  BY <1>1, OnlyParts DEF CountInv, metadata
<1>7. Known(c)' = Known(c)
  BY <1>1 DEF Known, ids, local
<1>8. NumbersInv(c)'
  BY <1>1, <1>7, OnlyParts DEF NumbersInv, ids, local, metadata
<1>9. KeysInv(c)'
  BY <1>1, OnlyParts DEF KeysInv, HasKey, ids, local
<1>10. ASSUME NEW p \in Part PROVE Goal(c, p)' = Goal(c, p)
  <2>1. Gone(c)' = Gone(c) /\ Born(c, p)' = Born(c, p) /\ Cut(c, p)' = Cut(c, p)
    BY DEF Gone, Born, Cut, Creating, Link, local
  <2> QED
    BY <2>1, GoalSame
<1> QED
  BY <1>2, <1>4, <1>5, <1>6, <1>8, <1>9, <1>10 DEF KnowInv

\* A worker stores what it was sent: its memory is as it is to be.
LEMMA DeliverWhole ==
  ASSUME NEW c \in Client, Only(c), NEW p \in Part, Deliver(c, p)
  PROVE  SharedInv(c)' /\ KnowInv(c)'
<1>1. /\ leg[c][p] = "sent" /\ leg' = [leg EXCEPT ![c][p] = "stored"]
      /\ mem' = [mem EXCEPT ![p] = Stored(mem[p], msg[c])]
      /\ UNCHANGED <<ids, metadata, up, db, pc, local, msg, channel>>
  BY DEF Deliver
<1>2. /\ KnowInv(c)' /\ CountInv' /\ NumbersInv(c)' /\ KeysInv(c)'
      /\ \A q \in Part : Goal(c, q)' = Goal(c, q)
  BY <1>1, Unnoticed
<1>3. leg'[c][p] = "stored" /\ \A q \in Part \ {p} : leg'[c][q] = leg[c][q]
  BY <1>1, OnlyParts DEF LocalType
<1>4. mem'[p] = Stored(mem[p], msg[c]) /\ \A q \in Part \ {p} : mem'[q] = mem[q]
  BY <1>1, OnlyParts DEF GlobalType
<1>5. CalmInv(c)'
  BY <1>1, <1>3, OnlyParts DEF CalmInv, channel
<1>6. SyncInv(c)'
  <2>1. /\ mem'[p] = Goal(c, p) /\ Executed(db[p], msg[c]) = Goal(c, p)
        /\ db[p].verts \subseteq mVerts[p]
    BY <1>1, <1>4, OnlyParts DEF SyncInv, Underway
  <2> QED
    BY <1>1, <1>2, <1>3, <1>4, <2>1, OnlyParts DEF SyncInv, Underway, metadata
<1> QED
  BY <1>2, <1>5, <1>6 DEF SharedInv

\* Its Neo4j runs the query: it is as it is to be as well.
LEMMA RunQueryWhole ==
  ASSUME NEW c \in Client, Only(c), NEW p \in Part, RunQuery(c, p)
  PROVE  SharedInv(c)' /\ KnowInv(c)'
<1>1. /\ leg[c][p] = "stored" /\ leg' = [leg EXCEPT ![c][p] = "ack"]
      /\ db' = [db EXCEPT ![p] = Executed(db[p], msg[c])]
      /\ UNCHANGED <<ids, metadata, workers, pc, local, msg, channel>>
  BY DEF RunQuery
<1>2. /\ KnowInv(c)' /\ CountInv' /\ NumbersInv(c)' /\ KeysInv(c)'
      /\ \A q \in Part : Goal(c, q)' = Goal(c, q)
  BY <1>1, Unnoticed
<1>3. leg'[c][p] = "ack" /\ \A q \in Part \ {p} : leg'[c][q] = leg[c][q]
  BY <1>1, OnlyParts DEF LocalType
<1>4. db'[p] = Executed(db[p], msg[c]) /\ \A q \in Part \ {p} : db'[q] = db[q]
  BY <1>1, OnlyParts DEF GlobalType
<1>5. CalmInv(c)'
  BY <1>1, <1>3, OnlyParts DEF CalmInv, channel, workers
<1>6. SyncInv(c)'
  <2>1. mem[p] = Goal(c, p) /\ db'[p] = Goal(c, p)
    BY <1>1, <1>4, OnlyParts DEF SyncInv, Underway
  <2> QED
    BY <1>1, <1>2, <1>3, <1>4, <2>1, OnlyParts DEF SyncInv, Underway, metadata, workers
<1> QED
  BY <1>2, <1>5, <1>6 DEF SharedInv

\* A message sent from rest, which will make of every store what it is to be.
LEMMA SendSync ==
  ASSUME NEW c \in Client, Only(c), Resting(c), NEW P \in SUBSET Part, NEW m, NEW w,
         Send(c, P, m, w), UNCHANGED <<mem, db>>,
         \A p \in P : /\ Stored(Goal(c, p), m) = Goal(c, p)'
                      /\ Executed(Goal(c, p), m) = Goal(c, p)'
                      /\ Goal(c, p).verts \subseteq mVerts'[p],
         \A p \in Part \ P : Goal(c, p)' = Goal(c, p)
  PROVE  SyncInv(c)' /\ pc'[c] = w /\ \A p \in Part : leg'[c][p] # "no"
<1>1. /\ pc'[c] = w /\ msg'[c] = m
      /\ leg'[c] = [p \in Part |-> IF p \in P THEN "sent" ELSE "none"]
  BY OnlyParts DEF Send, LocalType
<1>2. \A p \in Part : mem[p] = Goal(c, p) /\ db[p] = Goal(c, p)
  BY RestSync
<1>3. \A p \in P : leg'[c][p] = "sent"
  BY <1>1
<1>4. \A p \in Part \ P : leg'[c][p] = "none"
  BY <1>1
<1>5. ASSUME NEW p \in P
      PROVE  /\ Stored(mem'[p], msg'[c]) = Goal(c, p)' /\ Executed(db'[p], msg'[c]) = Goal(c, p)'
             /\ db'[p].verts \subseteq mVerts'[p]
  BY <1>1, <1>2
<1> QED
  BY <1>1, <1>2, <1>3, <1>4, <1>5 DEF SyncInv, Underway

\* The vertices of a store.
LEMMA StoreHas == ASSUME NEW V, NEW G, NEW E PROVE StoreOf(V, G, E).verts = V
  BY DEF StoreOf

\* The messages about an edge, and the one about a vertex that goes.
AddsEdge(m, e) == m.kind = "AddEdge" /\ m.edge = e /\ m.link = e
CutsEdge(m, e) == m.kind = "DeleteEdge" /\ m.edge = e /\ m.link = e
CutsVertex(m, i) == m.kind = "DeleteVertex" /\ m.id = i

\* What the message of ProcessAddVertex2PC makes of a store.
LEMMA AddVertexEffect ==
  ASSUME NEW V, NEW G, NEW E, NEW m, m.kind = "AddVertex"
  PROVE  /\ Stored(StoreOf(V, G, E), m) = StoreOf(V \cup {m.id}, G, E)
         /\ Executed(StoreOf(V, G, E), m) = StoreOf(V \cup {m.id}, G, E)
<1> DEFINE s == StoreOf(V, G, E)
<1>1. s.verts = V /\ s.ghosts = G /\ s.edges = E
  BY DEF StoreOf
<1>2. \A X : [s EXCEPT !.verts = X] = StoreOf(X, G, E)
  BY DEF StoreOf
<1> HIDE DEF s
<1>3. Stored(s, m) = StoreOf(V \cup {m.id}, G, E)
  BY <1>1, <1>2 DEF Stored
<1>4. Executed(s, m) = StoreOf(V \cup {m.id}, G, E)
  BY <1>1, <1>2, <1>3 DEF Executed
<1> QED
  BY <1>3, <1>4 DEF s

\* What that of addGhostToWorker makes of it.
LEMMA AddGhostEffect ==
  ASSUME NEW V, NEW G, NEW E, NEW m, m.kind = "AddGhostVertex"
  PROVE  /\ Stored(StoreOf(V, G, E), m) = StoreOf(V, G \cup {m.id}, E)
         /\ Executed(StoreOf(V, G, E), m) = StoreOf(V, G \cup {m.id}, E)
<1> DEFINE s == StoreOf(V, G, E)
<1>1. s.verts = V /\ s.ghosts = G /\ s.edges = E
  BY DEF StoreOf
<1>2. \A X : [s EXCEPT !.ghosts = X] = StoreOf(V, X, E)
  BY DEF StoreOf
<1> HIDE DEF s
<1>3. Stored(s, m) = StoreOf(V, G \cup {m.id}, E)
  BY <1>1, <1>2 DEF Stored
<1>4. Executed(s, m) = StoreOf(V, G \cup {m.id}, E)
  BY <1>1, <1>2, <1>3 DEF Executed
<1> QED
  BY <1>3, <1>4 DEF s

\* What that of ProcessAddEdge2PC does where both ends are known.
LEMMA AddEdgeEffect ==
  ASSUME NEW V, NEW G, NEW E, NEW m, NEW e, NEW F, AddsEdge(m, e),
         e[1] \in V \cup G, e[2] \in V \cup G, F = E \cup {e}
  PROVE  /\ Stored(StoreOf(V, G, E), m) = StoreOf(V, G, F)
         /\ Executed(StoreOf(V, G, E), m) = StoreOf(V, G, F)
<1> DEFINE s == StoreOf(V, G, E)
<1>1. s.verts = V /\ s.ghosts = G /\ s.edges = E
  BY DEF StoreOf
<1>2. \A X : [s EXCEPT !.edges = X] = StoreOf(V, G, X)
  BY DEF StoreOf
<1> HIDE DEF s
<1>3. Stored(s, m) = StoreOf(V, G, F)
  BY <1>1, <1>2 DEF Stored, AddsEdge
<1>4. Executed(s, m) = StoreOf(V, G, F)
  BY <1>1, <1>2, <1>3 DEF Executed, AddsEdge
<1> QED
  BY <1>3, <1>4 DEF s

\* What that of ProcessDeleteEdge2PC leaves of it.
LEMMA DeleteEdgeEffect ==
  ASSUME NEW V, NEW G, NEW E, NEW m, NEW e, NEW F, CutsEdge(m, e), F = E \ {e}
  PROVE  /\ Stored(StoreOf(V, G, E), m) = StoreOf(V, G, F)
         /\ Executed(StoreOf(V, G, E), m) = StoreOf(V, G, F)
<1> DEFINE s == StoreOf(V, G, E)
<1>1. s.verts = V /\ s.ghosts = G /\ s.edges = E
  BY DEF StoreOf
<1>2. \A X : [s EXCEPT !.edges = X] = StoreOf(V, G, X)
  BY DEF StoreOf
<1> HIDE DEF s
<1>3. Stored(s, m) = StoreOf(V, G, F)
  BY <1>1, <1>2 DEF Stored, CutsEdge
<1>4. Executed(s, m) = StoreOf(V, G, F)
  BY <1>1, <1>2, <1>3 DEF Executed, CutsEdge
<1> QED
  BY <1>3, <1>4 DEF s

\* What that of ProcessDeleteVertex2PCAll leaves of it.
LEMMA DeleteVertexEffect ==
  ASSUME NEW V, NEW G, NEW E, NEW m, NEW i, NEW W, NEW H, NEW F,
         CutsVertex(m, i), W = V \ {i}, H = G \ {i}, F = Detached(E, i)
  PROVE  /\ Stored(StoreOf(V, G, E), m) = StoreOf(W, H, F)
         /\ Executed(StoreOf(V, G, E), m) = StoreOf(W, H, F)
<1> DEFINE s == StoreOf(V, G, E)
<1>1. s.verts = V /\ s.ghosts = G /\ s.edges = E
  BY DEF StoreOf
<1> HIDE DEF s
<1>2. Stored(s, m) = StoreOf(W, H, F)
  BY <1>1 DEF Stored, StoreOf, CutsVertex
<1>3. Executed(s, m) = StoreOf(W, H, F)
  BY <1>2 DEF Executed, CutsVertex
<1> QED
  BY <1>2, <1>3 DEF s

\* What the stores hold at rest.
LEMMA PlainGoal ==
  ASSUME NEW c \in Client, Plain(c), NEW p \in Part
  PROVE  Goal(c, p) = StoreOf(mVerts[p], mGhosts[p] \cap Live, mEdges[p] \cap (Live \X Live))
<1>1. Gone(c) = {} /\ Born(c, p) = {} /\ Cut(c, p) = {} /\ Stays(c) = Live
  BY PlainMeans DEF Stays
<1>2. (mVerts[p] \ {}) \cup {} = mVerts[p]
  OBVIOUS
<1>3. \A E : E \ {} = E
  OBVIOUS
<1> QED
  BY <1>1, <1>2, <1>3 DEF Goal

\* What they are to be after a step.
LEMMA PlainGoalNext ==
  ASSUME NEW c \in Client, Plain(c)', NEW p \in Part
  PROVE  Goal(c, p)'
            = StoreOf(mVerts'[p], mGhosts'[p] \cap Live', mEdges'[p] \cap (Live' \X Live'))
<1>1. Gone(c)' = {} /\ Born(c, p)' = {} /\ Cut(c, p)' = {} /\ Stays(c)' = Live'
  BY PlainNext DEF Stays
<1>2. (mVerts'[p] \ {}) \cup {} = mVerts'[p]
  OBVIOUS
<1>3. \A E : E \ {} = E
  OBVIOUS
<1> QED
  BY <1>1, <1>2, <1>3 DEF Goal

\* ProcessAddVertex2PC sends a vertex whose key no listed vertex has.
LEMMA PlaceWhole ==
  ASSUME NEW c \in Client, Only(c), Place(c)
  PROVE  SharedInv(c)' /\ KnowInv(c)'
<1>1. /\ Scanned(c, "exists") /\ scan[c].found = {} /\ pc[c] = "exists"
      /\ UNCHANGED <<ids, metadata, workers, db, channel>>
  BY DEF Place, Scanned
<1>2. /\ Resting(c) /\ Plain(c) /\ Numbering(c)
      /\ \A i : ~(i \in Wanted(c) /\ i \in Live)
  BY <1>1, SearchEnds DEF NodeScans, Plain, Numbering
<1>3. PICK p \in Candidates(Load) :
        /\ Send(c, {p}, [NoMsg EXCEPT !.kind = "AddVertex", !.id = reg[c].id], "addVertex")
        /\ reg' = [reg EXCEPT ![c].part = {p}]
  BY DEF Place
<1>4. p \in Part
  BY DEF Candidates, LeastLoaded, Load
<1>5. PICK m : /\ m = [NoMsg EXCEPT !.kind = "AddVertex", !.id = reg[c].id]
               /\ m.kind = "AddVertex" /\ m.id = reg[c].id
  BY OnlyParts, RegGet, MsgAddVertex
<1>6. Send(c, {p}, m, "addVertex")
  BY <1>3, <1>5
<1>7. pc'[c] = "addVertex"
  BY <1>6, OnlyParts DEF Send, LocalType
<1>8. /\ reg'[c].part = {p} /\ reg'[c].id = reg[c].id /\ reg'[c].var = reg[c].var
      /\ reg'[c].req = reg[c].req
  <2>1. reg'[c] = [reg[c] EXCEPT !.part = {p}]
    BY <1>3, OnlyParts DEF LocalType
  <2> QED
    BY <2>1, RegKeeps, OnlyParts
<1>9. /\ Gone(c)' = {} /\ Born(c, p)' = {reg[c].id} /\ \A q \in Part \ {p} : Born(c, q)' = {}
      /\ \A q \in Part : Cut(c, q)' = {}
      /\ Numbering(c)' /\ Creating(c)'
  BY <1>7, <1>8 DEF Gone, Born, Cut, Creating, Numbering
<1>10. Live' = Live /\ Stays(c)' = Live
  BY <1>1, <1>9 DEF Stays, Live, metadata
<1>11. SyncInv(c)' /\ \A q \in Part : leg'[c][q] # "no"
  <2>1. /\ Stored(Goal(c, p), m) = Goal(c, p)' /\ Executed(Goal(c, p), m) = Goal(c, p)'
        /\ Goal(c, p).verts \subseteq mVerts'[p]
    <3>1. PICK V, G, E :
            V = mVerts[p] /\ G = mGhosts[p] \cap Live /\ E = mEdges[p] \cap (Live \X Live)
      OBVIOUS
    <3>2. Goal(c, p) = StoreOf(V, G, E)
      BY <1>2, <1>4, <3>1, PlainGoal
    <3>3. Goal(c, p)' = StoreOf(V \cup {m.id}, G, E)
      <4>1. (mVerts'[p] \ Gone(c)') \cup Born(c, p)' = V \cup {m.id}
        BY <1>1, <1>4, <1>5, <1>9, <3>1 DEF metadata
      <4>2. mGhosts'[p] \cap Stays(c)' = G
        BY <1>1, <1>10, <3>1 DEF metadata
      <4>3. (mEdges'[p] \cap (Stays(c)' \X Stays(c)')) \ Cut(c, p)' = E
        BY <1>1, <1>4, <1>9, <1>10, <3>1 DEF metadata
      <4> QED
        BY <4>1, <4>2, <4>3 DEF Goal
    <3>4. m.kind = "AddVertex" /\ V = mVerts'[p]
      BY <1>1, <1>5, <3>1 DEF metadata
    <3> QED
      BY <3>2, <3>3, <3>4, AddVertexEffect, StoreHas
  <2>2. ASSUME NEW q \in Part \ {p} PROVE Goal(c, q)' = Goal(c, q)
    BY <1>1, <1>2, <1>9, PlainMeans, GoalSame
  <2> QED
    BY <1>1, <1>2, <1>4, <1>6, <2>1, <2>2, SendSync DEF workers
<1>12. CountInv' /\ CalmInv(c)'
  BY <1>1, <1>10, <1>11, OnlyParts DEF CountInv, CalmInv, metadata, workers, channel
<1>13. NumbersInv(c)'
  <2>1. Known(c)' = Known(c)
    BY <1>1, <1>2, <1>8, <1>9 DEF Known, ids
  <2> QED
    BY <1>1, <1>2, <1>8, <2>1, OnlyParts DEF NumbersInv, ids, metadata
<1>14. KeysInv(c)'
  <2>1. \A i \in Live : ~Finds(keyOf[reg[c].id], keyOf[i], i)
    BY <1>1, <1>2, WantedIs, OnlyParts
  <2> QED
    BY <1>1, <1>8, <1>10, <2>1, OnlyParts DEF KeysInv, HasKey, ids
<1>15. MadeInv(c)'
  <2>1. \A k : (\E i \in Live' : Finds(k, keyOf'[i], i)) <=> HasKey(k)
    BY <1>1, KeyStays
  <2>2. /\ reg'[c].var \in DOMAIN Variables(reg'[c].req)
        /\ keyOf'[reg'[c].id] = Variables(reg'[c].req)[reg'[c].var]
    BY <1>1, <1>2, <1>8, OnlyParts DEF MadeInv, ids
  <2>3. reg'[c].req.op = "AddEdge" /\ reg'[c].var = 2 => HasKey(reg'[c].req.a)
    BY <1>2, <1>8, OnlyParts DEF MadeInv
  <2> QED
    BY <1>7, <1>8, <2>1, <2>2, <2>3, OnlyParts DEF MadeInv, HasKey
<1>16. ScanInv(c)' /\ EndsInv(c)' /\ PartInv(c)'
  BY <1>7 DEF ScanInv, EndsInv, PartInv, NodeScans
<1> QED
  BY <1>11, <1>12, <1>13, <1>14, <1>15, <1>16 DEF SharedInv, KnowInv

\* The target becomes a ghost where the edge goes.
LEMMA AddGhostWhole ==
  ASSUME NEW c \in Client, Only(c), AddGhost(c)
  PROVE  SharedInv(c)' /\ KnowInv(c)'
<1>1. /\ pc[c] = "ghost"
      /\ UNCHANGED <<reg, ids, mVerts, mEdges, mInfo, numVertices, workers, db, channel>>
  BY DEF AddGhost, local
<1>2. Resting(c) /\ Plain(c)
  BY <1>1, OnlyParts, AtRest DEF Plain, Calls
<1>3. PICK p \in Part :
        reg[c].part = {p} /\ reg[c].v1 \in mVerts[p] /\ reg[c].ghost = reg[c].v2
  BY <1>1, OnlyParts DEF PartInv
<1>4. /\ reg[c].v1 \in Live /\ reg[c].v2 \in Live
      /\ reg[c].a = reg[c].v1 /\ reg[c].b = reg[c].v2
  BY <1>1, OnlyParts DEF EndsInv
<1>5. PICK m : /\ m = [NoMsg EXCEPT !.kind = "AddGhostVertex", !.id = reg[c].ghost]
               /\ m.kind = "AddGhostVertex" /\ m.id = reg[c].v2
  BY <1>3, OnlyParts, RegGet, MsgAddGhost
<1>6. /\ Send(c, {p}, m, "addGhost")
      /\ mGhosts' = [mGhosts EXCEPT ![p] = @ \cup {reg[c].v2}]
  BY <1>3, <1>5 DEF AddGhost
<1>7. pc'[c] = "addGhost"
  BY <1>6, OnlyParts DEF Send, LocalType
<1>8. mGhosts'[p] = mGhosts[p] \cup {reg[c].v2} /\ \A q \in Part \ {p} : mGhosts'[q] = mGhosts[q]
  BY <1>6, OnlyParts DEF GlobalType
<1>9. Plain(c)' /\ ~Numbering(c)' /\ Live' = Live
  BY <1>1, <1>7 DEF Plain, Numbering, Creating, Live
<1>10. SyncInv(c)' /\ \A q \in Part : leg'[c][q] # "no"
  <2>1. /\ Stored(Goal(c, p), m) = Goal(c, p)' /\ Executed(Goal(c, p), m) = Goal(c, p)'
        /\ Goal(c, p).verts \subseteq mVerts'[p]
    <3>1. PICK V, G, E :
            V = mVerts[p] /\ G = mGhosts[p] \cap Live /\ E = mEdges[p] \cap (Live \X Live)
      OBVIOUS
    <3>2. Goal(c, p) = StoreOf(V, G, E)
      BY <1>2, <3>1, PlainGoal
    <3>3. Goal(c, p)' = StoreOf(V, G \cup {m.id}, E)
      <4>1. mGhosts'[p] \cap Live = G \cup {m.id}
        BY <1>4, <1>5, <1>8, <3>1
      <4> QED
        BY <1>1, <1>9, <3>1, <4>1, PlainGoalNext
    <3>4. m.kind = "AddGhostVertex" /\ V = mVerts'[p]
      BY <1>1, <1>5, <3>1
    <3> QED
      BY <3>2, <3>3, <3>4, AddGhostEffect, StoreHas
  <2>2. ASSUME NEW q \in Part \ {p} PROVE Goal(c, q)' = Goal(c, q)
    <3>1. Goal(c, q) = StoreOf(mVerts[q], mGhosts[q] \cap Live, mEdges[q] \cap (Live \X Live))
      BY <1>2, PlainGoal
    <3>2. Goal(c, q)'
             = StoreOf(mVerts'[q], mGhosts'[q] \cap Live', mEdges'[q] \cap (Live' \X Live'))
      BY <1>9, PlainGoalNext
    <3> QED
      BY <1>1, <1>8, <1>9, <3>1, <3>2
  <2> QED
    BY <1>1, <1>2, <1>6, <2>1, <2>2, SendSync DEF workers
<1>11. CountInv' /\ CalmInv(c)'
  BY <1>1, <1>9, <1>10, OnlyParts DEF CountInv, CalmInv, workers, channel
<1>12. NumbersInv(c)'
  <2>1. Known(c)' = Known(c)
    BY <1>1, <1>9 DEF Known, ids, Numbering, Creating
  <2>2. reg[c].v2 \in Known(c)
    BY <1>4, OnlyParts DEF NumbersInv, Live
  <2>3. \A q \in Part : mGhosts'[q] \subseteq mGhosts[q] \cup {reg[c].v2}
    BY <1>8
  <2> QED
    BY <1>1, <1>9, <2>1, <2>2, <2>3, OnlyParts DEF NumbersInv
<1>13. KeysInv(c)'
  BY <1>1, <1>9, OnlyParts DEF KeysInv, HasKey, ids, Numbering
<1>14. MadeInv(c)'
  BY <1>1, <1>7, <1>9, OnlyParts DEF MadeInv
<1>15. ScanInv(c)' /\ EndsInv(c)' /\ PartInv(c)'
  BY <1>1, <1>3, <1>4, <1>7, <1>8, <1>9 DEF ScanInv, EndsInv, PartInv, NodeScans
<1> QED
  BY <1>10, <1>11, <1>12, <1>13, <1>14, <1>15 DEF SharedInv, KnowInv

\* The message that creates an edge.
LEMMA AddEdgeMessage ==
  ASSUME NEW e, NEW m, m = [NoMsg EXCEPT !.kind = "AddEdge", !.edge = e, !.link = e]
  PROVE  AddsEdge(m, e)
  BY DEF NoMsg, AddsEdge

\* The message that deletes one.
LEMMA DeleteEdgeMessage ==
  ASSUME NEW e, NEW m, m = [NoMsg EXCEPT !.kind = "DeleteEdge", !.edge = e, !.link = e]
  PROVE  CutsEdge(m, e)
  BY DEF NoMsg, CutsEdge

\* The edge is put where both its ends are known, so its Neo4j creates it.
LEMMA AddEdgeWhole ==
  ASSUME NEW c \in Client, Only(c), AddEdge(c)
  PROVE  SharedInv(c)' /\ KnowInv(c)'
<1>1. /\ pc[c] = "edge"
      /\ UNCHANGED <<reg, ids, mVerts, mGhosts, numVertices, workers, db, channel>>
  BY DEF AddEdge, local
<1>2. Resting(c) /\ Plain(c)
  BY <1>1, OnlyParts, AtRest DEF Plain, Calls
<1>3. PICK p \in Part :
        /\ reg[c].part = {p} /\ reg[c].v1 \in mVerts[p]
        /\ reg[c].v2 \in mVerts[p] \cup mGhosts[p]
  BY <1>1, OnlyParts DEF PartInv
<1>4. /\ reg[c].v1 \in Live /\ reg[c].v2 \in Live
      /\ reg[c].a = reg[c].v1 /\ reg[c].b = reg[c].v2
  BY <1>1, OnlyParts DEF EndsInv
<1>5. PICK e : e = <<reg[c].v1, reg[c].v2>> /\ e \in Live \X Live /\ e[1] = reg[c].v1
               /\ e[2] = reg[c].v2 /\ Link(c) = e
  BY <1>4 DEF Link
<1> PICK m : m = [NoMsg EXCEPT !.kind = "AddEdge", !.edge = e, !.link = e]
  OBVIOUS
<1>6. AddsEdge(m, e)
  BY AddEdgeMessage
<1>7. /\ Send(c, {p}, m, "addEdge")
      /\ mEdges' = [mEdges EXCEPT ![p] = @ \cup {e}]
      /\ mInfo' = [mInfo EXCEPT ![p] = @ \cup {reg[c].v1}]
  BY <1>3, <1>5, <1>6 DEF AddEdge
<1>8. pc'[c] = "addEdge"
  BY <1>7, OnlyParts DEF Send, LocalType
<1>9. /\ mEdges'[p] = mEdges[p] \cup {e} /\ mInfo'[p] = mInfo[p] \cup {reg[c].v1}
      /\ \A q \in Part \ {p} : mEdges'[q] = mEdges[q] /\ mInfo'[q] = mInfo[q]
  BY <1>7, OnlyParts DEF GlobalType
<1>10. Plain(c)' /\ ~Numbering(c)' /\ Live' = Live
  BY <1>1, <1>8 DEF Plain, Numbering, Creating, Live
<1>11. SyncInv(c)' /\ \A q \in Part : leg'[c][q] # "no"
  <2>1. /\ Stored(Goal(c, p), m) = Goal(c, p)' /\ Executed(Goal(c, p), m) = Goal(c, p)'
        /\ Goal(c, p).verts \subseteq mVerts'[p]
    <3>1. PICK V, G, E :
            V = mVerts[p] /\ G = mGhosts[p] \cap Live /\ E = mEdges[p] \cap (Live \X Live)
      OBVIOUS
    <3> PICK F : F = E \cup {e}
      OBVIOUS
    <3>2. Goal(c, p) = StoreOf(V, G, E)
      BY <1>2, <3>1, PlainGoal
    <3>3. Goal(c, p)' = StoreOf(V, G, F)
      <4>1. mEdges'[p] \cap (Live \X Live) = F
        BY <1>5, <1>9, <3>1
      <4> QED
        BY <1>1, <1>10, <3>1, <4>1, PlainGoalNext
    <3>4. V = mVerts'[p]
      BY <1>1, <3>1
    <3>5. e[1] \in V \cup G /\ e[2] \in V \cup G
      BY <1>3, <1>4, <1>5, <3>1
    <3>6. Stored(StoreOf(V, G, E), m) = StoreOf(V, G, F)
             /\ Executed(StoreOf(V, G, E), m) = StoreOf(V, G, F)
      BY <1>6, <3>5, AddEdgeEffect
    <3> QED
      BY <3>2, <3>3, <3>4, <3>6, StoreHas
  <2>2. ASSUME NEW q \in Part \ {p} PROVE Goal(c, q)' = Goal(c, q)
    <3>1. Goal(c, q) = StoreOf(mVerts[q], mGhosts[q] \cap Live, mEdges[q] \cap (Live \X Live))
      BY <1>2, PlainGoal
    <3>2. Goal(c, q)'
             = StoreOf(mVerts'[q], mGhosts'[q] \cap Live', mEdges'[q] \cap (Live' \X Live'))
      BY <1>10, PlainGoalNext
    <3> QED
      BY <1>1, <1>9, <1>10, <3>1, <3>2
  <2> QED
    BY <1>1, <1>2, <1>7, <2>1, <2>2, SendSync DEF workers
<1>12. CountInv' /\ CalmInv(c)'
  <2>1. \A q \in Part : \A f \in mEdges'[q] : f[1] \in Live => f[1] \in mInfo'[q]
    BY <1>5, <1>9, OnlyParts DEF CountInv
  <2> QED
    BY <1>1, <1>10, <1>11, <2>1, OnlyParts DEF CountInv, CalmInv, workers, channel
<1>13. NumbersInv(c)'
  <2>1. Known(c)' = Known(c)
    BY <1>1, <1>10 DEF Known, ids, Numbering, Creating
  <2>2. Live \subseteq Known(c)
    BY OnlyParts DEF NumbersInv, Live
  <2>3. \A q \in Part : mEdges'[q] \subseteq Known(c) \X Known(c)
    BY <1>5, <1>9, <2>2, OnlyParts DEF NumbersInv
  <2> QED
    BY <1>1, <1>10, <2>1, <2>3, OnlyParts DEF NumbersInv
<1>14. KeysInv(c)'
  BY <1>1, <1>10, OnlyParts DEF KeysInv, HasKey, ids, Numbering
<1>15. MadeInv(c)'
  BY <1>1, <1>8, <1>10, OnlyParts DEF MadeInv
<1>16. ScanInv(c)' /\ EndsInv(c)' /\ PartInv(c)'
  BY <1>8 DEF ScanInv, EndsInv, PartInv, NodeScans
<1> QED
  BY <1>11, <1>12, <1>13, <1>14, <1>15, <1>16 DEF SharedInv, KnowInv

\* A message that changes nothing in the master's lists.
LEMMA SentShared ==
  ASSUME NEW c \in Client, Only(c), UNCHANGED <<ids, metadata, workers, db, channel>>,
         SyncInv(c)', \A p \in Part : leg'[c][p] # "no", ~Numbering(c)'
  PROVE  SharedInv(c)'
<1>1. Live' = Live /\ ~Creating(c)'
  BY DEF Live, metadata, Numbering
<1>2. CountInv' /\ CalmInv(c)'
  BY <1>1, OnlyParts DEF CountInv, CalmInv, metadata, workers, channel
<1>3. NumbersInv(c)'
  <2>1. Known(c) \subseteq Known(c)'
    BY DEF Known, ids
  <2>2. ASSUME NEW p \in Part
        PROVE  mVerts'[p] \cup mGhosts'[p] \subseteq Known(c)'
                  /\ mEdges'[p] \subseteq Known(c)' \X Known(c)'
    BY <2>1, OnlyParts DEF NumbersInv, metadata
  <2> QED
    BY <2>2 DEF NumbersInv
<1>4. KeysInv(c)'
  BY <1>1, OnlyParts DEF KeysInv, ids
<1> QED
  BY <1>2, <1>3, <1>4 DEF SharedInv

\* Every worker is told that the vertex is to go.
LEMMA DeleteVertexWhole ==
  ASSUME NEW c \in Client, Only(c), DeleteVertex(c)
  PROVE  SharedInv(c)' /\ KnowInv(c)'
<1>1. /\ Scanned(c, "confirm") /\ pc[c] = "confirm" /\ Resting(c) /\ Plain(c)
      /\ UNCHANGED <<ids, metadata, workers, db, channel>>
  BY SearchEnds DEF DeleteVertex, Scanned, NodeScans
<1>2. CASE Finish(c, "error")
  BY <1>1, <1>2, FinishWhole DEF Reply
<1>3. CASE ~Finish(c, "error")
  <2>1. reg[c].v1 \in Live
    BY <1>1, OnlyParts DEF EndsInv
  <2> PICK i : i = reg[c].v1
    OBVIOUS
  <2>2. PICK m : m = [NoMsg EXCEPT !.kind = "DeleteVertex", !.id = i] /\ CutsVertex(m, i)
    BY OnlyParts, RegGet, MsgDeleteVertex DEF CutsVertex
  <2>3. Send(c, Part, m, "delVertex") /\ reg' = [reg EXCEPT ![c].part = Knowing(reg[c].v1)]
    BY <1>3, <2>2 DEF DeleteVertex
  <2>4. pc'[c] = "delVertex"
    BY <2>3, OnlyParts DEF Send, LocalType
  <2>5. reg'[c].v1 = reg[c].v1 /\ reg'[c].req = reg[c].req
    <3>1. reg'[c] = [reg[c] EXCEPT !.part = Knowing(reg[c].v1)]
      BY <2>3, OnlyParts DEF LocalType
    <3> QED
      BY <3>1, RegKeeps, OnlyParts
  <2>6. /\ Gone(c)' = {reg[c].v1} /\ \A p \in Part : Born(c, p)' = {} /\ Cut(c, p)' = {}
        /\ ~Numbering(c)'
    BY <2>4, <2>5 DEF Gone, Born, Cut, Creating, Numbering
  <2>7. Live' = Live /\ Stays(c)' = Live \ {reg[c].v1}
    BY <1>1, <2>6 DEF Live, Stays, metadata
  <2>8. ASSUME NEW p \in Part
        PROVE  /\ Stored(Goal(c, p), m) = Goal(c, p)' /\ Executed(Goal(c, p), m) = Goal(c, p)'
               /\ Goal(c, p).verts \subseteq mVerts'[p]
    <3>1. PICK V, G, E :
            V = mVerts[p] /\ G = mGhosts[p] \cap Live /\ E = mEdges[p] \cap (Live \X Live)
      OBVIOUS
    <3>5. PICK W, H, F : W = V \ {i} /\ H = G \ {i} /\ F = Detached(E, i)
      OBVIOUS
    <3>2. Goal(c, p) = StoreOf(V, G, E)
      BY <1>1, <3>1, PlainGoal
    <3>3. Goal(c, p)' = StoreOf(W, H, F)
      <4>1. (mVerts'[p] \ Gone(c)') \cup Born(c, p)' = W
        BY <3>5, <1>1, <2>2, <2>6, <3>1 DEF metadata
      <4>2. mGhosts'[p] \cap Stays(c)' = H
        BY <3>5, <1>1, <2>2, <2>7, <3>1 DEF metadata
      <4>3. (mEdges'[p] \cap (Stays(c)' \X Stays(c)')) \ Cut(c, p)' = F
        <5>1. mEdges'[p] = mEdges[p] /\ Cut(c, p)' = {}
          BY <1>1, <2>6 DEF metadata
        <5> QED
          BY <2>2, <2>7, <3>1, <3>5, <5>1 DEF Detached
      <4> QED
        BY <4>1, <4>2, <4>3 DEF Goal
    <3>4. V = mVerts'[p]
      BY <1>1, <3>1 DEF metadata
    <3>6. Stored(StoreOf(V, G, E), m) = StoreOf(W, H, F)
             /\ Executed(StoreOf(V, G, E), m) = StoreOf(W, H, F)
      BY <2>2, <3>5, DeleteVertexEffect
    <3> QED
      BY <3>2, <3>3, <3>4, <3>6, StoreHas
  <2>9. SyncInv(c)' /\ \A p \in Part : leg'[c][p] # "no"
    BY <1>1, <2>3, <2>8, SendSync DEF workers
  <2>10. SharedInv(c)'
    BY <1>1, <2>6, <2>9, SentShared
  <2>11. MadeInv(c)'
    BY <2>4, <2>5, <2>6, OnlyParts DEF MadeInv
  <2>12. ScanInv(c)' /\ EndsInv(c)' /\ PartInv(c)'
    BY <2>1, <2>4, <2>5, <2>7 DEF ScanInv, EndsInv, PartInv, NodeScans
  <2> QED
    BY <2>10, <2>11, <2>12 DEF KnowInv
<1> QED
  BY <1>2, <1>3

\* Every worker that may have the edge is told that it is to go.
LEMMA DeleteEdgeWhole ==
  ASSUME NEW c \in Client, Only(c), DeleteEdge(c)
  PROVE  SharedInv(c)' /\ KnowInv(c)'
<1>1. /\ pc[c] = "find" /\ UNCHANGED <<ids, metadata, workers, db, channel>>
  BY DEF DeleteEdge, Scanned
<1>2. Resting(c) /\ Plain(c)
  BY <1>1, OnlyParts, AtRest DEF Plain, Calls
<1>3. CASE Finish(c, "error")
  BY <1>1, <1>2, <1>3, FinishWhole DEF Reply
<1>4. CASE ~Finish(c, "error")
  <2>1. PICK P \in SUBSET Part : P = Affected(reg[c].a, reg[c].b)
    BY DEF Affected, Home, Knowing
  <2> PICK e : e = Link(c)
    OBVIOUS
  <2> PICK m : m = [NoMsg EXCEPT !.kind = "DeleteEdge", !.edge = e, !.link = e]
    OBVIOUS
  <2>2. CutsEdge(m, e)
    BY DeleteEdgeMessage
  <2>3. Send(c, P, m, "delEdge") /\ reg' = [reg EXCEPT ![c].part = P]
    BY <1>4, <2>1, <2>2 DEF DeleteEdge
  <2>4. pc'[c] = "delEdge"
    BY <2>3, OnlyParts DEF Send, LocalType
  <2>5. /\ reg'[c].part = P /\ reg'[c].a = reg[c].a /\ reg'[c].b = reg[c].b
        /\ reg'[c].req = reg[c].req
    <3>1. reg'[c] = [reg[c] EXCEPT !.part = P]
      BY <2>3, OnlyParts DEF LocalType
    <3> QED
      BY <3>1, RegKeeps, OnlyParts
  <2>6. /\ Gone(c)' = {} /\ (\A p \in Part : Born(c, p)' = {}) /\ ~Numbering(c)'
        /\ (\A p \in P : Cut(c, p)' = {Link(c)}) /\ (\A p \in Part \ P : Cut(c, p)' = {})
    BY <2>4, <2>5 DEF Gone, Born, Cut, Creating, Numbering, Link
  <2>7. Live' = Live /\ Stays(c)' = Live
    BY <1>1, <2>6 DEF Live, Stays, metadata
  <2>8. ASSUME NEW p \in P
        PROVE  /\ Stored(Goal(c, p), m) = Goal(c, p)' /\ Executed(Goal(c, p), m) = Goal(c, p)'
               /\ Goal(c, p).verts \subseteq mVerts'[p]
    <3>1. PICK V, G, E :
            V = mVerts[p] /\ G = mGhosts[p] \cap Live /\ E = mEdges[p] \cap (Live \X Live)
      OBVIOUS
    <3> PICK F : F = E \ {e}
      OBVIOUS
    <3>2. Goal(c, p) = StoreOf(V, G, E)
      BY <1>2, <3>1, PlainGoal
    <3>3. Goal(c, p)' = StoreOf(V, G, F)
      <4>1. (mVerts'[p] \ Gone(c)') \cup Born(c, p)' = V
        BY <1>1, <2>6, <3>1 DEF metadata
      <4>2. mGhosts'[p] \cap Stays(c)' = G
        BY <1>1, <2>7, <3>1 DEF metadata
      <4>3. (mEdges'[p] \cap (Stays(c)' \X Stays(c)')) \ Cut(c, p)' = F
        BY <1>1, <2>6, <2>7, <3>1 DEF metadata
      <4> QED
        BY <4>1, <4>2, <4>3 DEF Goal
    <3>4. V = mVerts'[p]
      BY <1>1, <3>1 DEF metadata
    <3>5. Stored(StoreOf(V, G, E), m) = StoreOf(V, G, F)
             /\ Executed(StoreOf(V, G, E), m) = StoreOf(V, G, F)
      BY <2>2, DeleteEdgeEffect
    <3> QED
      BY <3>2, <3>3, <3>4, <3>5, StoreHas
  <2>9. ASSUME NEW p \in Part \ P PROVE Goal(c, p)' = Goal(c, p)
    BY <1>1, <1>2, <2>6, PlainMeans, GoalSame
  <2>10. SyncInv(c)' /\ \A p \in Part : leg'[c][p] # "no"
    BY <1>1, <1>2, <2>3, <2>8, <2>9, SendSync DEF workers
  <2>11. SharedInv(c)'
    BY <1>1, <2>6, <2>10, SentShared
  <2>12. MadeInv(c)'
    BY <2>4, <2>5, <2>6, OnlyParts DEF MadeInv
  <2>13. ScanInv(c)' /\ EndsInv(c)' /\ PartInv(c)'
    BY <2>4 DEF ScanInv, EndsInv, PartInv, NodeScans
  <2> QED
    BY <2>11, <2>12, <2>13 DEF KnowInv
<1> QED
  BY <1>3, <1>4

----------------------------------------------------------------------------
(* The master's own lists.                                                 *)

\* The identifiers in use are finitely many.
LEMMA LiveFinite ==
  ASSUME Live \subseteq Id
  PROVE  IsFiniteSet(Live)
<1>1. IsFiniteSet(Id)
  BY NoIdFacts, FS_Interval DEF Id
<1> QED
  BY <1>1, FS_Subset

\* The list that was read is still the list, so nothing is lost, and what
\* the master now lists is what the stores have had since they agreed.
LEMMA UpdateSummaryWhole ==
  ASSUME NEW c \in Client, Only(c), UpdateSummary(c)
  PROVE  SharedInv(c)' /\ KnowInv(c)'
<1>1. /\ pc[c] = "summary" /\ pc' = [pc EXCEPT ![c] = "next"]
      /\ UNCHANGED <<reg, leg, ids, mGhosts, mEdges, workers, db, channel>>
      /\ numVertices' \in {numVertices + 1, reg[c].num + 1}
  BY DEF UpdateSummary, local, sending
<1>2. /\ pc'[c] = "next" /\ Creating(c) /\ Numbering(c) /\ Resting(c) /\ Resting(c)'
      /\ Plain(c)' /\ ~Numbering(c)' /\ \A q \in Part : leg'[c][q] # "no"
  BY <1>1, OnlyParts, AtRest DEF LocalType, Creating, Numbering, Plain, Calls, Resting
<1>3. PICK i \in Id : /\ i = reg[c].id /\ i = counter /\ i \notin Known(c)
                      /\ Known(c) \cup {i} = 0 .. counter
  <2>1. reg[c].id \in Id /\ reg[c].id = counter
    BY <1>1, <1>2, OnlyParts DEF LookInv, NumbersInv
  <2>2. counter \in Nat /\ counter \in 0 .. counter
    BY OnlyParts, NoIdFacts DEF GlobalType
  <2> QED
    BY <1>2, <2>1, <2>2 DEF Known
<1>4. PICK p \in Part : reg[c].part = {p} /\ reg[c].list = mVerts[p] /\ reg[c].num = numVertices
  BY <1>1, OnlyParts DEF PartInv, CallInv
<1>5. /\ mVerts' = [mVerts EXCEPT ![p] = mVerts[p] \cup {i}]
      /\ mInfo' = [mInfo EXCEPT ![p] = @ \cup {i}]
  BY <1>3, <1>4 DEF UpdateSummary
<1>6. /\ mVerts'[p] = mVerts[p] \cup {i} /\ \A q \in Part \ {p} : mVerts'[q] = mVerts[q]
      /\ \A q \in Part : mInfo[q] \subseteq mInfo'[q]
  BY <1>5, OnlyParts DEF GlobalType
<1>7. Live' = Live \cup {i} /\ i \notin Live
  <2>1. i \notin Live
    BY <1>3, OnlyParts DEF NumbersInv, Live
  <2> QED
    BY <1>6, <2>1 DEF Live
<1>8. \A q \in Part : /\ i \notin mGhosts[q] /\ mEdges[q] \subseteq Known(c) \X Known(c)
  BY <1>3, OnlyParts DEF NumbersInv
<1>9. SyncInv(c)'
  <2>1. Gone(c) = {} /\ Stays(c) = Live /\ \A q \in Part : Cut(c, q) = {}
    BY <1>1 DEF Gone, Stays, Cut
  <2>2. Born(c, p) = {i} /\ \A q \in Part \ {p} : Born(c, q) = {}
    BY <1>2, <1>3, <1>4 DEF Born
  <2>3. ASSUME NEW q \in Part PROVE Goal(c, q)' = Goal(c, q)
    <3>1. (mVerts[q] \ Gone(c)) \cup Born(c, q) = mVerts'[q]
      BY <1>6, <2>1, <2>2
    <3>2. mGhosts[q] \cap Stays(c) = mGhosts'[q] \cap Live'
      BY <1>1, <1>7, <1>8, <2>1
    <3>3. (mEdges[q] \cap (Stays(c) \X Stays(c))) \ Cut(c, q) = mEdges'[q] \cap (Live' \X Live')
      <4>1. ASSUME NEW e \in mEdges[q], e \in Live' \X Live' PROVE e \in Live \X Live
        <5>1. e \in Known(c) \X Known(c)
          BY <1>8
        <5>2. e = <<e[1], e[2]>> /\ e[1] \in Live' \ {i} /\ e[2] \in Live' \ {i}
          BY <1>3, <4>1, <5>1
        <5>3. e[1] \in Live /\ e[2] \in Live
          BY <1>7, <5>2
        <5> QED
          BY <5>2, <5>3
      <4> QED
        BY <1>1, <1>7, <2>1, <4>1
    <3>4. Goal(c, q)
             = StoreOf(mVerts'[q], mGhosts'[q] \cap Live', mEdges'[q] \cap (Live' \X Live'))
      BY <3>1, <3>2, <3>3 DEF Goal
    <3>5. Goal(c, q)'
             = StoreOf(mVerts'[q], mGhosts'[q] \cap Live', mEdges'[q] \cap (Live' \X Live'))
      BY <1>2, PlainGoalNext
    <3> QED
      BY <3>4, <3>5
  <2> QED
    BY <1>1, <1>2, <2>3, RestNext DEF workers
<1>10. CountInv'
  <2>1. numVertices' = numVertices + 1 /\ numVertices = Cardinality(Live)
    BY <1>1, <1>4, OnlyParts DEF CountInv
  <2>2. Cardinality(Live') = Cardinality(Live) + 1
    BY <1>7, OnlyParts, LiveFinite, FS_AddElement
  <2>3. ASSUME NEW q \in Part, NEW e \in mEdges'[q], e[1] \in Live' PROVE e[1] \in mInfo'[q]
    <3>1. e[1] \in Live
      BY <1>1, <1>3, <1>7, <1>8, <2>3
    <3> QED
      BY <1>1, <1>6, <3>1, OnlyParts DEF CountInv
  <2> QED
    BY <2>1, <2>2, <2>3 DEF CountInv
<1>11. CalmInv(c)'
  BY <1>1, <1>2, OnlyParts DEF CalmInv, workers, channel
<1>12. NumbersInv(c)'
  <2>1. Known(c)' = Known(c) \cup {i}
    BY <1>1, <1>2, <1>3 DEF Known, ids
  <2> QED
    BY <1>1, <1>2, <1>6, <2>1, OnlyParts DEF NumbersInv
<1>13. KeysInv(c)'
  <2>1. keyOf[i] \in Findable => \A j \in Live : keyOf[j] # keyOf[i]
    BY <1>2, <1>3, FindsItself, OnlyParts DEF KeysInv, HasKey
  <2>2. \A j, k \in Live' : keyOf'[j] = keyOf'[k] /\ keyOf'[j] \in Findable => j = k
    BY <1>1, <1>7, <2>1, OnlyParts DEF KeysInv, ids
  <2> QED
    BY <1>2, <2>2 DEF KeysInv, Numbering
<1>14. MadeInv(c)'
  <2>1. \A k : HasKey(k) \/ (k \in Findable /\ k = keyOf[i]) =>
                 \E j \in Live' : Finds(k, keyOf'[j], j)
    BY <1>1, <1>7, FindsItself DEF HasKey, ids
  <2>2. keyOf[i] = Variables(reg[c].req)[reg[c].var]
           /\ reg[c].var \in DOMAIN Variables(reg[c].req)
    BY <1>2, <1>3, OnlyParts DEF MadeInv
  <2>3. ASSUME reg[c].req.op = "AddEdge"
        PROVE  /\ Variables(reg[c].req) = <<reg[c].req.a, reg[c].req.b>>
               /\ reg[c].var \in {1, 2}
               /\ reg[c].var = 2 => HasKey(reg[c].req.a)
    <3>1. Variables(reg[c].req) = <<reg[c].req.a, reg[c].req.b>>
      BY <2>3 DEF Variables
    <3>2. reg[c].var \in {1, 2}
      BY <2>2, <3>1
    <3>3. reg[c].var = 2 => HasKey(reg[c].req.a)
      BY <1>2, <2>3, OnlyParts DEF MadeInv
    <3> QED
      BY <3>1, <3>2, <3>3
  <2>4. ASSUME reg[c].req.op = "AddEdge"
        PROVE  /\ reg[c].req.a \in Findable /\ reg[c].req.b \in Findable
               /\ \E j \in Live' : Finds(reg[c].req.a, keyOf'[j], j)
               /\ reg[c].var = 2 => \E j \in Live' : Finds(reg[c].req.b, keyOf'[j], j)
    <3>1. reg[c].var = 1 => keyOf[i] = reg[c].req.a
      BY <2>2, <2>3, <2>4
    <3>2. reg[c].var = 2 => keyOf[i] = reg[c].req.b
      BY <2>2, <2>3, <2>4
    <3>3. reg[c].req.a \in Findable /\ reg[c].req.b \in Findable
      BY <2>4, OnlyParts DEF MadeInv
    <3> QED
      BY <2>1, <2>3, <2>4, <3>1, <3>2, <3>3
  <2> QED
    BY <1>1, <1>2, <2>4 DEF MadeInv, HasKey
<1>15. ScanInv(c)' /\ EndsInv(c)' /\ PartInv(c)'
  BY <1>2 DEF ScanInv, EndsInv, PartInv, NodeScans
<1> QED
  BY <1>9, <1>10, <1>11, <1>12, <1>13, <1>14, <1>15 DEF SharedInv, KnowInv

\* Only the home forgets the vertex: no other partition lists it, and the
\* ghosts and edges that stay elsewhere are those of a vertex that is no
\* more.
LEMMA ForgetWhole ==
  ASSUME NEW c \in Client, Only(c), Forget(c)
  PROVE  SharedInv(c)' /\ KnowInv(c)'
<1>1. /\ pc[c] = "forget" /\ Finish(c, "Delete") /\ UNCHANGED <<ids, workers, db, channel>>
      /\ numVertices' \in {numVertices - 1, reg[c].num - 1}
  BY DEF Forget
<1>2. PICK i : i = reg[c].v1 /\ i \in Id
  BY <1>1, OnlyParts DEF LookInv
<1>3. PICK p \in Part : /\ reg[c].home = {p} /\ reg[c].list = mVerts[p] /\ i \in mVerts[p]
                        /\ reg[c].num = numVertices
  BY <1>1, <1>2, OnlyParts DEF PartInv, CallInv
<1>4. i \notin mGhosts[p] /\ \A q \in Part : i \in mVerts[q] => q = p
  BY <1>3, Homes
<1>5. /\ mVerts' = [mVerts EXCEPT ![p] = mVerts[p] \ {i}]
      /\ mEdges' = [mEdges EXCEPT ![p] = Detached(mEdges[p], i)]
      /\ mInfo' = [mInfo EXCEPT ![p] = @ \ {i}]
      /\ mGhosts' = mGhosts
  BY <1>2, <1>3, <1>4 DEF Forget
<1>6. /\ mVerts'[p] = mVerts[p] \ {i} /\ \A q \in Part \ {p} : mVerts'[q] = mVerts[q]
      /\ mEdges'[p] = Detached(mEdges[p], i) /\ \A q \in Part \ {p} : mEdges'[q] = mEdges[q]
      /\ \A q \in Part : mInfo[q] \subseteq mInfo'[q] \cup {i}
  BY <1>5, OnlyParts DEF GlobalType
<1>7. \A q \in Part : /\ mVerts'[q] = mVerts[q] \ {i} /\ mEdges'[q] \subseteq mEdges[q]
                      /\ \A e \in mEdges[q] : e[1] # i /\ e[2] # i => e \in mEdges'[q]
  BY <1>4, <1>6 DEF Detached
<1>8. Live' = Live \ {i} /\ i \in Live
  BY <1>3, <1>7 DEF Live
<1>9. /\ KnowInv(c)' /\ Plain(c)' /\ Resting(c)' /\ ~Numbering(c)' /\ ~Numbering(c)
      /\ \A q \in Part : leg'[c][q] = "none"
  BY <1>1, FinishKnow DEF Reply, Numbering, Creating
<1>10. Resting(c)
  BY <1>1, OnlyParts, AtRest DEF Calls
<1>11. SyncInv(c)'
  <2>1. Gone(c) = {i} /\ Stays(c) = Live' /\ \A q \in Part : Cut(c, q) = {} /\ Born(c, q) = {}
    BY <1>1, <1>2, <1>8 DEF Gone, Stays, Cut, Born, Creating
  <2>2. ASSUME NEW q \in Part PROVE Goal(c, q)' = Goal(c, q)
    <3>1. (mVerts[q] \ Gone(c)) \cup Born(c, q) = mVerts'[q]
      BY <1>7, <2>1
    <3>2. mGhosts[q] \cap Stays(c) = mGhosts'[q] \cap Live'
      BY <1>5, <2>1
    <3>3. (mEdges[q] \cap (Stays(c) \X Stays(c))) \ Cut(c, q) = mEdges'[q] \cap (Live' \X Live')
      <4>1. ASSUME NEW e \in mEdges[q], e \in Live' \X Live' PROVE e \in mEdges'[q]
        BY <1>7, <1>8, <4>1
      <4> QED
        BY <1>7, <2>1, <4>1
    <3>4. Goal(c, q)
             = StoreOf(mVerts'[q], mGhosts'[q] \cap Live', mEdges'[q] \cap (Live' \X Live'))
      BY <3>1, <3>2, <3>3 DEF Goal
    <3>5. Goal(c, q)'
             = StoreOf(mVerts'[q], mGhosts'[q] \cap Live', mEdges'[q] \cap (Live' \X Live'))
      BY <1>9, PlainGoalNext
    <3> QED
      BY <3>4, <3>5
  <2> QED
    BY <1>1, <1>9, <1>10, <2>2, RestNext DEF workers
<1>12. CountInv'
  <2>1. numVertices' = numVertices - 1 /\ numVertices = Cardinality(Live)
    BY <1>1, <1>3, OnlyParts DEF CountInv
  <2>2. Cardinality(Live') = Cardinality(Live) - 1
    BY <1>8, OnlyParts, LiveFinite, FS_RemoveElement
  <2>3. \A q \in Part : \A e \in mEdges'[q] : e[1] \in Live' => e[1] \in mInfo'[q]
    BY <1>6, <1>7, <1>8, OnlyParts DEF CountInv
  <2> QED
    BY <2>1, <2>2, <2>3 DEF CountInv
<1>13. CalmInv(c)'
  BY <1>1, <1>9, OnlyParts DEF CalmInv, workers, channel
<1>14. NumbersInv(c)'
  <2>1. Known(c)' = Known(c)
    BY <1>1, <1>9 DEF Known, ids
  <2>2. ASSUME NEW q \in Part
        PROVE  mVerts'[q] \cup mGhosts'[q] \subseteq Known(c)
                  /\ mEdges'[q] \subseteq Known(c) \X Known(c)
    BY <1>5, <1>7, OnlyParts DEF NumbersInv
  <2> QED
    BY <1>9, <2>1, <2>2 DEF NumbersInv
<1>15. KeysInv(c)'
  BY <1>1, <1>8, <1>9, OnlyParts DEF KeysInv, ids, Numbering
<1> QED
  BY <1>9, <1>11, <1>12, <1>13, <1>14, <1>15 DEF SharedInv

\* The master forgets the edge where the workers have deleted it.
LEMMA EdgeDeletedWhole ==
  ASSUME NEW c \in Client, Only(c), EdgeDeleted(c)
  PROVE  SharedInv(c)' /\ KnowInv(c)'
<1>1. /\ pc[c] = "delEdge" /\ Resting(c) /\ Agreed(c)
      /\ UNCHANGED <<ids, mVerts, mGhosts, mInfo, numVertices, workers, db, channel>>
  BY OnlyParts, SettledRests DEF EdgeDeleted, Settled, Agreed
<1>2. Finish(c, "Delete") /\ Live' = Live
  BY <1>1 DEF EdgeDeleted, Live
<1>3. PICK e, P : e = Link(c) /\ P = reg[c].part
  OBVIOUS
<1>4. mEdges' = [q \in Part |-> IF q \in P THEN mEdges[q] \ {e} ELSE mEdges[q]]
  BY <1>1, <1>3 DEF EdgeDeleted
<1>5. \A q \in Part : mEdges'[q] = mEdges[q] \ (IF q \in P THEN {e} ELSE {})
  BY <1>4
<1>6. /\ KnowInv(c)' /\ Plain(c)' /\ Resting(c)' /\ ~Numbering(c)' /\ ~Numbering(c)
      /\ \A q \in Part : leg'[c][q] = "none"
  BY <1>1, <1>2, FinishKnow DEF Reply, Numbering, Creating
<1>7. SyncInv(c)'
  <2>1. ASSUME NEW q \in Part PROVE Goal(c, q)' = Goal(c, q)
    <3>1. Gone(c) = {} /\ Stays(c) = Live /\ Born(c, q) = {}
             /\ Cut(c, q) = IF q \in P THEN {e} ELSE {}
      BY <1>1, <1>3 DEF Gone, Stays, Cut, Born, Creating
    <3>2. (mVerts[q] \ Gone(c)) \cup Born(c, q) = mVerts'[q]
      BY <1>1, <3>1
    <3>3. mGhosts[q] \cap Stays(c) = mGhosts'[q] \cap Live'
      BY <1>1, <1>2, <3>1
    <3>4. (mEdges[q] \cap (Stays(c) \X Stays(c))) \ Cut(c, q) = mEdges'[q] \cap (Live' \X Live')
      BY <1>2, <1>5, <3>1
    <3>5. Goal(c, q)
             = StoreOf(mVerts'[q], mGhosts'[q] \cap Live', mEdges'[q] \cap (Live' \X Live'))
      BY <3>2, <3>3, <3>4 DEF Goal
    <3>6. Goal(c, q)'
             = StoreOf(mVerts'[q], mGhosts'[q] \cap Live', mEdges'[q] \cap (Live' \X Live'))
      BY <1>6, PlainGoalNext
    <3> QED
      BY <3>5, <3>6
  <2> QED
    BY <1>1, <1>6, <2>1, RestNext DEF workers
<1>8. CountInv' /\ CalmInv(c)'
  BY <1>1, <1>2, <1>5, <1>6, OnlyParts DEF CountInv, CalmInv, workers, channel
<1>9. NumbersInv(c)'
  <2>1. Known(c)' = Known(c)
    BY <1>1, <1>6 DEF Known, ids
  <2>2. \A q \in Part : mEdges'[q] \subseteq Known(c) \X Known(c)
    BY <1>5, OnlyParts DEF NumbersInv
  <2> QED
    BY <1>1, <1>6, <2>1, <2>2, OnlyParts DEF NumbersInv
<1>10. KeysInv(c)'
  BY <1>1, <1>2, <1>6, OnlyParts DEF KeysInv, ids, Numbering
<1> QED
  BY <1>6, <1>7, <1>8, <1>9, <1>10 DEF SharedInv

----------------------------------------------------------------------------
(* Every step.                                                             *)

\* Faults are counted and crashes remembered: nothing becomes calm again.
LEMMA CalmBack ==
  ASSUME IInv, [Next]_vars, Calm'
  PROVE  Calm
<1> SUFFICES faults = 0 /\ crashed = {}
  BY DEF Calm
<1>1. faults' = 0 /\ crashed' = {} /\ faults \in Nat
  <2>1. faults \in 0 .. MaxFaults
    BY DEF IInv, Base, TypeOK
  <2> QED
    BY <2>1 DEF Calm
<1>2. CASE UNCHANGED <<faults, crashed>>
  BY <1>1, <1>2
<1>3. ASSUME NEW c \in Client, NEW r \in Request, Begin(c, r) PROVE UNCHANGED <<faults, crashed>>
  BY <1>3 DEF Begin, channel, workers
<1>4. ASSUME NEW c \in Client, AddVertexStep(c) PROVE UNCHANGED <<faults, crashed>>
  BY <1>4 DEF AddVertexStep, NextVariable, VariablesDone, Exists, Place, VertexAdded,
              UpdateSummary, channel, workers
<1>5. ASSUME NEW c \in Client, LookStep(c) PROVE UNCHANGED <<faults, crashed>>
  BY <1>5 DEF LookStep, LookedA, LookedB, CheckedA, CheckedB, channel, workers
<1>6. ASSUME NEW c \in Client, AddEdgeStep(c) PROVE UNCHANGED <<faults, crashed>>
  BY <1>6 DEF AddEdgeStep, Plan, NeedGhost, AddGhost, GhostAdded, AddEdge, EdgeAdded,
              channel, workers
<1>7. ASSUME NEW c \in Client, DeleteStep(c) PROVE UNCHANGED <<faults, crashed>>
  BY <1>7 DEF DeleteStep, DeleteVertex, VertexDeleted, Forget, DeleteEdge, EdgeDeleted,
              channel, workers
<1>8. ASSUME NEW c \in Client, NEW p \in Part,
             Ask(c, p) \/ Deliver(c, p) \/ Unreachable(c, p) \/ RunQuery(c, p)
      PROVE  UNCHANGED <<faults, crashed>>
  BY <1>8 DEF Ask, Deliver, Unreachable, RunQuery, channel, workers
<1>9. ASSUME NEW c \in Client, NEW p \in Part, AskPanics(c, p) PROVE FALSE
  BY <1>1, <1>9 DEF AskPanics
<1>10. ASSUME NEW c \in Client, NEW p \in Part, AskFails(c, p) \/ Lose(c, p) PROVE FALSE
  BY <1>1, <1>10 DEF AskFails, Lose
<1>11. ASSUME NEW x \in late, LateDeliver(x) \/ LateRun(x) \/ LateDrop(x)
       PROVE  UNCHANGED <<faults, crashed>>
  BY <1>11 DEF LateDeliver, LateRun, LateDrop, workers
<1>12. ASSUME NEW p \in Part, Restart(p) PROVE UNCHANGED <<faults, crashed>>
  BY <1>12 DEF Restart, channel
<1>13. CASE UNCHANGED vars
  BY <1>2, <1>13 DEF vars, workers, channel
<1> QED
  BY <1>2, <1>3, <1>4, <1>5, <1>6, <1>7, <1>8, <1>9, <1>10, <1>11, <1>12, <1>13
     DEF Next, Progress

\* A step of the only client, while all is well.
LEMMA ProgressWhole ==
  ASSUME NEW c \in Client, Only(c), Progress(c), Calm'
  PROVE  SharedInv(c)' /\ KnowInv(c)'
<1>1. CASE AddVertexStep(c)
  BY <1>1, NextVariableWhole, VariablesDoneWhole, ExistsWhole, PlaceWhole, VertexAddedWhole,
     UpdateSummaryWhole DEF AddVertexStep
<1>2. CASE LookStep(c)
  BY <1>2, LookedAWhole, LookedBWhole, CheckedAWhole, CheckedBWhole DEF LookStep
<1>3. CASE AddEdgeStep(c)
  BY <1>3, PlanWhole, NeedGhostWhole, AddGhostWhole, GhostAddedWhole, AddEdgeWhole,
     EdgeAddedWhole DEF AddEdgeStep
<1>4. CASE DeleteStep(c)
  BY <1>4, DeleteVertexWhole, VertexDeletedWhole, ForgetWhole, DeleteEdgeWhole,
     EdgeDeletedWhole DEF DeleteStep
<1>5. ASSUME NEW p \in Part, Ask(c, p) \/ Deliver(c, p) \/ RunQuery(c, p)
      PROVE  SharedInv(c)' /\ KnowInv(c)'
  BY <1>5, AskWhole, DeliverWhole, RunQueryWhole
<1>6. ASSUME NEW p \in Part, AskPanics(c, p) PROVE FALSE
  BY <1>6 DEF AskPanics, Calm
<1>7. ASSUME NEW p \in Part, Unreachable(c, p) PROVE FALSE
  BY <1>7, OnlyParts DEF Unreachable, CalmInv
<1> QED
  BY <1>1, <1>2, <1>3, <1>4, <1>5, <1>6, <1>7 DEF Progress

\* Any step, while all is well.
LEMMA NextWhole ==
  ASSUME NEW c \in Client, Only(c), [Next]_vars, Calm'
  PROVE  SharedInv(c)' /\ KnowInv(c)'
<1>1. /\ \A d \in Client : d = c
      /\ faults = 0 /\ late = {} /\ \A p \in Part : up[p]
  BY OnlyParts DEF Only, CalmInv
<1>2. ASSUME NEW r \in Request, Begin(c, r) PROVE SharedInv(c)' /\ KnowInv(c)'
  BY <1>2, BeginWhole
<1>3. CASE Progress(c)
  BY <1>3, ProgressWhole
<1>4. ASSUME NEW p \in Part, AskFails(c, p) \/ Lose(c, p) PROVE FALSE
  BY <1>1, <1>4 DEF AskFails, Lose, Calm
<1>5. ASSUME NEW p \in Part, Restart(p) PROVE FALSE
  BY <1>1, <1>5 DEF Restart
<1>6. CASE UNCHANGED vars
  <2>1. UNCHANGED <<ids, metadata, workers, db, pc, local, sending, channel>>
    BY <1>6 DEF vars, ids, metadata, workers, local, sending, channel
  <2>2. /\ KnowInv(c)' /\ CountInv' /\ NumbersInv(c)' /\ KeysInv(c)'
        /\ \A p \in Part : Goal(c, p)' = Goal(c, p)
    BY <2>1, Unnoticed
  <2>3. CalmInv(c)'
    BY <2>1, OnlyParts DEF CalmInv, workers, sending, channel
  <2>4. SyncInv(c)'
    BY <2>1, <2>2, OnlyParts DEF SyncInv, workers, sending, metadata
  <2> QED
    BY <2>2, <2>3, <2>4 DEF SharedInv
<1> QED
  BY <1>1, <1>2, <1>3, <1>4, <1>5, <1>6 DEF Next

\* At first there is nothing.
LEMMA AloneInit == Init => AloneInv
<1> SUFFICES ASSUME Init, NEW c \in Client PROVE SharedInv(c) /\ KnowInv(c)
  BY DEF AloneInv
<1>1. /\ pc[c] = "idle" /\ reg[c] = NoReg /\ late = {} /\ numVertices = 0
      /\ \A p \in Part : /\ mVerts[p] = {} /\ mGhosts[p] = {} /\ mEdges[p] = {}
                         /\ mem[p] = EmptyStore /\ db[p] = EmptyStore
                         /\ up[p] /\ leg[c][p] = "none"
  BY DEF Init, NoLegs
<1>2. Live = {} /\ Plain(c) /\ ~Numbering(c) /\ ~Creating(c) /\ reg[c].req.op # "AddEdge"
  BY <1>1 DEF Live, Plain, Numbering, Creating, NoReg
<1>3. CountInv /\ CalmInv(c)
  BY <1>1, <1>2, FS_EmptySet DEF CountInv, CalmInv
<1>4. SyncInv(c)
  <2>1. ASSUME NEW p \in Part PROVE Goal(c, p) = EmptyStore
    <3>1. mVerts[p] = {} /\ mGhosts[p] \cap Live = {} /\ mEdges[p] \cap (Live \X Live) = {}
      BY <1>1
    <3>2. Goal(c, p) = StoreOf(mVerts[p], mGhosts[p] \cap Live, mEdges[p] \cap (Live \X Live))
      BY <1>2, PlainGoal
    <3> QED
      BY <3>1, <3>2 DEF StoreOf, EmptyStore
  <2> QED
    BY <1>1, <2>1 DEF SyncInv, Underway
<1>5. NumbersInv(c) /\ KeysInv(c)
  BY <1>1, <1>2 DEF NumbersInv, KeysInv
<1>6. MadeInv(c)
  BY <1>2 DEF MadeInv
<1>7. ScanInv(c) /\ EndsInv(c) /\ PartInv(c)
  BY <1>1 DEF ScanInv, EndsInv, PartInv, NodeScans
<1> QED
  BY <1>3, <1>4, <1>5, <1>6, <1>7 DEF SharedInv, KnowInv

\* Every step keeps the invariant.
LEMMA AloneStep == AloneInv /\ IInv /\ [Next]_vars => AloneInv'
<1> SUFFICES ASSUME AloneInv, IInv, [Next]_vars, Alone, Calm', NEW c \in Client
             PROVE  SharedInv(c)' /\ KnowInv(c)'
  BY DEF AloneInv, Alone
<1>1. Calm
  BY CalmBack
<1>2. Only(c)
  BY <1>1 DEF AloneInv, Alone, Only
<1> QED
  BY <1>2, NextWhole

----------------------------------------------------------------------------
(* What follows.                                                           *)

\* As long as requests come one at a time and nothing fails, the copies
\* differ by the message in progress and by nothing else, and the vertices a
\* request has found are there when it uses them.
THEOREM AloneInductive == Spec => []AloneInv
  BY Inductive, AloneInit, AloneStep, PTL DEF Spec

\* No two vertices that a search finds get the same type and properties (the
\* message "vertex already exists" of ProcessAddVertex2PC, sdp.go:53-55), as
\* long as requests come one at a time and nothing fails.
THEOREM KeysStayUnique == Spec => []KeyUniqueAlone
<1>1. IInv /\ AloneInv => KeyUniqueAlone
  <2> SUFFICES ASSUME IInv, AloneInv, Alone, Calm, NEW i \in Database, NEW j \in Database,
                      keyOf[i] = keyOf[j], keyOf[i] \in Findable
               PROVE  i = j
    BY DEF KeyUniqueAlone
  <2>1. PICK c \in Client : Only(c)
    BY DEF Alone, AloneInv, Only
  <2>2. ASSUME NEW k \in Database PROVE k \in Live \/ (Creating(c) /\ k = reg[c].id)
    <3>1. PICK p \in Part : k \in db[p].verts
      BY DEF Database
    <3>2. CASE leg[c][p] \in Underway
      BY <2>1, <3>1, <3>2, OnlyParts DEF SyncInv, Live
    <3>3. CASE leg[c][p] \notin Underway
      <4>1. db[p] = Goal(c, p)
        BY <2>1, <3>3, OnlyParts DEF SyncInv
      <4>2. Goal(c, p).verts = (mVerts[p] \ Gone(c)) \cup Born(c, p)
        BY DEF Goal, StoreOf
      <4>3. k \in mVerts[p] \/ k \in Born(c, p)
        BY <3>1, <4>1, <4>2
      <4> QED
        BY <4>3 DEF Born, Live
    <3> QED
      BY <3>2, <3>3
  <2>3. KeysInv(c)
    BY <2>1, OnlyParts
  <2>4. (i \in Live \/ (Creating(c) /\ i = reg[c].id))
           /\ (j \in Live \/ (Creating(c) /\ j = reg[c].id))
    BY <2>2
  <2>5. Creating(c) => \A k \in Live : keyOf[reg[c].id] \in Findable => keyOf[k] # keyOf[reg[c].id]
    BY <2>3, FindsItself DEF KeysInv, HasKey
  <2> QED
    BY <2>3, <2>4, <2>5 DEF KeysInv
<1> QED
  BY <1>1, Inductive, AloneInductive, PTL

\* Between requests the master, the memories and the Neo4js describe one
\* graph, as long as requests come one at a time, nothing fails and edges are
\* asked for between vertices that a search finds: what Run2PC is for
\* (ProcessAddVertex2PC to ProcessDeleteEdge2PC, sdp.go).
THEOREM CopiesAgree == Spec => []Agreement
<1>1. IInv /\ AloneInv => Agreement
  <2> SUFFICES ASSUME IInv, AloneInv, Alone, Calm, \A c \in Client : pc[c] = "idle"
               PROVE  /\ numVertices = Cardinality(Live)
                      /\ \A p \in Part :
                           /\ mem[p] = StoreOf(mVerts[p], mGhosts[p] \cap Live,
                                               mEdges[p] \cap (Live \X Live))
                           /\ db[p] = mem[p]
                           /\ {e[1] : e \in mEdges[p]} \cap Live \subseteq mInfo[p]
    BY DEF Agreement, StoreOf
  <2>1. PICK c \in Client : Only(c) /\ pc[c] = "idle"
    BY DEF Alone, AloneInv, Only
  <2>2. Plain(c) /\ Resting(c)
    BY <2>1, OnlyParts, AtRest DEF Plain, Calls
  <2>3. ASSUME NEW p \in Part
        PROVE  /\ mem[p]
                     = StoreOf(mVerts[p], mGhosts[p] \cap Live, mEdges[p] \cap (Live \X Live))
               /\ db[p] = mem[p]
    BY <2>1, <2>2, RestSync, PlainGoal
  <2>4. numVertices = Cardinality(Live)
           /\ \A p \in Part : \A e \in mEdges[p] : e[1] \in Live => e[1] \in mInfo[p]
    BY <2>1, OnlyParts DEF CountInv
  <2> QED
    BY <2>3, <2>4
<1> QED
  BY <1>1, Inductive, AloneInductive, PTL
=============================================================================
