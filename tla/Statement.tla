------------------------------ MODULE Statement ------------------------------
(* What the master does with the text of a request, internal/master/web.go,   *)
(* parser.go and cypher_handler.go: a page sends one text (HandleCypher), an  *)
(* uploaded file several (HandleUpload).  A text is parsed, the listener       *)
(* QueryCollector walks its tree and collects subqueries, queries are          *)
(* generated from them, and the vertices, edges, deletions and matches found   *)
(* in these queries are carried out one after another.  The operations on the  *)
(* graph are modelled in GraphStore; here each one is done, is skipped after   *)
(* an error the handler ignores, or is refused with an error it passes on.     *)
(*                                                                            *)
(* BuildQueryTree is left out: its tree is counted and then dropped.  For an   *)
(* EXISTS with a MATCH inside it parses the text of the EXISTS without blanks  *)
(* and walks that tree too (parseNestedQuery).                                *)
EXTENDS QueryText

CONSTANT Request  \* [page : whether it comes from the page, pieces : its texts]

Texts == UNION {Range(r.pieces) : r \in Request}

ASSUME RequestAssumption ==
  \A r \in Request : r.page => Len(r.pieces) = 1 /\ r.pieces[1] # <<>>

VARIABLES
  request,    \* the request being served
  piece,      \* the number of the text being processed
  pc,         \* receive, walk, run, answered or panicked
  walk,       \* the events of the walk still to come
  collector,  \* QueryCollector and the subqueries it points to
  work,       \* calls still to be made for this text, and a panic they end in
  log,        \* the calls made, with their piece and result
  errors,     \* the pieces that returned an error
  reply       \* what the client is told

vars == <<request, piece, pc, walk, collector, work, log, errors, reply>>

-----------------------------------------------------------------------------
(* The tree of a text and the walk over it *)

NoTree == [rule |-> "none", from |-> 1, to |-> 0, kids |-> <<>>]
Longest(parses) ==
  IF parses = <<>> THEN NoTree
  ELSE LET k == CHOOSE k \in DOMAIN parses :
                  \A j \in DOMAIN parses :
                    /\ parses[j].next <= parses[k].next
                    /\ parses[j].next = parses[k].next => k <= j
       IN  parses[k].kids[1]
TreeOf(text) == Longest(Parses(Grammar!R("query"), TokenStream(text), 1))
Tree == [text \in Texts |-> TreeOf(text)]

\* The rest of the text is not looked at.
Whole(text) == Tree[text].rule = "query" /\ Tree[text].to = Len(text)

Kids(tree, rule) == SelectSeq(tree.kids, LAMBDA t : t.rule = rule)

\* ParseTreeWalker.Walk, restricted to the rules the listener overrides.
Heard ==
  {"matchSt", "createSt", "deleteSt", "where", "subqueryExist", "returnSt",
   "unionSt", "queryCallSt"}
RECURSIVE Walk(_)
Walk(tree) ==
  LET inner == FlattenSeq([k \in DOMAIN tree.kids |-> Walk(tree.kids[k])])
  IN  IF tree.rule \in Heard
      THEN <<[at |-> "enter", ctx |-> tree]>> \o inner \o <<[at |-> "exit", ctx |-> tree]>>
      ELSE inner
Events == [text \in Texts |-> Walk(Tree[text])]

\* The texts that are modelled: a prefix is a query and what follows it is not
\* the beginning of a part the parser would try to repair.
Recognised(text) ==
  \/ text = <<>>
  \/ /\ Tree[text].rule = "query"
     /\ \/ Tree[text].to = Len(text)
        \/ TokenType(text[Tree[text].to + 1]) \notin {"WITH", "UNION"}

Now == request.pieces[piece]
\* GetText of a subtree, which drops the blanks: keywords are searched as parts of
\* words, so that a text still has those of its words.
GetText(ctx) == SubSeq(Now, ctx.from, ctx.to)
StartsWith(ctx, keyword) == TokenType(Now[ctx.from]) = keyword

-----------------------------------------------------------------------------
(* Receiving *)

OnlyMatches(text) == Has(text, "MATCH") /\ ~Has(text, "CREATE") /\ ~Has(text, "DELETE")

\* heeded is for the properties: the rules whose entry had an effect.
NewCollector ==
  [heap |-> <<>>, Subqueries |-> <<>>, currentSubquery |-> 0, inUnion |-> FALSE,
   insideCall |-> 0, subqueryAdded |-> FALSE, heeded |-> {}]
NewSubquery == [Parts |-> <<>>, Conditions |-> <<>>, ReturnClause |-> <<>>]
NewPart(type) == [Type |-> type, BGPs |-> <<>>, Details |-> <<>>, Optional |-> FALSE]

Init ==
  /\ request \in {r \in Request : \A k \in DOMAIN r.pieces : Recognised(r.pieces[k])}
  /\ piece = 0 /\ pc = "receive" /\ walk = <<>>
  /\ collector = NewCollector
  /\ work = <<>> /\ log = <<>> /\ errors = {} /\ reply = "none"

Panic ==
  /\ pc' = "panicked"
  /\ UNCHANGED <<request, piece, walk, collector, work, log, errors, reply>>

\* A text is taken: HandleCypher, or the loop of HandleUpload, which leaves out
\* the empty ones.  A match from the page is cut by parseQuery before it is
\* walked, so that one out of order is not; every other text is.
Walked(text) == ~(request.page /\ OnlyMatches(text) /\ ~InOrder(text))
\* Mutant of Take: only the error of the last text is kept.
TakeForgetting ==
  /\ pc = "receive" /\ piece < Len(request.pieces)
  /\ piece' = piece + 1
  /\ pc' = IF request.pieces[piece + 1] = <<>> THEN "receive" ELSE "walk"
  /\ walk' = IF Walked(request.pieces[piece + 1]) THEN Events[request.pieces[piece + 1]]
             ELSE <<>>
  /\ collector' = NewCollector
  /\ errors' = {}
  /\ UNCHANGED <<request, work, log, reply>>

Take ==
  /\ pc = "receive" /\ piece < Len(request.pieces)
  /\ piece' = piece + 1
  /\ pc' = IF request.pieces[piece + 1] = <<>> THEN "receive" ELSE "walk"
  /\ walk' = IF Walked(request.pieces[piece + 1]) THEN Events[request.pieces[piece + 1]]
             ELSE <<>>
  /\ collector' = NewCollector
  /\ UNCHANGED <<request, work, log, errors, reply>>

\* The master answers: what ProcessAndAddCypherQuery returned for the page's
\* text, or success for a file of which no text failed.
Status(text) ==
  IF Has(text, "DELETE") THEN "Delete"
  ELSE IF OnlyMatches(text) THEN "match" ELSE "create"

Answer ==
  /\ pc = "receive" /\ piece = Len(request.pieces)
  /\ pc' = "answered"
  /\ reply' = IF errors # {} THEN "error"
              ELSE IF request.page THEN Status(Now) ELSE "success"
  /\ UNCHANGED <<request, piece, walk, collector, work, log, errors>>

-----------------------------------------------------------------------------
(* The walk: one action per method of QueryCollector *)

Pending == pc = "walk" /\ walk # <<>>
Ctx == Head(walk).ctx
Heeded(at, rule, next) ==
  IF at = "enter" /\ next # collector
  THEN {rule} \ {"where", "subqueryExist", "queryCallSt"} ELSE {}
On(at, rule, next) ==
  /\ Pending /\ Head(walk).at = at /\ Ctx.rule = rule
  /\ collector' = [next EXCEPT !.heeded = @ \cup Heeded(at, rule, next)]
  /\ walk' = Tail(walk)
  /\ UNCHANGED <<request, piece, pc, work, log, errors, reply>>

c == collector
InCall == c.insideCall > 0
\* Mutant of Opened: the mark of the subquery before stays.
OpenedMarked ==
  IF c.currentSubquery # 0 THEN c
  ELSE [c EXCEPT !.heap = Append(@, NewSubquery), !.currentSubquery = Len(c.heap) + 1]

Opened ==
  IF c.currentSubquery # 0 THEN c
  ELSE [c EXCEPT !.heap = Append(@, NewSubquery), !.currentSubquery = Len(c.heap) + 1,
                 !.subqueryAdded = FALSE]
WithPart(q, part) ==
  [q EXCEPT !.heap[q.currentSubquery].Parts = Append(@, part)]
Listed(q) == [q EXCEPT !.Subqueries = Append(@, q.currentSubquery)]
\* Mutant of ListedOnce: the mark is not looked at.
ListedAgain(q) ==
  IF q.currentSubquery = 0 THEN q ELSE [Listed(q) EXCEPT !.subqueryAdded = TRUE]

ListedOnce(q) ==
  IF q.subqueryAdded \/ q.currentSubquery = 0 THEN q
  ELSE [Listed(q) EXCEPT !.subqueryAdded = TRUE]

\* buildPatternChain: a pattern in parentheses leaves nothing.
Chains(pattern) ==
  LET parts == Kids(pattern, "patternPart")
      elem(k) == Kids(parts[k], "patternElem")[1]
  IN  [k \in DOMAIN parts |->
         IF Kids(elem(k), "nodePattern") = <<>> THEN <<>> ELSE GetText(elem(k))]

EnterMatchSt ==
  On("enter", "matchSt",
     IF InCall \/ c.inUnion THEN c
     ELSE WithPart(Opened,
            [NewPart("MATCH") EXCEPT !.Optional = StartsWith(Ctx, "OPTIONAL"),
               !.BGPs = Chains(Kids(Kids(Ctx, "patternWhere")[1], "pattern")[1])]))

EnterCreateSt ==
  On("enter", "createSt",
     IF InCall THEN c
     ELSE WithPart(Opened,
            [NewPart("CREATE") EXCEPT !.BGPs = Chains(Kids(Ctx, "pattern")[1])]))

\* Mutant of ExitCreateSt: the subquery is closed, as by RETURN.
ExitCreateStClosing ==
  On("exit", "createSt", [ListedOnce(c) EXCEPT !.currentSubquery = 0])

ExitCreateSt == On("exit", "createSt", ListedOnce(c))

EnterDeleteSt ==
  LET targets == Kids(Kids(Ctx, "expressionChain")[1], "expression")
      detach  == IF StartsWith(Ctx, "DETACH") THEN <<"DETACH">> ELSE <<>>
  IN  On("enter", "deleteSt",
         IF InCall THEN c
         ELSE WithPart(Opened,
                [NewPart("DELETE") EXCEPT !.Details = detach \o <<"DELETE">> \o
                   Join([k \in DOMAIN targets |-> GetText(targets[k])], Separator)]))

ExitDeleteSt == On("exit", "deleteSt", ListedOnce(c))

EnterWhere ==
  On("enter", "where",
     IF c.currentSubquery = 0 \/ InCall THEN c
     ELSE [c EXCEPT !.heap[c.currentSubquery].Conditions =
             Append(@, GetText(Kids(Ctx, "expression")[1]))])

\* No test for a missing subquery: the method panics.
ExistsWithoutSubquery ==
  /\ Pending /\ Head(walk).at = "enter" /\ Ctx.rule = "subqueryExist"
  /\ ~InCall /\ c.currentSubquery = 0
  /\ Panic

EnterSubqueryExist ==
  /\ InCall \/ c.currentSubquery # 0
  /\ On("enter", "subqueryExist",
        IF InCall THEN c
        ELSE WithPart(c, [NewPart("EXISTS") EXCEPT !.Details =
               SubSeq(Now, Ctx.from + 2, Ctx.to - 1)]))

EnterReturnSt ==
  LET items == Kids(Kids(Kids(Ctx, "projectionBody")[1], "projectionItems")[1],
                    "projectionItem")
      clause == Join([k \in DOMAIN items |-> GetText(items[k])], Separator)
  IN  On("enter", "returnSt",
         IF c.currentSubquery = 0 \/ InCall THEN c
         ELSE [ListedOnce([c EXCEPT !.heap[c.currentSubquery].ReturnClause = clause])
                 EXCEPT !.currentSubquery = 0])

EnterUnionSt ==
  LET q == [c EXCEPT !.inUnion = TRUE]
  IN  On("enter", "unionSt",
         IF c.currentSubquery = 0 THEN q
         ELSE [Listed(q) EXCEPT !.currentSubquery = 0, !.subqueryAdded = FALSE])

\* Mutant of ExitUnionSt: no test whether a subquery is open.
ExitUnionStUntested ==
  On("exit", "unionSt",
     [Listed([c EXCEPT !.inUnion = FALSE]) EXCEPT !.currentSubquery = 0,
                                                  !.subqueryAdded = TRUE])

ExitUnionSt ==
  LET q == [c EXCEPT !.inUnion = FALSE]
  IN  On("exit", "unionSt",
         IF c.currentSubquery = 0 THEN q
         ELSE [Listed(q) EXCEPT !.currentSubquery = 0, !.subqueryAdded = TRUE])

EnterQueryCallSt == On("enter", "queryCallSt", [c EXCEPT !.insideCall = @ + 1])
ExitQueryCallSt  == On("exit", "queryCallSt", [c EXCEPT !.insideCall = @ - 1])

\* Methods the listener does not override.
ExitUnheard ==
  \E rule \in {"matchSt", "where", "subqueryExist", "returnSt"} : On("exit", rule, c)

-----------------------------------------------------------------------------
(* From the subqueries to the calls *)

Generated ==
  FlattenSeq([k \in DOMAIN c.Subqueries |->
                GenerateQueriesFromBGPs(c.heap[c.Subqueries[k]])])

AddVertex(vertex)  == [op |-> "AddVertex", vertex |-> vertex]
AddEdge(from, to, detail) ==
  [op |-> "AddEdge", from |-> from, to |-> to, detail |-> detail]
DeleteVertex(vertex, drops) ==
  [op |-> "DeleteVertex", vertex |-> vertex, drops |-> drops]
DeleteEdge(from, to) == [op |-> "DeleteEdge", from |-> from, to |-> to]
Match(asked)       == [op |-> "Match", asked |-> asked]
\* No call: the next text is cut or compiled, and that panics.
Broken             == [op |-> "Panic"]

\* The CREATE branch of ProcessAndAddCypherQuery, for one generated query: every
\* variable is added as a vertex, then the edge.
Creations(text) ==
  LET names == VariablesOf(text)
      edges == EdgesOf(text)
      vertex(v) == VertexOf(findNodePattern(text, NamedBy(v)))
  IN  [k \in DOMAIN names |-> AddVertex(vertex(names[k]))]
      \o (IF Len(names) > 1
          THEN [k \in DOMAIN edges |->
                  AddEdge(vertex(edges[k][1]), vertex(edges[k][2]),
                          EdgeDetail(text, edges[k][1], edges[k][2]))]
          ELSE <<>>)


\* processDeleteQueries, for one generated query.  A query with an arrow is also
\* taken for the deletion of an edge, unless the vertex was not found.
HasArrow(text) == Adjacent(text, "-", ">") # {}
Detaching(text, target) ==
  IF Compiles(target)
  THEN DeleteVertex(VertexOf(findNodePattern(text, target)), IF HasArrow(text) THEN 1 ELSE 0)
  ELSE Broken
Cutting(text, targets) ==
  LET pats   == SelectSeq([k \in DOMAIN targets |-> findNodePattern(text, targets[k])],
                          LAMBDA p : p # <<>>)
      end(k) == VertexOf(IF Len(pats) < k THEN <<>> ELSE pats[IF k = 1 THEN 1 ELSE Len(pats)])
  IN  IF \A k \in DOMAIN targets : Compiles(targets[k]) THEN DeleteEdge(end(1), end(2))
      ELSE Broken
Deletions(text) ==
  IF ~Has(text, "DELETE") THEN <<>>
  ELSE (IF ~Detaches(text) THEN <<>>
        ELSE IF InOrder(text) THEN <<Detaching(text, DeleteClause(text))>> ELSE <<Broken>>)
       \o (IF ~HasArrow(text) THEN <<>>
           ELSE IF InOrder(text) THEN <<Cutting(text, Split(DeleteClause(text), {Separator}))>>
           ELSE <<Broken>>)

\* The patterns asked of the partitions: of the text itself, or of the queries
\* generated from it when it has several arrows.
Matched(text) ==
  IF QueryType(text) # "multiple_paths" THEN Match(Asked(text))
  ELSE IF \A k \in DOMAIN Generated : InOrder(Generated[k])
  THEN Match(FlattenSeq([k \in DOMAIN Generated |-> RebuiltPath(Generated[k])]))
  ELSE Broken

\* Mutant of Typed: a name in small letters counts as well.
TypedInAnyCase(text) == Has(text, "CREATE")

Typed(text) == Range(text) \cap InCapitals["CREATE"] # {}

Planned ==
  LET creations == IF Typed(Now)
                   THEN FlattenSeq([k \in DOMAIN Generated |-> Creations(Generated[k])])
                   ELSE <<>>
      deletions == IF Has(Now, "DELETE")
                   THEN FlattenSeq([k \in DOMAIN Generated |-> Deletions(Generated[k])])
                   ELSE <<>>
  IN  creations \o deletions \o (IF OnlyMatches(Now) THEN <<Matched(Now)>> ELSE <<>>)

EndWalk ==
  /\ pc = "walk" /\ walk = <<>>
  /\ OnlyMatches(Now) => InOrder(Now)
  /\ pc' = "run"
  /\ work' = Planned
  /\ UNCHANGED <<request, piece, walk, collector, log, errors, reply>>

SliceOutOfRange ==
  /\ pc = "walk" /\ walk = <<>>
  /\ OnlyMatches(Now) /\ ~InOrder(Now)
  /\ Panic

Breaks ==
  /\ pc = "run" /\ work # <<>> /\ work[1] = Broken
  /\ Panic

Made(result) ==
  /\ pc = "run" /\ work # <<>> /\ work[1] # Broken
  /\ log' = Append(log, [piece |-> piece, call |-> work[1], result |-> result])
  /\ UNCHANGED <<request, piece, pc, walk, collector, reply>>

\* A vertex without properties is looked for as (n:P{}), which asks for a label
\* P{} no vertex can have; and one whose description holds RETURN or DELETE by a
\* query that parseQuery cuts there.
Described(vertex) == {vertex.type} \cup {pair[1] : pair \in vertex.labels}
                     \cup {pair[2] : pair \in vertex.labels}
Found(vertex) ==
  /\ vertex.labels # {}
  /\ Described(vertex) \cap (DOMAIN Holding["RETURN"] \cup DOMAIN Holding["DELETE"]) = {}
CanBeFound(call) ==
  /\ call.op = "DeleteVertex" => Found(call.vertex)
  /\ call.op = "DeleteEdge" => Found(call.from) /\ Found(call.to)

CallDone ==
  /\ Made("done") /\ CanBeFound(work[1])
  /\ work' = Tail(work)
  /\ UNCHANGED errors

\* The error is dropped: `continue', and the match of an uploaded text.
CallSkipped ==
  /\ Made("skipped") /\ (work[1].op = "Match" => ~request.page)
  /\ work' = SubSeq(work, IF work[1].op = "DeleteVertex" THEN 2 + work[1].drops ELSE 2,
                    Len(work))
  /\ UNCHANGED errors

\* The error is returned: nothing more is done for this text.
CallRefused ==
  /\ Made("refused") /\ CanBeFound(work[1])
  /\ work[1].op # "AddVertex" /\ (work[1].op = "Match" => request.page)
  /\ work' = <<>>
  /\ errors' = errors \cup {piece}

PieceEnds ==
  /\ pc = "run" /\ work = <<>>
  /\ pc' = "receive"
  /\ UNCHANGED <<request, piece, walk, collector, work, log, errors, reply>>

Next ==
  \/ Take \/ Answer
  \/ EnterMatchSt \/ EnterCreateSt \/ ExitCreateSt \/ EnterDeleteSt \/ ExitDeleteSt
  \/ EnterWhere \/ EnterSubqueryExist \/ ExistsWithoutSubquery \/ EnterReturnSt
  \/ EnterUnionSt \/ ExitUnionSt \/ EnterQueryCallSt \/ ExitQueryCallSt \/ ExitUnheard
  \/ EndWalk \/ SliceOutOfRange
  \/ Breaks \/ CallDone \/ CallSkipped \/ CallRefused \/ PieceEnds

Spec == Init /\ [][Next]_vars

-----------------------------------------------------------------------------
(* What a text asks for, read from its tree alone *)

RECURSIVE Subtrees(_)
Subtrees(tree) ==
  <<tree>> \o FlattenSeq(<<>> \o [k \in DOMAIN tree.kids |-> Subtrees(tree.kids[k])])

\* A text with the subtrees of its tree.
Parts(p, rule) == SelectSeq(p.trees, LAMBDA t : t.rule = rule)
Encloses(ctx, t) == ctx.from <= t.from /\ t.to <= ctx.to
Within(p, ctx, rule) == SelectSeq(Parts(p, rule), LAMBDA t : Encloses(ctx, t))
Under(p, clause, rule) ==
  SelectSeq(Parts(p, rule), LAMBDA t : \E ctx \in Range(Parts(p, clause)) : Encloses(ctx, t))
Has1(p, clause) == Len(Parts(p, clause)) = 1
Lacks(p, rules) == \A rule \in rules : Parts(p, rule) = <<>>

NameOf(p, ctx) ==
  IF Kids(ctx, "symbol") = <<>> THEN "" ELSE p.words[Kids(ctx, "symbol")[1].from]
LabelsOf(p, ctx, rule) ==
  LET names == IF Kids(ctx, rule) = <<>> THEN <<>> ELSE Kids(Kids(ctx, rule)[1], "name")
  IN  [k \in DOMAIN names |-> p.words[names[k].from]]
PairsOf(p, ctx) ==
  {<<p.words[pair.from], p.words[pair.to]>> : pair \in Range(Within(p, ctx, "mapPair"))}
FirstLabel(labels) == IF labels = <<>> THEN "" ELSE labels[1]

VertexMeant(p, node) ==
  [type |-> FirstLabel(LabelsOf(p, node, "nodeLabels")), labels |-> PairsOf(p, node)]
RelationMeant(p, detail) ==
  [type |-> FirstLabel(LabelsOf(p, detail, "relationshipTypes")),
   labels |-> PairsOf(p, detail)]
NodeMeant(p, node) ==
  [variable |-> NameOf(p, node), labels |-> LabelsOf(p, node, "nodeLabels"),
   props |-> PairsOf(p, node)]

\* Its patterns by clause, and its vertices: the node patterns of MATCH and
\* CREATE, the first of every name.
FirstNamed(p, nodes) ==
  FoldLeft(LAMBDA found, n :
             IF \E f \in Range(found) : NameOf(p, f) = NameOf(p, n)
             THEN found ELSE Append(found, n),
           <<>>, nodes)
Reading(p) ==
  [words    |-> p.words,
   trees    |-> p.trees,
   creates  |-> Under(p, "createSt", "patternElem"),
   matches  |-> Under(p, "matchSt", "patternElem"),
   links    |-> Under(p, "createSt", "patternElemChain"),
   steps    |-> Under(p, "matchSt", "patternElemChain"),
   vertices |-> FirstNamed(p, Under(p, "matchSt", "nodePattern")
                              \o Under(p, "createSt", "nodePattern"))]
Parsed ==
  [text \in Texts |-> Reading([words |-> text, trees |-> Subtrees(Tree[text])])]

MeantBy(p, name) ==
  VertexMeant(p, SelectSeq(p.vertices, LAMBDA n : NameOf(p, n) = name)[1])

\* A pattern: a node, or a relationship with its ends.
RelMeant(p, rel) ==
  [variable |-> NameOf(p, rel), type |-> RelationMeant(p, rel).type,
   props |-> PairsOf(p, rel)]
PatternMeant(p, elem) ==
  LET from  == NodeMeant(p, Kids(elem, "nodePattern")[1])
      chain == Kids(elem, "patternElemChain")
  IN  IF chain = <<>> THEN [kind |-> "node", node |-> from]
      ELSE [kind |-> "relationship", from |-> from,
            rel |-> RelMeant(p, Within(p, chain[1], "relationDetail")[1]),
            to |-> NodeMeant(p, Kids(chain[1], "nodePattern")[1])]

Targets(p) ==
  {<<p.words[d.from], SubSeq(p.words, d.from + (IF p.words[d.from] = "DETACH" THEN 2 ELSE 1), d.to)>> :
     d \in Range(Parts(p, "deleteSt"))}

EndMeant(p, ctx) == MeantBy(p, NameOf(p, Kids(ctx, "nodePattern")[1]))
LinkMeant(p, from, link) ==
  AddEdge(EndMeant(p, from), EndMeant(p, link),
          RelationMeant(p, Within(p, link, "relationDetail")[1]))
\* A matched vertex is one that exists.
Existing(vertex) == [op |-> "Existing", vertex |-> vertex]
IsMatched(p, node) == node \in Range(Under(p, "matchSt", "nodePattern"))
VertexAsked(p, node) ==
  IF IsMatched(p, node) THEN Existing(VertexMeant(p, node)) ELSE AddVertex(VertexMeant(p, node))
Intended(p) ==
  IF Has1(p, "createSt")
  THEN [k \in DOMAIN p.vertices |-> VertexAsked(p, p.vertices[k])]
       \o [k \in DOMAIN p.links |-> LinkMeant(p, p.creates[k], p.links[k])]
  ELSE IF Has1(p, "deleteSt")
  THEN <<DeleteVertex(VertexMeant(p, p.vertices[1]), 0)>>
  ELSE <<Match([k \in DOMAIN p.matches |-> PatternMeant(p, p.matches[k])])>>

(* The texts that are carried out as they are written. *)

PlainNode(node) == \A k \in DOMAIN node.kids : node.kids[k].rule = "symbol"
ToTheRight(p, chain) ==
  LET rel == Kids(chain, "relationshipPattern")[1]
  IN  p.words[rel.from] = "-" /\ p.words[rel.to] = ">" /\ Kids(rel, "relationDetail") # <<>>
Unnamed(p, clause) == \E n \in Range(Under(p, clause, "nodePattern")) : NameOf(p, n) = ""

\* No name is misread: none holds a keyword, none begins like another one.
Hides(w, keywords) == \E k \in keywords : w \in DOMAIN Holding[k] /\ TokenType(w) # k
NamesAreClear(p) ==
  /\ ~\E w \in Range(p.words) : Hides(w, DOMAIN Holding)
  /\ \A v, w \in Range(p.words) : <<v, w>> \notin Begins

Single(elem) == Len(Kids(elem, "patternElemChain")) = 1

PlainCreation(p) ==
  /\ Has1(p, "createSt") /\ Lacks(p, {"matchSt", "deleteSt"})
  /\ Typed(p.words) /\ p.links = <<>> /\ Len(p.vertices) = Len(p.creates)

\* New vertices or an edge, next to what is matched; what is matched can be
\* searched for and is not described as what is created.
Meant(p, nodes) == {VertexMeant(p, node) : node \in nodes}
PlainAddition(p) ==
  /\ Has1(p, "createSt") /\ Has1(p, "matchSt") /\ Lacks(p, {"deleteSt"})
  /\ Typed(p.words) /\ p.steps = <<>>
  /\ LET matched == {node \in Range(p.vertices) : IsMatched(p, node)}
     IN  /\ \A vertex \in Meant(p, matched) : Found(vertex)
         /\ Meant(p, matched) \cap Meant(p, Range(p.vertices) \ matched) = {}
  /\ p.links # <<>> =>
       /\ Len(p.creates) = 1 /\ Single(p.creates[1])
       /\ \A n \in Range(Under(p, "createSt", "nodePattern")) :
            PlainNode(n) /\ Found(MeantBy(p, NameOf(p, n)))
       /\ NameOf(p, Within(p, p.links[1], "relationDetail")[1]) = ""

\* A vertex to delete.
PlainDeletion(p) ==
  /\ Has1(p, "deleteSt") /\ Has1(p, "matchSt") /\ Lacks(p, {"createSt"})
  /\ p.steps = <<>> /\ Len(p.matches) = 1
  /\ Targets(p) = {<<"DETACH", <<NameOf(p, p.vertices[1])>>>>}
  /\ Found(VertexMeant(p, p.vertices[1]))

\* One pattern, or several relationships between plain nodes.
PlainMatch(p) ==
  /\ Has1(p, "matchSt") /\ Lacks(p, {"createSt", "deleteSt"})
  /\ IF Len(p.matches) = 1 THEN Len(p.steps) <= 1
     ELSE /\ \A k \in DOMAIN p.matches : Single(p.matches[k])
          /\ \A n \in Range(Under(p, "matchSt", "nodePattern")) : PlainNode(n)
          /\ \A d \in Range(Under(p, "matchSt", "relationDetail")) :
               NameOf(p, d) # "" /\ PairsOf(p, d) = {}

Plain(p) ==
  /\ p.words # <<>> /\ Whole(p.words) /\ NamesAreClear(p)
  /\ Lacks(p, {"unionSt", "queryCallSt", "standaloneCall", "subqueryExist", "withSt",
               "mergeSt", "setSt", "removeSt", "where", "unwindSt"})
  /\ ~Unnamed(p, "matchSt") /\ ~Unnamed(p, "createSt")
  /\ \A link \in Range(p.links \o p.steps) : ToTheRight(p, link)
  /\ PlainCreation(p) \/ PlainAddition(p) \/ PlainDeletion(p) \/ PlainMatch(p)

PlainTexts == {text \in Texts : Plain(Parsed[text])}
Wanted == [text \in PlainTexts |-> Intended(Parsed[text])]

Calls(k) == SelectSeq(log, LAMBDA entry : entry.piece = k)

\* What became of a call: a vertex that exists already is not added.
Outcome(entry) ==
  IF entry.call.op = "AddVertex" /\ entry.result = "skipped" THEN Existing(entry.call.vertex)
  ELSE entry.call
Outcomes(k) == [j \in DOMAIN Calls(k) |-> Outcome(Calls(k)[j])]
\* Exactly the matched vertices exist, and everything else is done.
Ordinary(k) ==
  LET p == Parsed[request.pieces[k]]
  IN  \A entry \in Range(Calls(k)) :
        entry.result =
          IF /\ entry.call.op = "AddVertex"
             /\ entry.call.vertex \in Meant(p, Range(Under(p, "matchSt", "nodePattern")))
          THEN "skipped" ELSE "done"
Ended == {k \in 1..piece : k < piece \/ pc \in {"receive", "answered"}}

-----------------------------------------------------------------------------
(* The pointers of the listener *)

Pointers ==
  INSTANCE Listener WITH
    made <- Len(c.heap), Subqueries <- c.Subqueries, current <- c.currentSubquery,
    inUnion <- c.inUnion, insideCall <- c.insideCall, subqueryAdded <- c.subqueryAdded,
    heeded <- c.heeded

-----------------------------------------------------------------------------
(* Properties *)

\* The collector points to subqueries it has made, and everything left to do is
\* one of the five operations or a panic.
TypeOK ==
  /\ request \in Request /\ piece \in 0..Len(request.pieces)
  /\ pc \in {"receive", "walk", "run", "answered", "panicked"}
  /\ c.currentSubquery \in 0..Len(c.heap)
  /\ Range(c.Subqueries) \subseteq DOMAIN c.heap
  /\ c.insideCall \in Nat /\ c.inUnion \in BOOLEAN /\ c.subqueryAdded \in BOOLEAN
  /\ \A k \in DOMAIN work :
       work[k].op \in {"AddVertex", "AddEdge", "DeleteVertex", "DeleteEdge", "Match", "Panic"}
  /\ errors \subseteq 1..piece
  /\ reply \in {"none", "create", "Delete", "match", "success", "error"}


\* A subquery of a statement without UNION is listed once, whatever its CREATE,
\* DELETE and RETURN do (subqueryAdded, parser.go): nothing is created twice.
SubqueryOnce == Pointers!SubqueryOnce

\* The listener moves its pointers as Listener says, whose theorems hold for any
\* text: subqueries are listed in order, none is forgotten, UNION lists none more
\* than twice (QueryCollector, parser.go).
ImplementsListener == Pointers!Spec

\* What a text that ends the handler with a panic has, of those that parse: an
\* EXISTS behind no clause that opens a subquery or behind a RETURN, the word
\* RETURN before the word MATCH, a name or a value that holds one of the keywords
\* parseQuery looks for, or something to DELETE that is more than a name.  An
\* EXISTS in the WHERE of a MATCH is safe.  Clauses within a CALL do not count,
\* as the listener skips them; a UNION does.
RECURSIVE BareName(_)
BareName(target) ==
  \/ Len(target) = 1
  \/ /\ Len(target) > 2 /\ target[1] = "(" /\ Last(target) = ")"
     /\ BareName(Inside(target))
FirstToken(text, type) == SelectInSeq(text, LAMBDA w : TokenType(w) = type)
PanicsOnlyWhere ==
  pc = "panicked" =>
    LET p == Parsed[Now] IN
    \/ 0 < FirstToken(Now, "RETURN") /\ FirstToken(Now, "RETURN") < FirstToken(Now, "MATCH")
    \/ \E w \in Range(Now) : Hides(w, {"MATCH", "RETURN", "DELETE"})
    \/ \E d \in Range(Parts(p, "deleteSt")) :
         \E e \in Range(Kids(Kids(d, "expressionChain")[1], "expression")) :
           ~BareName(GetText(e))
    \/ \E e \in Range(Parts(p, "subqueryExist")) :
         LET Before(rule) ==
               \E t \in Range(Parts(p, rule)) :
                 /\ t.from < e.from
                 /\ rule = "unionSt" \/ t \notin Range(Under(p, "queryCallSt", rule))
         IN  \/ Before("returnSt") \/ Before("unionSt")
             \/ ~\E rule \in {"matchSt", "createSt", "deleteSt"} : Before(rule)

\* The answer tells of an operation that was refused, for a file also when it
\* was not the last of its texts; and a refused text stops none behind it.
UploadHonest ==
  pc = "answered" =>
    /\ (reply = "error") = \E entry \in Range(log) : entry.result = "refused"
    /\ \A k \in DOMAIN request.pieces :
         request.pieces[k] \in PlainTexts => Calls(k) # <<>>

\* Nothing is added for a text without CREATE, nothing deleted for one without
\* DELETE, unless a name or a value holds the keyword (in capitals for CREATE):
\* the handler looks for keywords anywhere in the text, and again in the queries
\* it generates.
WritesAreAsked ==
  \A entry \in Range(log) :
    LET text == request.pieces[entry.piece]
        p    == Parsed[text]
        Asks(clause, keyword) ==
          Parts(p, clause) # <<>> \/ \E w \in Range(text) : Hides(w, {keyword})
    IN  Whole(text) =>
          /\ entry.call.op \in {"AddVertex", "AddEdge"} =>
               /\ Asks("createSt", "CREATE")
               /\ Range(text) \cap InCapitals["CREATE"] # {}
          /\ entry.call.op \in {"DeleteVertex", "DeleteEdge"} => Asks("deleteSt", "DELETE")

=============================================================================
