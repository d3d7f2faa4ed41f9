------------------------------ MODULE QueryText ------------------------------
(* The functions of the master that read and write query text: the queries    *)
(* it generates from the collected parts of a statement, and the regular      *)
(* expressions with which it finds variables, node patterns, edges and paths  *)
(* in a text.  A text is a sequence of words; a regular expression is built   *)
(* like a production of the grammar, from the words themselves.  Patterns    *)
(* are written without blanks inside, so blanks play no part; the comma with  *)
(* a blank behind it, by which the master separates what it joins, is a word. *)
(*                                                                            *)
(* Keywords are searched letter by letter, so that a name or a quoted value   *)
(* that holds one is found as well.  Words are of ASCII letters and hold at   *)
(* most one keyword; what a word has in front of it is left out.              *)
EXTENDS CypherParser, SequencesExt

CONSTANTS
  Word,     \* the words of the texts
  Numeral,  \* those that are numbers
  Begins,   \* the pairs <<v, w>>: the name v is a proper prefix of the name w
  Holding,  \* Holding[k]: the words that hold the keyword k, in any case, each
            \* with what it has behind it
  InCapitals,  \* InCapitals[k]: those of them that hold it in capitals
  Reversed  \* the pairs <<v, w>> that are no range of a character class

ASSUME WordAssumption ==
  /\ Numeral \subseteq Word
  /\ DOMAIN Holding = {"MATCH", "CREATE", "DELETE", "RETURN"}
  /\ \A k \in DOMAIN Holding : k \in DOMAIN Holding[k] /\ Holding[k][k] = <<>>
  /\ \A k \in DOMAIN InCapitals : InCapitals[k] \subseteq DOMAIN Holding[k]

Separator == ", "
Extra == {"MATCH", "OPTIONAL", "WHERE", "AND", "CREATE", "RETURN", "CALL",
          ",", Separator, "{", "}", "'found'"}
Text  == Word \cup Extra
Quoted == {w \in Text : TokenType(w) \in {"STRING_LITERAL", "CHAR_LITERAL"}} \cup {"'found'"}
\* [a-zA-Z]\w*
Name  == Text \ (Signs \cup {Separator} \cup Numeral \cup Quoted)

-----------------------------------------------------------------------------
(* Regular expressions *)

T(w)       == Grammar!Tok(w)
In(ws)     == Grammar!AnyOf(ws)
Re(items)  == Grammar!Then(items)
Maybe(x)   == Grammar!Opt(x)
AnyBut(w)  == Grammar!Star(In(Text \ {w}))
SomeBut(w) == Re(<<In(Text \ {w}), AnyBut(w)>>)

\* Where the matches that start at word i end, in the order of preference.
RECURSIVE Matches(_, _, _)
RECURSIVE InTurn(_, _, _)
Matches(re, text, i) ==
  CASE re.kind = "token" ->
         IF i <= Len(text) /\ text[i] \in re.types THEN <<i + 1>> ELSE <<>>
    [] re.kind = "then"  -> InTurn(re.items, text, i)
    [] re.kind = "opt"   -> Matches(re.items[1], text, i) \o <<i>>
    [] re.kind = "star"  -> InTurn(<<re.items[1], re>>, text, i) \o <<i>>

InTurn(items, text, i) ==
  IF items = <<>> THEN <<i>>
  ELSE LET ends == Matches(Head(items), text, i)
       IN  FlattenSeq(<<>> \o [k \in DOMAIN ends |-> InTurn(Tail(items), text, ends[k])])

\* FindAllString: the matches from left to right, none inside another.
RECURSIVE FindAll(_, _, _)
FindAll(re, text, i) ==
  IF i > Len(text) THEN <<>>
  ELSE LET ends == Matches(re, text, i)
       IN  IF ends = <<>> THEN FindAll(re, text, i + 1)
           ELSE <<SubSeq(text, i, ends[1] - 1)>> \o FindAll(re, text, ends[1])

\* FindString: the first match, empty when there is none.
FirstMatch(all) == IF all = <<>> THEN <<>> ELSE all[1]
Find(re, text) == FirstMatch(FindAll(re, text, 1))
FirstMatches(re, text) ==
  SelectSeq(<<Find(re, text)>>, LAMBDA match : match # <<>>)
\* FindStringSubmatch: word k of a match.
Nth(match, k) == IF match = <<>> THEN "" ELSE match[k]

\* The text before and behind word i, where 0 is no word.
UpTo(text, i) == IF i = 0 THEN text ELSE SubSeq(text, 1, i - 1)
Behind(text, i) == IF i = 0 THEN <<>> ELSE SubSeq(text, i + 1, Len(text))

RECURSIVE Split(_, _)
Split(text, seps) ==
  LET i == SelectInSeq(text, LAMBDA w : w \in seps)
  IN  IF i = 0 THEN <<text>> ELSE <<UpTo(text, i)>> \o Split(Behind(text, i), seps)

RECURSIVE Join(_, _)
Join(texts, sep) ==
  IF texts = <<>> THEN <<>>
  ELSE IF Len(texts) = 1 THEN texts[1]
  ELSE texts[1] \o <<sep>> \o Join(Tail(texts), sep)

\* strings.Index of a keyword in the text in capitals, and the text behind it.
At(text, keyword)  == SelectInSeq(text, LAMBDA w : w \in DOMAIN Holding[keyword])
Has(text, keyword) == At(text, keyword) # 0
BehindKeyword(text, keyword, i) ==
  IF i = 0 THEN <<>> ELSE Holding[keyword][text[i]] \o Behind(text, i)
After(text, keyword) == BehindKeyword(text, keyword, At(text, keyword))
Adjacent(text, v, w) == {i \in 1..(Len(text) - 1) : text[i] = v /\ text[i + 1] = w}

-----------------------------------------------------------------------------
(* What cypher_handler.go finds in a generated query *)

Named(open, close) == Re(<<T(open), In(Name), AnyBut(close), T(close)>>)
Seconds(matches) == [k \in DOMAIN matches |-> matches[k][2]]
Distinct(names) ==
  FoldLeft(LAMBDA found, v : IF v \in Range(found) THEN found ELSE Append(found, v),
           <<>>, names)


\* extractBGPVariables: the names behind a parenthesis, then those behind a
\* bracket, each once.
VariablesOf(text) ==
  Distinct(Seconds(FindAll(Named("(", ")"), text, 1) \o FindAll(Named("[", "]"), text, 1)))

StartingWith(v) == {v} \cup {w \in Text : <<v, w>> \in Begins}

\* findNodePattern compiles the text `target' as a regular expression.  A
\* parenthesis opens a group and a bracket a class; it is malformed when one is
\* left open, a group is closed that is not, a range of a class is reversed, or
\* a repetition has nothing to repeat.
Repetition == {"*", "+"}
ReadOn(s, w) ==
  [inClass |-> IF s.inClass THEN w # "]" \/ s.last = "[" ELSE w = "[",
   groups  |-> s.groups + (IF s.inClass THEN 0
                           ELSE IF w = "(" THEN 1 ELSE IF w = ")" THEN -1 ELSE 0),
   bad |-> \/ s.bad
           \/ s.inClass /\ s.last = "-" /\ <<s.before, w>> \in Reversed
           \/ ~s.inClass /\ w = ")" /\ s.groups = 0
           \/ ~s.inClass /\ w \in Repetition /\ s.last \in Repetition \cup {"("},
   last |-> w, before |-> s.last]
Compiles(target) ==
  LET end == FoldLeft(ReadOn,
                      [inClass |-> FALSE, groups |-> 0, bad |-> FALSE, last |-> "",
                       before |-> ""],
                      target)
  IN  ~end.bad /\ ~end.inClass /\ end.groups = 0

\* What it finds: all words of the target but the last must be there, the last
\* may go on.  Groups count for what is in them; other signs of a regular
\* expression are taken for themselves, and then no node pattern has them.
Ungrouped(target) == SelectSeq(target, LAMBDA w : w \notin {"(", ")"})
NodeReOf(words) ==
  IF words = <<>> THEN Re(<<T("("), AnyBut(")"), T(")")>>)
  ELSE Re(<<T("(")>> \o [k \in 1..(Len(words) - 1) |-> T(words[k])]
          \o <<In(StartingWith(Last(words))), AnyBut(")"), T(")")>>)
NodeRe(target) == NodeReOf(Ungrouped(target))
findNodePattern(text, target) == Find(NodeRe(target), text)

\* A value is a word, a number or in double quotes.
Value  == {w \in Text : TokenType(w) = "STRING_LITERAL"} \cup Name \cup Numeral
PropRe == Re(<<In(Name), T(":"), In(Value)>>)
Braces  == Re(<<T("{"), SomeBut("}"), T("}")>>)
Properties(text) ==
  {<<pair[1], pair[3]>> : pair \in Range(FindAll(PropRe, Find(Braces, text), 1))}

\* The vertex a node pattern describes: extractLabelsAndType.
VertexOf(nodePattern) ==
  [type |-> Nth(Find(Re(<<T(":"), In(Name)>>), nodePattern), 2),
   labels |-> Properties(nodePattern)]

BareNode == Re(<<T("("), Maybe(In(Name \cup Numeral)), T(")")>>)
Arrow ==
  Re(<<Maybe(T("<")), Maybe(T("-")), T("["), Maybe(In(Name \cup Numeral)),
       Maybe(Re(<<T(":"), In(Name \cup Numeral)>>)),
       Maybe(Re(<<T("{"), AnyBut("}"), T("}")>>)),
       T("]"), Maybe(T("-")), Maybe(T(">"))>>)

\* extractBGPEdges: the first edge between two nodes that are written as a name
\* alone; an arrow that starts with <- turns it round.
TurnedRound(arrow) == arrow[2] = "<" /\ arrow[3] = "-"
EdgeIn(found) ==
  LET from == IF found[2] = ")" THEN "" ELSE found[2]
      to   == IF found[Len(found) - 1] = "(" THEN "" ELSE found[Len(found) - 1]
  IN  IF TurnedRound(Find(Re(<<T(")"), Arrow, T("(")>>), found))
      THEN <<to, from>> ELSE <<from, to>>
EdgesOf(text) ==
  LET found == FirstMatches(Re(<<BareNode, Arrow, BareNode>>), text)
  IN  [k \in DOMAIN found |-> EdgeIn(found[k])]

NamedBy(v) == IF v = "" THEN <<>> ELSE <<v>>

\* extractEdgeLabelsAndType: only an arrow to the right is found.
Bracket == Re(<<T("["), AnyBut("]"), T("]")>>)
Labelling(detail) ==
  [type |-> Nth(Find(Re(<<T(":"), In(Text \ {":", "{"})>>), detail), 2),
   labels |-> Properties(detail)]
EdgeDetail(text, from, to) ==
  Labelling(Find(Bracket,
                 Find(Re(<<NodeRe(NamedBy(from)), T("-"), Bracket, T("-"), T(">"),
                           NodeRe(NamedBy(to))>>), text)))

-----------------------------------------------------------------------------
(* parseQuery, var_and_edge.go *)

\* parseNodePattern: what is left of the text between the parentheses when the
\* properties are taken out, split at the colons.
Pieces(parts, props) ==
  [variable |-> Nth(parts[1], 1),
   labels |-> [k \in 1..(Len(parts) - 1) |-> parts[k + 1][1]],
   props |-> props]
NodeAsked(inside) == Pieces(Split(Split(inside, {"{"})[1], {":"}), Properties(inside))

\* parseRelationshipPattern.
Typing(node) ==
  [variable |-> node.variable, type |-> Nth(node.labels, 1), props |-> node.props]
RelAsked(inside) == Typing(NodeAsked(inside))

Inside(text) == SubSeq(text, 2, Len(text) - 1)
NodeText == Re(<<T("("), SomeBut(")"), T(")")>>)
PathRe   == Re(<<NodeText, T("-"), Bracket, T("-"), T(">"), NodeText>>)

PathBetween(nodes, detail) ==
  [kind |-> "relationship", from |-> NodeAsked(Inside(nodes[1])),
   rel |-> RelAsked(Inside(detail)), to |-> NodeAsked(Inside(Last(nodes)))]
PathAsked(path) == PathBetween(FindAll(NodeText, path, 1), Find(Bracket, path))

\* The text between MATCH and DETACH DELETE, or else DELETE, or else RETURN;
\* ~InOrder: the slice is out of range and the call panics.
Detaches(text) == Adjacent(text, "DETACH", "DELETE") # {}
DetachAt(text) == Min(Adjacent(text, "DETACH", "DELETE"))
EndAt(text) ==
  IF Detaches(text) THEN DetachAt(text)
  ELSE IF Has(text, "DELETE") THEN At(text, "DELETE") ELSE At(text, "RETURN")
DeleteClause(text) ==
  IF Detaches(text) THEN Behind(text, DetachAt(text) + 1) ELSE After(text, "DELETE")
InOrder(text) ==
  Has(text, "MATCH") /\ EndAt(text) # 0 => At(text, "MATCH") < EndAt(text)
MatchPart(text) == After(UpTo(text, EndAt(text)), "MATCH")

TypeOf(part) ==
  IF Cardinality(Adjacent(part, "-", ">")) + Cardinality(Adjacent(part, "<", "-")) >= 2
  THEN "multiple_paths"
  ELSE IF Adjacent(part, "-", "[") # {}
          /\ \E i \in Adjacent(part, "-", ">") : i > 1 /\ part[i - 1] = "]"
  THEN "relationship" ELSE "node_only"
QueryType(text) == TypeOf(MatchPart(text))

\* The patterns the fragment queries ask for.  Every comma of a query of several
\* paths separates two of them.
NodesOf(matches) ==
  [k \in DOMAIN matches |-> [kind |-> "node", node |-> NodeAsked(Inside(matches[k]))]]
PathsOf(matches) == [k \in DOMAIN matches |-> PathAsked(matches[k])]
AskedOf(part) ==
  CASE TypeOf(part) = "node_only"    -> NodesOf(FirstMatches(NodeText, part))
    [] TypeOf(part) = "relationship" -> PathsOf(FirstMatches(PathRe, part))
    [] OTHER -> LET paths == Split(part, {",", Separator})
                IN  PathsOf(FlattenSeq([k \in DOMAIN paths |->
                                          FirstMatches(PathRe, paths[k])]))
Asked(text) == AskedOf(MatchPart(text))

\* buildSinglePathQuery and the second parseQuery: the first relationship of a
\* generated query, with the variables of its ends and nothing else of them; an
\* end without a variable leaves nothing to find.
Stripped(n) == [n EXCEPT !.labels = <<>>, !.props = {}]
Rebuilt(asked) ==
  IF \/ asked = <<>> \/ asked[1].kind = "node"
     \/ "" \in {asked[1].from.variable, asked[1].to.variable}
  THEN <<>>
  ELSE <<[asked[1] EXCEPT !.from = Stripped(@), !.to = Stripped(@), !.rel.props = {}]>>
RebuiltPath(text) == Rebuilt(Asked(text))

-----------------------------------------------------------------------------
(* GenerateQueriesFromBGPs, parser.go *)

PartsOf(subquery, type)  == SelectSeq(subquery.Parts, LAMBDA p : p.Type = type)
HasPart(subquery, type)  == PartsOf(subquery, type) # <<>>
LastPart(subquery, type) == Last(PartsOf(subquery, type))

Optionally(part) == IF part.Optional THEN <<"OPTIONAL">> ELSE <<>>
Conditions(subquery) ==
  IF subquery.Conditions = <<>> THEN <<>>
  ELSE <<"WHERE">> \o Join(subquery.Conditions, "AND")
Listing(names) ==
  IF names = <<>> THEN <<"'found'">> ELSE Join([k \in DOMAIN names |-> <<names[k]>>], Separator)
Returning(text) == <<"RETURN">> \o Listing(VariablesOf(text))

\* MATCH and CREATE in one subquery give one query, of the last of each.
CombinedQuery(subquery) ==
  LET match  == LastPart(subquery, "MATCH")
      create == LastPart(subquery, "CREATE")
  IN  <<"MATCH">> \o Optionally(match) \o Join(match.BGPs, Separator) \o Conditions(subquery)
      \o <<"CREATE">> \o Join(create.BGPs, Separator)
      \o (IF HasPart(subquery, "DELETE") THEN LastPart(subquery, "DELETE").Details
          ELSE IF subquery.ReturnClause # <<>>
          THEN <<"RETURN">> \o subquery.ReturnClause ELSE <<>>)

\* Otherwise every pattern of every part gives one.
PatternQuery(subquery, part, bgp) ==
  <<part.Type>> \o Optionally(part) \o bgp
  \o (IF part.Type = "MATCH" THEN Conditions(subquery) ELSE <<>>)
  \o (IF HasPart(subquery, "DELETE") THEN LastPart(subquery, "DELETE").Details
      ELSE Returning(bgp))

\* Here MATCH is searched in capitals.
ExistsQuery(part) ==
  LET i == SelectInSeq(part.Details, LAMBDA w : w \in InCapitals["MATCH"])
      pattern == BehindKeyword(part.Details, "MATCH", i)
  IN
  IF i # 0
  THEN <<"MATCH">> \o pattern \o Returning(pattern)
  ELSE <<"CALL", "{">> \o part.Details \o <<"}", "RETURN", "'found'">>

PartQueries(subquery, part) ==
  CASE part.Type \in {"MATCH", "CREATE"} ->
         [k \in DOMAIN part.BGPs |-> PatternQuery(subquery, part, part.BGPs[k])]
    [] part.Type = "DELETE" ->
         IF HasPart(subquery, "MATCH") \/ HasPart(subquery, "CREATE") THEN <<>>
         ELSE <<part.Details>>
    [] part.Type = "EXISTS" -> <<ExistsQuery(part)>>

GenerateQueriesFromBGPs(subquery) ==
  IF HasPart(subquery, "MATCH") /\ HasPart(subquery, "CREATE")
  THEN <<CombinedQuery(subquery)>>
  ELSE FlattenSeq([k \in DOMAIN subquery.Parts |->
                     PartQueries(subquery, subquery.Parts[k])])
=============================================================================
