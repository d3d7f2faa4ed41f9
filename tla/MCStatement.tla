----------------------------- MODULE MCStatement -----------------------------
(* Small instances of Statement: clauses put together in every order the      *)
(* grammar accepts, the example texts of internal/master/parser/examples, and *)
(* files of two texts.                                                        *)
EXTENDS Statement, TLC

Vertex(v, n) == <<"(", v, ":", "P", "{", "x", ":", n, "}", ")">>
Labelled(v)  == <<"(", v, ":", "P", ")">>
Bare(v)      == <<"(", v, ")">>
To(r)        == <<"-", "[">> \o r \o <<"]", "-", ">">>
Ty           == <<":", "R">>

MatchA     == <<"MATCH">> \o Vertex("a", "1")
MatchBoth  == MatchA \o <<",">> \o Vertex("b", "2")
MatchLong  == <<"MATCH">> \o Vertex("ab", "2") \o <<",">> \o Vertex("a", "1")
MatchPath  == <<"MATCH">> \o Vertex("a", "1") \o To(<<"r", ":", "R">>) \o Vertex("b", "2")
MatchWhere == MatchA \o <<"WHERE", "a", ".", "x", "=", "1">>
MatchExists ==
  MatchA \o <<"WHERE", "EXISTS", "{", "MATCH">> \o Labelled("b") \o To(Ty) \o Bare("a")
  \o <<"RETURN", "b", "}">>
MatchTwo ==
  <<"MATCH">> \o Bare("a") \o To(<<"q", ":", "R">>) \o Bare("b") \o <<",">>
  \o Bare("b") \o To(<<"r", ":", "R">>) \o Bare("c")
MatchChain ==
  <<"MATCH">> \o Bare("a") \o To(<<"q", ":", "R">>) \o Bare("b")
  \o To(<<"r", ":", "R">>) \o Bare("c")
MatchNameless == <<"MATCH", "(", ":", "P", ")">> \o To(Ty) \o Bare("b")
MatchOptional == <<"OPTIONAL">> \o MatchA
CreateB    == <<"CREATE">> \o Vertex("b", "2")
CreateBoth == <<"CREATE">> \o Vertex("a", "1") \o <<",">> \o Vertex("b", "2")
CreateEdge == <<"CREATE">> \o Bare("a") \o To(Ty) \o Bare("b")
CreateBack == <<"CREATE">> \o Bare("b") \o <<"<", "-", "[">> \o Ty \o <<"]", "-">> \o Bare("a")
CreateNamed ==
  <<"CREATE">> \o Bare("a") \o To(<<"r", ":", "R", "{", "w", ":", "1", "}">>) \o Bare("b")
Small      == <<"create">> \o Vertex("a", "1")
Detach     == <<"DETACH", "DELETE", "a">>
DeleteTwo  == <<"DELETE", "a", ",", "b">>
DeleteRel  == <<"DELETE", "r">>
Return     == <<"RETURN", "a">>
ReturnExists ==
  <<"RETURN", "EXISTS", "{">> \o Bare("a") \o To(Ty) \o Bare("b") \o <<"}">>
With       == <<"WITH", "a">>
WithExists ==
  With \o <<"WHERE", "EXISTS", "{">> \o Bare("a") \o To(Ty) \o Bare("b") \o <<"}">>
Unwind     == <<"UNWIND", "a", "AS", "b">>
Call       == <<"CALL", "p", "(", "a", ")">>
Set        == <<"SET", "a", ".", "x", "=", "2">>
Merge      == <<"MERGE">> \o Vertex("a", "1")
MatchNamed(label) == <<"MATCH", "(", "a", ":", label, ")">>
MatchLabels == <<"MATCH">> \o Labelled("a") \o <<",">> \o Labelled("b")
Where      == <<"WHERE", "a", ".", "x", "=", "1">>
WhereExists(inside) == <<"WHERE", "EXISTS", "{">> \o inside \o <<"}">>

Clause ==
  {MatchA, MatchBoth, MatchLong, MatchPath, MatchWhere, MatchExists, MatchTwo,
   MatchChain, MatchNameless, MatchOptional, CreateB, CreateBoth, CreateEdge,
   CreateBack, CreateNamed, Small, Detach, DeleteTwo, DeleteRel, Return,
   ReturnExists, With, WithExists, Unwind, Call, Set, Merge,
   MatchNamed("created"), MatchNamed("CREATED")}

\* Clauses others follow, and clauses that come in threes.
Leading ==
  {MatchA, MatchBoth, MatchLong, MatchPath, MatchExists, CreateB, Return, With, Unwind}
Common == {MatchA, CreateB, Detach, With, Return}

\* The branches of a UNION.
Branch == {CreateBoth, MatchA \o Return, CreateB \o Return, ReturnExists}

Clauses ==
  Clause \cup {p \o q : p \in Leading, q \in Clause}
  \cup {p \o q \o s : p, q, s \in Common}
  \cup {p \o <<"UNION">> \o q : p, q \in Branch}
  \cup {p \o Return : p \in {MatchTwo, MatchChain, MatchNameless, MatchOptional,
          MatchWhere, Small, Merge, MatchNamed("created"), MatchNamed("CREATED")}}
  \cup {MatchA \o Detach \o Where, MatchPath \o Detach \o Return,
        MatchBoth \o CreateEdge \o Return, MatchTwo \o With \o Return,
        CreateB \o WithExists \o Return}

\* Names and values that hold a keyword.
With1(v, key, value) == <<"(", v, ":", "P", "{", key, ":", value, "}", ")">>
Hiding ==
  {<<"MATCH">> \o With1("a", "returned", "1") \o Return,
   <<"MATCH">> \o With1("a", "x", "\"The Return\"") \o Return,
   <<"MATCH">> \o With1("a", "x", "\"The Return\"") \o Detach,
   <<"MATCH">> \o Vertex("a", "1") \o To(<<"deleted", ":", "R">>) \o Vertex("b", "2")
     \o To(<<"s", ":", "R">>) \o Vertex("c", "10") \o Return,
   <<"MATCH">> \o With1("a", "deleted", "1") \o To(<<"r">>) \o Bare("b") \o Return,
   <<"UNWIND", "returns", "AS", "x", "MATCH">> \o Bare("n") \o <<"RETURN", "n">>,
   <<"CREATE", "(", "a", ":", "Deleted", ")">> \o To(<<"r", ":", "matched">>) \o Bare("b"),
   CreateB \o <<"DETACH", "DELETE", "matched">>,
   MatchTwo \o WhereExists(Bare("returned") \o To(Ty) \o Bare("matched")) \o Return,
   MatchTwo \o WhereExists(<<"match">> \o Bare("b") \o <<"return", "b">>) \o Return}

\* Targets of DELETE that are more than a name.
Targeted ==
  {m \o d : m \in {MatchA, MatchPath},
            d \in {<<"DETACH", "DELETE", "(", "a", ")">>,
                   <<"DETACH", "DELETE", "xs", "[", "3", "-", "1", "]">>,
                   <<"DELETE", "xs", "[", "3", "-", "1", "]", ",", "a">>,
                   <<"DELETE", "xs", "[", "1", "]">>,
                   <<"DELETE", "count", "(", "*", ")">>}}

\* Vertices described by their label alone.
Labels ==
  {MatchLabels \o CreateEdge, MatchLabels \o Detach, <<"CREATE">> \o Labelled("a"),
   <<"MATCH">> \o Labelled("a") \o CreateB}

\* internal/master/parser/examples, without the quotes of the lexer's hidden
\* channel and the comments.
Examples ==
  {<<"CALL", "test", ".", "proc", "(", "a", ",", "b", ",", "c", ")",
    "RETURN", "*">>,
   <<"CALL", "test", ".", "proc", "(", ")", "RETURN", "*">>,
   <<"CALL", "test", ".", "proc", "(", ")", "YIELD", "a", "AS", "v",
    "RETURN", "*">>,
   <<"CALL", "proc", "(", ")", "YIELD", "a", "AS", "v", "RETURN", "*">>,
   <<"CALL", "db", ".", "labels", "(", ")", "YIELD", "label", "WHERE",
    "label", "CONTAINS", "User", "RETURN", "count", "(", "label", ")", "AS",
    "numLabels">>,
   <<"CALL", "db", ".", "labels", "(", ")", "YIELD", "label", ",", "foo",
    ",", "bar", "WHERE", "label", "CONTAINS", "User", "AND", "foo", "+",
    "bar", "=", "foo", "RETURN", "count", "(", "label", ")", "AS",
    "numLabels">>,
   <<"CALL", "db", ".", "labels", "(", ")", "YIELD", "x", "WHERE", "label",
    "CONTAINS", "User", "AND", "foo", "+", "bar", "=", "foo", "RETURN",
    "count", "(", "label", ")", "AS", "numLabels">>,
   <<"CREATE", "(", ")">>,
   <<"CREATE", "(", "n", ":", "Person", "{", "name", ":", "Andres", ",",
    "title", ":", "Developer", "}", ")">>,
   <<"CREATE", "(", ")", "-", "[", "v", ":", "R", "{", "prop", ":", "42",
    "}", "]", "-", ">", "(", ")">>,
   <<"MATCH", "(", "node1", ":", "Label1", ")", "WHERE", "node1", ".",
    "propertyA", "=", "$", "value", "RETURN", "node2", ".", "propertyA", ",",
    "node2", ".", "propertyB">>,
   <<"MATCH", "(", "tom", ":", "Person", ")", "-", "[", ":", "ACTED_IN", "]",
    "-", ">", "(", "tomHanksMovies", ")", "RETURN", "tom">>,
   <<"match", "(", "n", ")", "return", "n">>,
   <<"MATCH", "(", "n", ")", "WHERE", "(", "n", ".", "name", "=", "Peter",
    ")", "RETURN", "1">>,
   <<"MATCH", "(", ")", "-", "[", "r", ":", "ACTED_IN", "*", "]", "-", "(",
    ")", "RETURN", "r">>,
   <<"MATCH", "(", ")", "-", "[", "r", ":", "ACTED_IN", "*", "..", "]", "-",
    "(", ")", "RETURN", "r">>,
   <<"RETURN", "-1">>,
   <<"RETURN", "0xd34db33f">>,
   <<"RETURN", "-1.5e10">>,
   <<"RETURN", ".5">>,
   <<"MATCH", "(", "n1", ")", ",", "(", "n2", ")", "RETURN", "n1", ",",
    "n2">>,
   <<"RETURN", "toInteger", "(", ")">>,
   <<"MATCH", "(", "n", ")", "WITH", "n", ".", "prop", "AS", "p", "RETURN",
    "toInteger", "(", "DISTINCT", "p", ")">>,
   <<"MATCH", "(", "a", ":", "A", ")", "RETURN", "a", "AS", "a", "UNION",
    "MATCH", "(", "b", ":", "B", ")", "RETURN", "b", "AS", "a">>,
   <<"MATCH", "(", "a", ":", "A", ")", "RETURN", "a", "AS", "a", "UNION",
    "MATCH", "(", "b", ":", "B", ")", "RETURN", "b", "AS", "a", "UNION",
    "MATCH", "(", "c", ":", "C", ")", "RETURN", "c", "AS", "a">>,
   <<"MATCH", "(", "a", ":", "A", ")", "RETURN", "a", "AS", "a", "UNION",
    "ALL", "MATCH", "(", "b", ":", "B", ")", "RETURN", "b", "AS", "a",
    "UNION", "ALL", "MATCH", "(", "c", ":", "C", ")", "RETURN", "c", "AS",
    "a">>,
   <<"MATCH", "(", "s", ":", "Store", ")", "WHERE", "s", ".", "storeFormat",
    "=", "Open", "RETURN", "DISTINCT", "s", ".", "storeFormat", "ORDER", "BY",
    "s", ".", "storeFormat", "DESCENDING", "LIMIT", "5">>,
   <<"RETURN", "''", "AS", "n", "ORDER", "BY", "n", "DESC">>,
   <<"MATCH", "(", "other", ":", "Person", ")", "WHERE", "NOT", "other", ".",
    "age", ">", "25", "RETURN", "other", ".", "name">>,
   <<"WITH", "1", "AS", "one", "WHERE", "one", ">", "0", "RETURN", "one">>,
   <<"MATCH", "(", "a", ")", ",", "(", "b", ")", ",", "(", "c", ")",
    "DELETE", "a", ",", "b", ",", "c">>,
   <<"RETURN", "[", "x", "IN", "[", "1", ",", "''", ",", "n", "]", "|",
    "toString", "(", "x", ")", "]", "AS", "list">>,
   <<"RETURN", "[", "x", "IN", "[", "1", ",", "''", ",", "n", "]", "|",
    "toString", "(", "x", ")", "+", "-", "string", "]", "AS", "list">>,
   <<"RETURN", "[", "]">>,
   <<"MATCH", "(", "n", ")", "SET", "n", ".", "prop", "=", "10">>,
   <<"MATCH", "(", "n", ")", "SET", "n", ":", "Label">>,
   <<"MATCH", "(", "n", ")", "SET", "n", "+=", "$", "param">>,
   <<"RETURN", "[", "(", ")", "-", "-", ">", "(", ")", "|", "1", "]">>,
   <<"RETURN", "[", "(", "a", ")", "-", "-", ">", "(", ")", "WHERE", "a",
    ":", "Label", "|", "55", "+", "a", ".", "prop", "]">>,
   <<"RETURN", "[", "p", "=", "(", "a", ")", "-", "-", ">", "(", ")",
    "WHERE", "a", ":", "Label", "|", "55", "+", "a", ".", "prop", "]">>,
   <<"RETURN", "1">>,
   <<"MATCH", "(", "a", ")", "WHERE", "all", "(", "a", "IN", "[", "]",
    "WHERE", "a", ".", "prop", ")", "RETURN", "1">>,
   <<"MATCH", "(", "a", ")", "CALL", "proc", "(", ")", "RETURN", "*">>,
   <<"MATCH", "(", "p", ")", "WHERE", "{", "foo", ":", "p", "}", ".", "foo",
    ":", "Person", ":", "Teacher", "RETURN", "p">>,
   <<"MATCH", "(", "n", ")", "CREATE", "(", ")", "WITH", "n", "SET", "n",
    ".", "foo", "=", "1", "RETURN", "n", ".", "bar">>,
   <<"MATCH", "(", "a", ")", ",", "(", "b", ")", ",", "(", "c", ")",
    "CREATE", "(", ")", "WITH", "*", "DELETE", "a", "RETURN", "a">>,
   <<"REMOVE", "null", ".", "p">>,
   <<"DELETE", "a", "WITH", "1", "RETURN", "2">>,
   <<"SET", "null", ".", "p", "=", "2">>,
   <<"WITH", "*", "CREATE", "(", ")", "RETURN", "a">>,
   <<"WITH", "*", "WITH", "*", "CREATE", "(", ")", "WITH", "*", "RETURN",
    "1">>}

\* The parser takes the whole of every example text of the grammar; stated where
\* a request is received.
ExamplesAccepted == piece = 0 => \A text \in Examples : Whole(text)

MCRequest ==
  {[page |-> TRUE, pieces |-> <<t>>] :
     t \in Clauses \cup Examples \cup Hiding \cup Targeted \cup Labels}
  \cup {[page |-> FALSE, pieces |-> <<s, t, <<>>>>] :
          s, t \in {CreateBoth, MatchBoth \o CreateEdge, MatchA \o Detach,
                    MatchA \o Return, Set, ReturnExists}}

MCSpelling ==
  "create" :> "CREATE" @@ "count" :> "COUNT" @@ "match" :> "MATCH"
  @@ "return" :> "RETURN" @@ "all" :> "ALL" @@ "null" :> "NULL"
  @@ "-1" :> "DIGIT" @@ "-1.5e10" :> "DIGIT" @@ ".5" :> "DIGIT"
  @@ "''" :> "CHAR_LITERAL" @@ "\"The Return\"" :> "STRING_LITERAL"
MCWord ==
  {"$", "''", "(", ")", "*", "+", "+=", ",", "-", "-1", "-1.5e10", ".", "..",
   ".5", "0", "0xd34db33f", "1", "10", "2", "25", "42", "5", "55", ":", "<",
   "=", ">", "A", "ACTED_IN", "ALL", "AND", "AS", "Andres", "B", "BY", "C",
   "CALL", "CONTAINS", "CREATE", "CREATED", "DELETE", "DESC", "DESCENDING",
   "DETACH", "DISTINCT", "Developer", "EXISTS", "IN", "LIMIT", "Label",
   "Label1", "MATCH", "MERGE", "NOT", "OPTIONAL", "ORDER", "Open", "P",
   "Person", "Peter", "R", "REMOVE", "RETURN", "SET", "Store", "Teacher",
   "UNION", "UNWIND", "User", "WHERE", "WITH", "YIELD", "[", "]", "a", "ab",
   "age", "all", "b", "bar", "c", "count", "create", "created", "db", "foo",
   "label", "labels", "list", "match", "n", "n1", "n2", "name", "node1",
   "node2", "null", "numLabels", "one", "other", "p", "param", "proc",
   "prop", "propertyA", "propertyB", "q", "r", "return", "s", "storeFormat",
   "string", "test", "title", "toInteger", "toString", "tom",
   "tomHanksMovies", "v", "value", "w", "x", "{", "|", "}", "3", "\"The Return\"",
   "Deleted", "d", "deleted", "ed", "matched", "returned", "returns", "xs"}
MCNumeral == {"-1", "-1.5e10", ".5", "0", "0xd34db33f", "1", "2", "3", "5", "10", "25", "42", "55"}
MCBegins  ==
  {<<"a", "ab">>, <<"a", "all">>, <<"a", "age">>, <<"c", "count">>, <<"c", "create">>,
   <<"c", "created">>, <<"n", "n1">>, <<"n", "n2">>, <<"n", "name">>, <<"n", "node1">>,
   <<"n", "node2">>, <<"n", "null">>, <<"n", "numLabels">>, <<"p", "proc">>,
   <<"p", "prop">>, <<"p", "propertyA">>, <<"p", "propertyB">>, <<"p", "param">>,
   <<"r", "return">>, <<"s", "storeFormat">>, <<"s", "string">>, <<"v", "value">>,
   <<"label", "labels">>, <<"tom", "tomHanksMovies">>, <<"b", "bar">>,
   <<"d", "db">>, <<"d", "deleted">>, <<"match", "matched">>, <<"r", "returned">>,
   <<"r", "returns">>, <<"return", "returned">>, <<"return", "returns">>, <<"x", "xs">>}
MCHolding ==
  [MATCH |-> "MATCH" :> <<>> @@ "match" :> <<>> @@ "matched" :> <<"ed">>,
   CREATE |-> "CREATE" :> <<>> @@ "create" :> <<>> @@ "created" :> <<"d">>
              @@ "CREATED" :> <<"D">>,
   DELETE |-> "DELETE" :> <<>> @@ "deleted" :> <<"d">> @@ "Deleted" :> <<"d">>,
   RETURN |-> "RETURN" :> <<>> @@ "return" :> <<>> @@ "returned" :> <<"ed">>
              @@ "returns" :> <<"s">> @@ "\"The Return\"" :> <<"\"">>]
MCInCapitals == [MATCH |-> {"MATCH"}, CREATE |-> {"CREATE", "CREATED"}]
MCReversed   == {<<"3", "1">>}
=============================================================================
