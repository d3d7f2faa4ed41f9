--------------------------- MODULE CypherGrammar ---------------------------
(* The language the master accepts: the rules of the Cypher parser, one      *)
(* definition per rule, each under the name of its rule function.  A          *)
(* production is built from tokens and rules by sequence, choice, option and  *)
(* repetition; the order of a choice is the order in which the parser prefers *)
(* its alternatives.  Tokens are named by their keyword or their sign.        *)
EXTENDS Sequences

Tok(t)      == [kind |-> "token", types |-> {t}]
AnyOf(ts)   == [kind |-> "token", types |-> ts]
R(r)        == [kind |-> "rule", rule |-> r]
Then(items) == [kind |-> "then", items |-> items]
OneOf(alts) == [kind |-> "oneOf", items |-> alts]
Opt(x)      == [kind |-> "opt", items |-> <<x>>]
Star(x)     == [kind |-> "star", items |-> <<x>>]

Plus(x)         == Then(<<x, Star(x)>>)
OptTok(t)       == Opt(Tok(t))
Chain(x, sep)   == Then(<<x, Star(Then(<<sep, x>>))>>)
CommaList(x)    == Chain(x, Tok(","))
Paren(x)        == Then(<<Tok("("), x, Tok(")")>>)
Keyword(t, x)   == Then(<<Tok(t), x>>)

-----------------------------------------------------------------------------
(* Statements *)

script         == Then(<<R("query"), OptTok(";"), Tok("EOF")>>)
query          == OneOf(<<R("regularQuery"), R("standaloneCall")>>)
regularQuery   == Then(<<R("singleQuery"), Star(R("unionSt"))>>)
singleQuery    == OneOf(<<R("singlePartQ"), R("multiPartQ")>>)
standaloneCall ==
  Then(<<Tok("CALL"), R("invocationName"), Opt(R("parenExpressionChain")),
         Opt(Keyword("YIELD", OneOf(<<Tok("*"), R("yieldItems")>>)))>>)
returnSt       == Keyword("RETURN", R("projectionBody"))
withSt         == Keyword("WITH", Then(<<R("projectionBody"), Opt(R("where"))>>))
skipSt         == Keyword("SKIP", R("expression"))
limitSt        == Keyword("LIMIT", R("expression"))
projectionBody ==
  Then(<<OptTok("DISTINCT"), R("projectionItems"),
         Opt(R("orderSt")), Opt(R("skipSt")), Opt(R("limitSt"))>>)
projectionItems ==
  Then(<<OneOf(<<Tok("*"), R("projectionItem")>>),
         Star(Keyword(",", R("projectionItem")))>>)
projectionItem == Then(<<R("expression"), Opt(Keyword("AS", R("symbol")))>>)
orderItem      ==
  Then(<<R("expression"), Opt(AnyOf({"ASCENDING", "ASC", "DESCENDING", "DESC"}))>>)
orderSt        == Keyword("ORDER", Keyword("BY", CommaList(R("orderItem"))))
singlePartQ    ==
  Then(<<Star(R("readingStatement")),
         OneOf(<<R("returnSt"),
                 Then(<<Plus(R("updatingStatement")), Opt(R("returnSt"))>>)>>)>>)
multiPartQ     ==
  Then(<<Star(R("readingStatement")),
         Plus(Then(<<Star(R("updatingStatement")), R("withSt")>>)),
         R("singlePartQ")>>)
matchSt        == Then(<<OptTok("OPTIONAL"), Tok("MATCH"), R("patternWhere")>>)
unwindSt       == Keyword("UNWIND", Then(<<R("expression"), Tok("AS"), R("symbol")>>))
readingStatement  == OneOf(<<R("matchSt"), R("unwindSt"), R("queryCallSt")>>)
updatingStatement ==
  OneOf(<<R("createSt"), R("mergeSt"), R("deleteSt"), R("setSt"), R("removeSt")>>)
deleteSt       == Then(<<OptTok("DETACH"), Tok("DELETE"), R("expressionChain")>>)
removeSt       == Keyword("REMOVE", CommaList(R("removeItem")))
removeItem     ==
  OneOf(<<Then(<<R("symbol"), R("nodeLabels")>>), R("propertyExpression")>>)
queryCallSt    ==
  Then(<<Tok("CALL"), R("invocationName"), R("parenExpressionChain"),
         Opt(Keyword("YIELD", R("yieldItems")))>>)
parenExpressionChain == Paren(Opt(R("expressionChain")))
yieldItems     == Then(<<CommaList(R("yieldItem")), Opt(R("where"))>>)
yieldItem      == Then(<<Opt(Then(<<R("symbol"), Tok("AS")>>)), R("symbol")>>)
mergeSt        == Keyword("MERGE", Then(<<R("patternPart"), Star(R("mergeAction"))>>))
mergeAction    == Keyword("ON", Then(<<AnyOf({"MATCH", "CREATE"}), R("setSt")>>))
setSt          == Keyword("SET", CommaList(R("setItem")))
setItem        ==
  OneOf(<<Then(<<R("propertyExpression"), Tok("="), R("expression")>>),
          Then(<<R("symbol"), AnyOf({"=", "+="}), R("expression")>>),
          Then(<<R("symbol"), R("nodeLabels")>>)>>)
nodeLabels     == Plus(Keyword(":", R("name")))
createSt       == Keyword("CREATE", R("pattern"))
patternWhere   == Then(<<R("pattern"), Opt(R("where"))>>)
where          == Keyword("WHERE", R("expression"))
unionSt        == Keyword("UNION", Then(<<OptTok("ALL"), R("singleQuery")>>))

-----------------------------------------------------------------------------
(* Patterns *)

pattern        == CommaList(R("patternPart"))
patternPart    == Then(<<Opt(Then(<<R("symbol"), Tok("=")>>)), R("patternElem")>>)
patternElem    ==
  OneOf(<<Then(<<R("nodePattern"), Star(R("patternElemChain"))>>),
          Paren(R("patternElem"))>>)
patternElemChain == Then(<<R("relationshipPattern"), R("nodePattern")>>)
properties     == OneOf(<<R("mapLit"), R("parameter")>>)
nodePattern    ==
  Paren(Then(<<Opt(R("symbol")), Opt(R("nodeLabels")), Opt(R("properties"))>>))
relationshipPattern ==
  OneOf(<<Then(<<Tok("<"), Tok("-"), Opt(R("relationDetail")), Tok("-"), OptTok(">")>>),
          Then(<<Tok("-"), Opt(R("relationDetail")), Tok("-"), OptTok(">")>>)>>)
relationDetail ==
  Then(<<Tok("["), Opt(R("symbol")), Opt(R("relationshipTypes")),
         Opt(R("rangeLit")), Opt(R("properties")), Tok("]")>>)
relationshipTypes ==
  Then(<<Tok(":"), R("name"), Star(Then(<<Tok("|"), OptTok(":"), R("name")>>))>>)
relationshipsChainPattern == Then(<<R("nodePattern"), Plus(R("patternElemChain"))>>)

-----------------------------------------------------------------------------
(* Expressions, from the loosest operator to the tightest *)

expression         == Chain(R("xorExpression"), Tok("OR"))
xorExpression      == Chain(R("andExpression"), Tok("XOR"))
andExpression      == Chain(R("notExpression"), Tok("AND"))
notExpression      == Then(<<OptTok("NOT"), R("comparisonExpression")>>)
comparisonExpression == Chain(R("addSubExpression"), R("comparisonSigns"))
comparisonSigns    == AnyOf({"=", "<=", ">=", ">", "<", "<>"})
addSubExpression   == Chain(R("multDivExpression"), AnyOf({"+", "-"}))
multDivExpression  == Chain(R("powerExpression"), AnyOf({"*", "/", "%"}))
powerExpression    == Chain(R("unaryAddSubExpression"), Tok("^"))
unaryAddSubExpression == Then(<<Opt(AnyOf({"+", "-"})), R("atomicExpression")>>)
atomicExpression   ==
  Then(<<R("propertyOrLabelExpression"),
         Star(OneOf(<<R("stringExpression"), R("listExpression"),
                      R("nullExpression")>>))>>)
listExpression     ==
  OneOf(<<Keyword("IN", R("propertyOrLabelExpression")),
          Then(<<Tok("["),
                 OneOf(<<Then(<<Opt(R("expression")), Tok(".."), Opt(R("expression"))>>),
                         R("expression")>>),
                 Tok("]")>>)>>)
stringExpression   == Then(<<R("stringExpPrefix"), R("propertyOrLabelExpression")>>)
stringExpPrefix    ==
  OneOf(<<Keyword("STARTS", Tok("WITH")), Keyword("ENDS", Tok("WITH")),
          Tok("CONTAINS")>>)
nullExpression     == Then(<<Tok("IS"), OptTok("NOT"), Tok("NULL")>>)
propertyOrLabelExpression == Then(<<R("propertyExpression"), Opt(R("nodeLabels"))>>)
propertyExpression == Then(<<R("atom"), Star(Keyword(".", R("name")))>>)
atom ==
  OneOf(<<R("literal"), R("parameter"), R("caseExpression"), R("countAll"),
          R("listComprehension"), R("patternComprehension"), R("filterWith"),
          R("relationshipsChainPattern"), R("parenthesizedExpression"),
          R("functionInvocation"), R("symbol"), R("subqueryExist")>>)
lhs                == Then(<<R("symbol"), Tok("=")>>)
subqueryExist      ==
  Then(<<Tok("EXISTS"), Tok("{"), OneOf(<<R("regularQuery"), R("patternWhere")>>),
         Tok("}")>>)
invocationName     == Chain(R("symbol"), Tok("."))
functionInvocation ==
  Then(<<R("invocationName"),
         Paren(Then(<<OptTok("DISTINCT"), Opt(R("expressionChain"))>>))>>)
parenthesizedExpression == Paren(R("expression"))
filterWith         ==
  Then(<<AnyOf({"ALL", "ANY", "NONE", "SINGLE"}), Paren(R("filterExpression"))>>)
patternComprehension ==
  Then(<<Tok("["), Opt(R("lhs")), R("relationshipsChainPattern"), Opt(R("where")),
         Tok("|"), R("expression"), Tok("]")>>)
listComprehension  ==
  Then(<<Tok("["), R("filterExpression"), Opt(Keyword("|", R("expression"))), Tok("]")>>)
filterExpression   ==
  Then(<<R("symbol"), Tok("IN"), R("expression"), Opt(R("where"))>>)
countAll           == Then(<<Tok("COUNT"), Paren(Tok("*"))>>)
expressionChain    == CommaList(R("expression"))
caseExpression     ==
  Then(<<Tok("CASE"), Opt(R("expression")),
         Plus(Then(<<Tok("WHEN"), R("expression"), Tok("THEN"), R("expression")>>)),
         Opt(Keyword("ELSE", R("expression"))), Tok("END")>>)
parameter          == Keyword("$", OneOf(<<R("symbol"), R("numLit")>>))

-----------------------------------------------------------------------------
(* Literals and names *)

\* Mutant of rangeLit: the number is required.
rangeLitCounted ==
  Then(<<Tok("*"), R("numLit"), Opt(Keyword("..", Opt(R("numLit"))))>>)

rangeLit == Then(<<Tok("*"), Opt(R("numLit")), Opt(Keyword("..", Opt(R("numLit"))))>>)

literal  == OneOf(<<R("boolLit"), R("numLit"), Tok("NULL"), R("stringLit"),
                    R("charLit"), R("listLit"), R("mapLit")>>)
boolLit  == AnyOf({"TRUE", "FALSE"})
numLit   == Tok("DIGIT")
stringLit == Tok("STRING_LITERAL")
charLit  == Tok("CHAR_LITERAL")
listLit  == Then(<<Tok("["), Opt(R("expressionChain")), Tok("]")>>)
mapLit   == Then(<<Tok("{"), Opt(CommaList(R("mapPair"))), Tok("}")>>)
mapPair  == Then(<<R("name"), Tok(":"), R("expression")>>)
name     == OneOf(<<R("symbol"), R("reservedWord")>>)
symbol   == AnyOf({"ESC_LITERAL", "ID", "COUNT", "FILTER", "EXTRACT", "ANY",
                   "NONE", "SINGLE"})
ReservedWords ==
  {"ALL", "ASC", "ASCENDING", "BY", "CREATE", "DELETE", "DESC", "DESCENDING",
   "DETACH", "EXISTS", "LIMIT", "MATCH", "MERGE", "ON", "OPTIONAL", "ORDER",
   "REMOVE", "RETURN", "SET", "SKIP", "WHERE", "WITH", "UNION", "UNWIND", "AND",
   "AS", "CONTAINS", "DISTINCT", "ENDS", "IN", "IS", "NOT", "OR", "STARTS",
   "XOR", "FALSE", "TRUE", "NULL", "CONSTRAINT", "DO", "FOR", "REQUIRE",
   "UNIQUE", "CASE", "WHEN", "THEN", "ELSE", "END", "MANDATORY", "SCALAR", "OF",
   "ADD", "DROP"}
reservedWord == AnyOf(ReservedWords)

-----------------------------------------------------------------------------
(* The production of each rule, by its name. *)
Production ==
  [script |-> script, query |-> query, regularQuery |-> regularQuery,
   singleQuery |-> singleQuery, standaloneCall |-> standaloneCall,
   returnSt |-> returnSt, withSt |-> withSt, skipSt |-> skipSt,
   limitSt |-> limitSt, projectionBody |-> projectionBody,
   projectionItems |-> projectionItems, projectionItem |-> projectionItem,
   orderItem |-> orderItem, orderSt |-> orderSt, singlePartQ |-> singlePartQ,
   multiPartQ |-> multiPartQ, matchSt |-> matchSt, unwindSt |-> unwindSt,
   readingStatement |-> readingStatement,
   updatingStatement |-> updatingStatement, deleteSt |-> deleteSt,
   removeSt |-> removeSt, removeItem |-> removeItem,
   queryCallSt |-> queryCallSt,
   parenExpressionChain |-> parenExpressionChain, yieldItems |-> yieldItems,
   yieldItem |-> yieldItem, mergeSt |-> mergeSt, mergeAction |-> mergeAction,
   setSt |-> setSt, setItem |-> setItem, nodeLabels |-> nodeLabels,
   createSt |-> createSt, patternWhere |-> patternWhere, where |-> where,
   pattern |-> pattern, expression |-> expression,
   xorExpression |-> xorExpression, andExpression |-> andExpression,
   notExpression |-> notExpression,
   comparisonExpression |-> comparisonExpression,
   comparisonSigns |-> comparisonSigns,
   addSubExpression |-> addSubExpression,
   multDivExpression |-> multDivExpression,
   powerExpression |-> powerExpression,
   unaryAddSubExpression |-> unaryAddSubExpression,
   atomicExpression |-> atomicExpression, listExpression |-> listExpression,
   stringExpression |-> stringExpression,
   stringExpPrefix |-> stringExpPrefix, nullExpression |-> nullExpression,
   propertyOrLabelExpression |-> propertyOrLabelExpression,
   propertyExpression |-> propertyExpression, patternPart |-> patternPart,
   patternElem |-> patternElem, patternElemChain |-> patternElemChain,
   properties |-> properties, nodePattern |-> nodePattern, atom |-> atom,
   lhs |-> lhs, relationshipPattern |-> relationshipPattern,
   relationDetail |-> relationDetail,
   relationshipTypes |-> relationshipTypes, unionSt |-> unionSt,
   subqueryExist |-> subqueryExist, invocationName |-> invocationName,
   functionInvocation |-> functionInvocation,
   parenthesizedExpression |-> parenthesizedExpression,
   filterWith |-> filterWith, patternComprehension |-> patternComprehension,
   relationshipsChainPattern |-> relationshipsChainPattern,
   listComprehension |-> listComprehension,
   filterExpression |-> filterExpression, countAll |-> countAll,
   expressionChain |-> expressionChain, caseExpression |-> caseExpression,
   parameter |-> parameter, literal |-> literal, rangeLit |-> rangeLit,
   boolLit |-> boolLit, numLit |-> numLit, stringLit |-> stringLit,
   charLit |-> charLit, listLit |-> listLit, mapLit |-> mapLit,
   mapPair |-> mapPair, name |-> name, symbol |-> symbol,
   reservedWord |-> reservedWord]
=============================================================================
