---------------------------- MODULE CypherParser ----------------------------
(* Lexer, parser and tree walk: from the words of a text to the sequence of   *)
(* events the listener of the master receives.  A word is one token; blanks   *)
(* and comments are not words.  The parser is a recogniser of the grammar: at *)
(* a choice it takes the first alternative with which the rest of the text    *)
(* can be parsed, and it stops at the end of the longest prefix that is a     *)
(* query, because the rule `query' does not end in EOF.  Recovery inside a    *)
(* text of which no prefix is a query is not modelled.                         *)
EXTENDS Naturals, Sequences

CONSTANT Spelling   \* token types of the words that are not their own type

Grammar == INSTANCE CypherGrammar

Keywords ==
  Grammar!ReservedWords \cup
  {"CALL", "YIELD", "FILTER", "EXTRACT", "COUNT", "ANY", "NONE", "SINGLE"}

Signs ==
  {"=", "+=", "<=", ">=", ">", "<", "<>", "..", ";", ".", ",", "(", ")", "{",
   "}", "[", "]", "-", "+", "/", "%", "^", "*", ":", "|", "$"}

\* The lexer: keywords in any case, signs, literals; every other run of letters
\* and digits is an identifier, a number too.
TokenType(word) ==
  IF word \in DOMAIN Spelling THEN Spelling[word]
  ELSE IF word \in Keywords \cup Signs THEN word ELSE "ID"

TokenStream(words) == [i \in DOMAIN words |-> TokenType(words[i])]

-----------------------------------------------------------------------------
(* The parses of an item that start at token i, in the order of preference:   *)
(* the trees of the rules inside and the position after it.                   *)

\* The tokens an item can start with; no rule of the grammar is empty.
RECURSIVE FirstOf(_)
FirstOf(item) ==
  CASE item.kind = "token" -> item.types
    [] item.kind = "rule"  -> FirstOf(Grammar!Production[item.rule])
    [] item.kind = "oneOf" -> UNION {FirstOf(item.items[k]) : k \in DOMAIN item.items}
    [] item.kind = "then"  ->
         UNION {FirstOf(item.items[k]) : k \in
                  {k \in DOMAIN item.items :
                     \A j \in 1..(k - 1) : item.items[j].kind \in {"opt", "star"}}}
    [] OTHER -> FirstOf(item.items[1])
FirstSet == [rule \in DOMAIN Grammar!Production |-> FirstOf(Grammar!R(rule))]

Nothing(i) == [next |-> i, kids |-> <<>>]

\* <<>> \o evaluates the elements once.
Prefixed(kids, parses) ==
  <<>> \o [k \in DOMAIN parses |-> [parses[k] EXCEPT !.kids = kids \o @]]

RECURSIVE Parses(_, _, _)
RECURSIVE Sequel(_, _, _)
RECURSIVE SequelOfEach(_, _, _)
RECURSIVE Alternatives(_, _, _)

Parses(item, ts, i) ==
  CASE item.kind = "token" ->
         IF i <= Len(ts) /\ ts[i] \in item.types THEN <<Nothing(i + 1)>> ELSE <<>>
    [] item.kind = "rule" ->
         LET parses == IF i <= Len(ts) /\ ts[i] \in FirstSet[item.rule]
                       THEN Parses(Grammar!Production[item.rule], ts, i) ELSE <<>>
         IN  <<>> \o [k \in DOMAIN parses |->
               [next |-> parses[k].next,
                kids |-> <<[rule |-> item.rule, from |-> i, to |-> parses[k].next - 1,
                            kids |-> parses[k].kids]>>]]
    [] item.kind = "then"  -> Sequel(item.items, ts, i)
    [] item.kind = "oneOf" -> Alternatives(item.items, ts, i)
    [] item.kind = "opt"   -> Parses(item.items[1], ts, i) \o <<Nothing(i)>>
    [] item.kind = "star"  -> Sequel(<<item.items[1], item>>, ts, i) \o <<Nothing(i)>>

Sequel(items, ts, i) ==
  IF items = <<>> THEN <<Nothing(i)>>
  ELSE SequelOfEach(Parses(Head(items), ts, i), Tail(items), ts)

SequelOfEach(parses, items, ts) ==
  IF parses = <<>> THEN <<>>
  ELSE Prefixed(Head(parses).kids, Sequel(items, ts, Head(parses).next))
       \o SequelOfEach(Tail(parses), items, ts)

Alternatives(alts, ts, i) ==
  IF alts = <<>> THEN <<>>
  ELSE Parses(Head(alts), ts, i) \o Alternatives(Tail(alts), ts, i)
=============================================================================
