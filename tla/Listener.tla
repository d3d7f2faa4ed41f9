------------------------------ MODULE Listener ------------------------------
(***************************************************************************)
(* The pointers of QueryCollector (internal/master/parser.go): which       *)
(* subqueries it has made, which one is open, and which are listed to be   *)
(* carried out.  A subquery is its number; what is collected in it is left *)
(* out.  The methods are called in any order, as far as the calls of a     *)
(* walk are nested: what holds here holds for every text.  A method that   *)
(* returns early is a stutter.  Statement implements this specification.   *)
(***************************************************************************)
EXTENDS Integers, Sequences, Functions

VARIABLES
  made,        \* how many subqueries were made
  Subqueries,  \* the listed ones, in their order
  current,     \* currentSubquery, 0 for nil
  inUnion, insideCall, subqueryAdded,
  heeded       \* the rules below whose entry had an effect in this text

vars == <<made, Subqueries, current, inUnion, insideCall, subqueryAdded, heeded>>

Openers == {"matchSt", "createSt", "deleteSt"}
Closers == {"returnSt", "unionSt"}

Init ==
  /\ made = 0 /\ Subqueries = <<>> /\ current = 0
  /\ inUnion = FALSE /\ insideCall = 0 /\ subqueryAdded = FALSE
  /\ heeded = {}

\* Each text has a collector of its own.
NewText ==
  /\ made' = 0 /\ Subqueries' = <<>> /\ current' = 0
  /\ inUnion' = FALSE /\ insideCall' = 0 /\ subqueryAdded' = FALSE
  /\ heeded' = {}

\* A clause goes into the open subquery, or opens one.
Open(rule) ==
  /\ insideCall = 0
  /\ heeded' = heeded \cup {rule}
  /\ \/ current # 0 /\ UNCHANGED <<made, current, subqueryAdded>>
     \/ current = 0 /\ made' = made + 1 /\ current' = made + 1 /\ subqueryAdded' = FALSE
  /\ UNCHANGED <<Subqueries, inUnion, insideCall>>

EnterMatchSt  == ~inUnion /\ Open("matchSt")
EnterCreateSt == Open("createSt")
EnterDeleteSt == Open("deleteSt")

\* The end of CREATE and of DELETE.
ExitWriting ==
  /\ current # 0 /\ ~subqueryAdded
  /\ Subqueries' = Append(Subqueries, current)
  /\ subqueryAdded' = TRUE
  /\ UNCHANGED <<made, current, inUnion, insideCall, heeded>>

EnterReturnSt ==
  /\ current # 0 /\ insideCall = 0
  /\ heeded' = heeded \cup {"returnSt"}
  /\ Subqueries' = IF subqueryAdded THEN Subqueries ELSE Append(Subqueries, current)
  /\ subqueryAdded' = TRUE
  /\ current' = 0
  /\ UNCHANGED <<made, inUnion, insideCall>>

\* Both ends of a branch list the open subquery, without a look at the mark, and
\* also inside a CALL.
Cut(mark) ==
  /\ \/ current = 0 /\ UNCHANGED <<Subqueries, subqueryAdded>>
     \/ current # 0 /\ Subqueries' = Append(Subqueries, current) /\ subqueryAdded' = mark
  /\ current' = 0
  /\ UNCHANGED <<made, insideCall>>

EnterUnionSt ==
  /\ inUnion' = TRUE
  /\ heeded' = heeded \cup {"unionSt"}
  /\ Cut(FALSE)
ExitUnionSt ==
  /\ "unionSt" \in heeded
  /\ inUnion' = FALSE
  /\ Cut(TRUE)
  /\ UNCHANGED heeded

EnterQueryCallSt ==
  /\ insideCall' = insideCall + 1
  /\ UNCHANGED <<made, Subqueries, current, inUnion, subqueryAdded, heeded>>
ExitQueryCallSt ==
  /\ insideCall > 0
  /\ insideCall' = insideCall - 1
  /\ UNCHANGED <<made, Subqueries, current, inUnion, subqueryAdded, heeded>>

Next ==
  \/ NewText
  \/ EnterMatchSt \/ EnterCreateSt \/ EnterDeleteSt \/ ExitWriting \/ EnterReturnSt
  \/ EnterUnionSt \/ ExitUnionSt \/ EnterQueryCallSt \/ ExitQueryCallSt

Spec == Init /\ [][Next]_vars

-----------------------------------------------------------------------------
(* Properties *)

\* Pointers are to subqueries that were made.
TypeOK ==
  /\ made \in Nat /\ Subqueries \in Seq(1 .. made) /\ current \in 0 .. made
  /\ inUnion \in BOOLEAN /\ insideCall \in Nat /\ subqueryAdded \in BOOLEAN
  /\ heeded \subseteq Openers \cup Closers

\* A subquery of a statement without UNION is listed once, whatever its CREATE,
\* DELETE and RETURN do (subqueryAdded, parser.go): nothing is created twice.
SubqueryOnce == "unionSt" \notin heeded => IsInjective(Subqueries)

\* UNION lists a subquery again that is listed already, but never a third time
\* (EnterUnionSt, ExitUnionSt): an element of a CREATE before it is asked for
\* twice at most.
AtMostTwice ==
  \A i, j, k \in DOMAIN Subqueries :
    i < j /\ j < k => ~(Subqueries[i] = Subqueries[j] /\ Subqueries[j] = Subqueries[k])

\* A subquery is given up only when it is listed: of what a text asks for only
\* what the last clauses say may stay unlisted.
NothingLost == \A k \in 1 .. made : k # current => k \in Range(Subqueries)

\* Subqueries are listed in the order of their clauses, in which their queries
\* are then carried out.
InTextOrder ==
  \A i, j \in DOMAIN Subqueries : i < j => Subqueries[i] <= Subqueries[j]

\* A clause that opens a subquery leaves one open until a RETURN or a UNION:
\* EnterSubqueryExist, which has no test, does not panic there.
StaysOpen ==
  heeded \cap Openers # {} /\ heeded \cap Closers = {} => current # 0
=============================================================================
