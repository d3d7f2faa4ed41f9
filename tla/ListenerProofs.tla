--------------------------- MODULE ListenerProofs ---------------------------
(***************************************************************************)
(* What holds of the pointers of QueryCollector whatever it is heeded.       *)
(***************************************************************************)
EXTENDS Listener, TLAPS

\* The open subquery is the last one made.  It is listed when the mark is set,
\* and then once.
OpenInv ==
  /\ current \in {0, made}
  /\ current # 0 =>
       /\ subqueryAdded <=> \E i \in DOMAIN Subqueries : Subqueries[i] = current
       /\ \A i, j \in DOMAIN Subqueries :
            Subqueries[i] = current /\ Subqueries[j] = current => i = j

\* Without a UNION the listener is in none.
UnionInv == "unionSt" \notin heeded => ~inUnion

Once ==
  "unionSt" \notin heeded =>
    \A i, j \in DOMAIN Subqueries : Subqueries[i] = Subqueries[j] => i = j
Listed ==
  \A k \in 1 .. made : k # current => \E i \in DOMAIN Subqueries : Subqueries[i] = k

IInv ==
  TypeOK /\ OpenInv /\ UnionInv /\ Once /\ AtMostTwice /\ Listed /\ InTextOrder /\ StaysOpen

-----------------------------------------------------------------------------
(* Lists *)

\* A list with one more element.
LEMMA Appended ==
  ASSUME NEW S, NEW s \in Seq(S), NEW x
  PROVE  /\ Append(s, x) \in Seq(S \cup {x})
         /\ DOMAIN Append(s, x) = DOMAIN s \cup {Len(s) + 1}
         /\ DOMAIN s = 1 .. Len(s) /\ Len(s) \in Nat
         /\ \A i \in DOMAIN s : Append(s, x)[i] = s[i] /\ i < Len(s) + 1
         /\ Append(s, x)[Len(s) + 1] = x
  OBVIOUS

\* What the listing of the open subquery keeps, with the mark looked at or not.
LEMMA ListingKeeps ==
  ASSUME IInv, current # 0, Subqueries' = Append(Subqueries, current), UNCHANGED made
  PROVE  /\ Subqueries' \in Seq(1 .. made')
         /\ AtMostTwice' /\ InTextOrder'
         /\ \A k \in 1 .. made : \E i \in DOMAIN Subqueries' : Subqueries'[i] = k
         /\ ~subqueryAdded =>
              /\ Once /\ "unionSt" \notin heeded =>
                   \A i, j \in DOMAIN Subqueries' : Subqueries'[i] = Subqueries'[j] => i = j
              /\ \A i, j \in DOMAIN Subqueries' :
                   Subqueries'[i] = current /\ Subqueries'[j] = current => i = j
<1> DEFINE n == Len(Subqueries) + 1
<1>1. /\ Subqueries \in Seq(1 .. made) /\ made \in Nat /\ current = made /\ current \in 1 .. made
  BY DEF IInv, TypeOK, OpenInv
<1>2. /\ Subqueries' \in Seq((1 .. made) \cup {current})
      /\ DOMAIN Subqueries' = DOMAIN Subqueries \cup {n}
      /\ DOMAIN Subqueries \subseteq Nat /\ n \in Nat
      /\ \A i \in DOMAIN Subqueries : Subqueries'[i] = Subqueries[i] /\ i < n
      /\ Subqueries'[n] = current
  BY <1>1, Appended
<1>3. \A i \in DOMAIN Subqueries : Subqueries[i] \in 1 .. made
  BY <1>1
<1> HIDE DEF n
<1>4. Subqueries' \in Seq(1 .. made')
  <2>1. (1 .. made) \cup {current} = 1 .. made'
    BY <1>1
  <2> QED
    BY <1>2, <2>1
<1>5. AtMostTwice'
  <2> SUFFICES ASSUME NEW i \in DOMAIN Subqueries', NEW j \in DOMAIN Subqueries',
                      NEW k \in DOMAIN Subqueries', i < j, j < k,
                      Subqueries'[i] = Subqueries'[j], Subqueries'[j] = Subqueries'[k]
               PROVE  FALSE
    BY DEF AtMostTwice
  <2>1. i \in DOMAIN Subqueries /\ j \in DOMAIN Subqueries
    BY <1>2
  <2>2. CASE k \in DOMAIN Subqueries
    BY <1>2, <2>1, <2>2 DEF IInv, AtMostTwice
  <2>3. CASE k = n
    BY <1>2, <2>1, <2>3 DEF IInv, OpenInv
  <2> QED
    BY <1>2, <2>2, <2>3
<1>6. InTextOrder'
  BY <1>1, <1>2, <1>3 DEF IInv, InTextOrder
<1>7. \A k \in 1 .. made : \E i \in DOMAIN Subqueries' : Subqueries'[i] = k
  BY <1>2 DEF IInv, Listed
<1>8. ASSUME ~subqueryAdded
      PROVE  /\ Once /\ "unionSt" \notin heeded =>
                  \A i, j \in DOMAIN Subqueries' : Subqueries'[i] = Subqueries'[j] => i = j
             /\ \A i, j \in DOMAIN Subqueries' :
                  Subqueries'[i] = current /\ Subqueries'[j] = current => i = j
  <2>1. \A i \in DOMAIN Subqueries : Subqueries[i] # current
    BY <1>8 DEF IInv, OpenInv
  <2> QED
    BY <1>2, <2>1 DEF Once
<1> QED
  BY <1>4, <1>5, <1>6, <1>7, <1>8

-----------------------------------------------------------------------------
(* The invariant *)

\* A text begins with nothing made and nothing listed.
LEMMA Fresh ==
  /\ Init => IInv
  /\ NewText => IInv'
<1>1. <<>> \in Seq(1 .. 0) /\ DOMAIN <<>> = {} /\ 1 .. 0 = {}
  OBVIOUS
<1>2. Init => IInv
  <2> SUFFICES ASSUME Init PROVE IInv
    OBVIOUS
  <2>1. TypeOK
    <3>1. made = 0 /\ Subqueries = <<>> /\ current = 0 /\ insideCall = 0 /\ heeded = {}
      BY DEF Init
    <3>2. inUnion \in BOOLEAN /\ subqueryAdded \in BOOLEAN
      BY DEF Init
    <3> QED
      BY <1>1, <3>1, <3>2 DEF TypeOK
  <2>4. UnionInv
    BY DEF Init, UnionInv
  <2>2. OpenInv /\ StaysOpen
    BY DEF Init, OpenInv, StaysOpen
  <2>3. Once /\ AtMostTwice /\ Listed /\ InTextOrder
    BY <1>1 DEF Init, Once, AtMostTwice, Listed, InTextOrder
  <2> QED
    BY <2>1, <2>2, <2>3, <2>4 DEF IInv
<1>3. NewText => IInv'
  <2> SUFFICES ASSUME NewText PROVE IInv'
    OBVIOUS
  <2>1. TypeOK'
    <3>1. made' = 0 /\ Subqueries' = <<>> /\ current' = 0 /\ insideCall' = 0 /\ heeded' = {}
      BY DEF NewText
    <3>2. inUnion' \in BOOLEAN /\ subqueryAdded' \in BOOLEAN
      BY DEF NewText
    <3> QED
      BY <1>1, <3>1, <3>2 DEF TypeOK
  <2>4. UnionInv'
    BY DEF NewText, UnionInv
  <2>2. OpenInv' /\ StaysOpen'
    BY DEF NewText, OpenInv, StaysOpen
  <2>3. Once' /\ AtMostTwice' /\ Listed' /\ InTextOrder'
    BY <1>1 DEF NewText, Once, AtMostTwice, Listed, InTextOrder
  <2> QED
    BY <2>1, <2>2, <2>3, <2>4 DEF IInv
<1> QED
  BY <1>2, <1>3

\* A subquery is open behind a clause that opens one; a new one is not listed.
LEMMA OpenKeeps ==
  ASSUME IInv, NEW rule \in Openers, Open(rule)
  PROVE  IInv'
<1>1. Subqueries \in Seq(1 .. made) /\ made \in Nat
      /\ \A i \in DOMAIN Subqueries : Subqueries[i] \in 1 .. made
  BY DEF IInv, TypeOK
<1>2. CASE current # 0 /\ UNCHANGED <<made, current, subqueryAdded>>
  BY <1>2 DEF IInv, Open, TypeOK, OpenInv, UnionInv, Once, AtMostTwice, Listed,
              InTextOrder, StaysOpen, Openers, Closers
<1>3. CASE current = 0 /\ made' = made + 1 /\ current' = made + 1 /\ subqueryAdded' = FALSE
  <2>1. TypeOK'
    <3>1. Subqueries \in Seq(1 .. made')
      BY <1>1, <1>3
    <3>2. made' \in Nat /\ current' \in 0 .. made' /\ insideCall' \in Nat
      BY <1>1, <1>3 DEF IInv, Open, TypeOK
    <3>3. UNCHANGED <<Subqueries, inUnion>> /\ subqueryAdded' \in BOOLEAN
      BY <1>3 DEF Open
    <3>4. heeded' \subseteq Openers \cup Closers
      BY DEF IInv, Open, TypeOK
    <3> QED
      BY <3>1, <3>2, <3>3, <3>4 DEF IInv, TypeOK
  <2>2. OpenInv'
    BY <1>1, <1>3 DEF Open, OpenInv
  <2>3. UnionInv' /\ Once' /\ AtMostTwice' /\ InTextOrder'
    BY <1>3 DEF IInv, Open, UnionInv, Once, AtMostTwice, InTextOrder
  <2>4. Listed'
    BY <1>1, <1>3 DEF IInv, Open, Listed
  <2>5. StaysOpen'
    BY <1>1, <1>3 DEF StaysOpen
  <2> QED
    BY <2>1, <2>2, <2>3, <2>4, <2>5 DEF IInv
<1> QED
  BY <1>2, <1>3 DEF Open

\* The end of a CREATE or a DELETE lists what is open and not listed.
LEMMA WritingKeeps ==
  ASSUME IInv, ExitWriting
  PROVE  IInv'
<1> USE DEF ExitWriting
<1>1. /\ Subqueries' \in Seq(1 .. made') /\ AtMostTwice' /\ InTextOrder'
      /\ \A k \in 1 .. made : \E i \in DOMAIN Subqueries' : Subqueries'[i] = k
      /\ Once /\ "unionSt" \notin heeded =>
           \A i, j \in DOMAIN Subqueries' : Subqueries'[i] = Subqueries'[j] => i = j
      /\ \A i, j \in DOMAIN Subqueries' :
           Subqueries'[i] = current /\ Subqueries'[j] = current => i = j
  BY ListingKeeps
<1>2. TypeOK' /\ UnionInv' /\ StaysOpen'
  BY <1>1 DEF IInv, TypeOK, UnionInv, StaysOpen
<1>3. OpenInv'
  <2>1. current \in 1 .. made
    BY DEF IInv, TypeOK, OpenInv
  <2>2. \E i \in DOMAIN Subqueries' : Subqueries'[i] = current
    BY <1>1, <2>1
  <2> QED
    BY <1>1, <2>2 DEF IInv, OpenInv
<1>4. Once' /\ Listed'
  BY <1>1 DEF IInv, Once, Listed
<1> QED
  BY <1>1, <1>2, <1>3, <1>4 DEF IInv

\* RETURN lists what is open and not listed, and closes it.
LEMMA ReturnKeeps ==
  ASSUME IInv, EnterReturnSt
  PROVE  IInv'
<1> USE DEF EnterReturnSt
<1>1. StaysOpen' /\ UnionInv' /\ OpenInv'
  BY DEF IInv, StaysOpen, UnionInv, OpenInv, Closers
<1>2. Subqueries' \in Seq(1 .. made') /\ AtMostTwice' /\ InTextOrder' /\ Once' /\ Listed'
  <2>1. CASE subqueryAdded
    <3>1. UNCHANGED <<Subqueries, made>> /\ current' = 0 /\ heeded \subseteq heeded'
      BY <2>1
    <3>2. \E i \in DOMAIN Subqueries : Subqueries[i] = current
      BY <2>1 DEF IInv, OpenInv
    <3> QED
      BY <3>1, <3>2 DEF IInv, TypeOK, AtMostTwice, InTextOrder, Once, Listed
  <2>2. CASE ~subqueryAdded
    <3>1. Subqueries' = Append(Subqueries, current)
      BY <2>2
    <3> QED
      BY <2>2, <3>1, ListingKeeps DEF IInv, Once, Listed
  <2> QED
    BY <2>1, <2>2
<1>3. TypeOK'
  BY <1>2 DEF IInv, TypeOK, Closers
<1> QED
  BY <1>1, <1>2, <1>3 DEF IInv

\* Both ends of a branch of a UNION list what is open and close it.
LEMMA CutKeeps ==
  ASSUME IInv, NEW mark \in BOOLEAN, Cut(mark), "unionSt" \in heeded', inUnion' \in BOOLEAN,
         heeded' = heeded \cup {"unionSt"}
  PROVE  IInv'
<1>1. UnionInv' /\ StaysOpen' /\ OpenInv' /\ Once'
  BY DEF Cut, IInv, UnionInv, StaysOpen, OpenInv, Once, Closers
<1>2. Subqueries' \in Seq(1 .. made') /\ AtMostTwice' /\ InTextOrder' /\ Listed'
  <2>1. CASE current = 0
    BY <2>1 DEF Cut, IInv, TypeOK, AtMostTwice, InTextOrder, Listed
  <2>2. CASE current # 0
    <3>1. Subqueries' = Append(Subqueries, current) /\ UNCHANGED made
      BY <2>2 DEF Cut
    <3> QED
      BY <2>2, <3>1, ListingKeeps DEF Listed
  <2> QED
    BY <2>1, <2>2
<1>3. TypeOK'
  BY <1>2 DEF Cut, IInv, TypeOK, Closers
<1> QED
  BY <1>1, <1>2, <1>3 DEF IInv

\* Every method keeps it, and so does a step of something else.
LEMMA Step ==
  ASSUME IInv, [Next]_vars
  PROVE  IInv'
<1>1. CASE NewText
  BY <1>1, Fresh
<1>2. CASE EnterMatchSt
  BY <1>2, OpenKeeps DEF EnterMatchSt, Openers
<1>3. CASE EnterCreateSt
  BY <1>3, OpenKeeps DEF EnterCreateSt, Openers
<1>4. CASE EnterDeleteSt
  BY <1>4, OpenKeeps DEF EnterDeleteSt, Openers
<1>5. CASE ExitWriting
  BY <1>5, WritingKeeps
<1>6. CASE EnterReturnSt
  BY <1>6, ReturnKeeps
<1>7. CASE EnterUnionSt
  BY <1>7, CutKeeps DEF EnterUnionSt
<1>8. CASE ExitUnionSt
  BY <1>8, CutKeeps DEF ExitUnionSt
<1>9. CASE EnterQueryCallSt
  BY <1>9 DEF EnterQueryCallSt, IInv, TypeOK, OpenInv, UnionInv, Once, AtMostTwice,
              Listed, InTextOrder, StaysOpen
<1>10. CASE ExitQueryCallSt
  BY <1>10 DEF ExitQueryCallSt, IInv, TypeOK, OpenInv, UnionInv, Once, AtMostTwice, Listed,
               InTextOrder, StaysOpen
<1>11. CASE UNCHANGED vars
  BY <1>11 DEF vars, IInv, TypeOK, OpenInv, UnionInv, Once, AtMostTwice, Listed, InTextOrder,
               StaysOpen
<1> QED
  BY <1>1, <1>2, <1>3, <1>4, <1>5, <1>6, <1>7, <1>8, <1>9, <1>10, <1>11 DEF Next

\* The open subquery is the last one made, and listed only when it is marked:
\* the invariant from which the theorems below follow.
THEOREM Inductive == Spec => []IInv
  BY Fresh, Step, PTL DEF Spec

\* A subquery of a text without UNION is listed once (subqueryAdded), whatever
\* methods of the listener are called and in whatever order.
THEOREM ListedOnce == Spec => []SubqueryOnce
<1>1. IInv => SubqueryOnce
  BY DEF IInv, Once, SubqueryOnce, IsInjective
<1> QED
  BY <1>1, Inductive, PTL

\* With UNION it is listed twice at most (EnterUnionSt, ExitUnionSt).
THEOREM ListedTwice == Spec => []AtMostTwice
<1>1. IInv => AtMostTwice
  BY DEF IInv
<1> QED
  BY <1>1, Inductive, PTL

\* No subquery but the open one is left out of the list, and the list is in
\* the order of the text.
THEOREM AllListed == Spec => [](NothingLost /\ InTextOrder)
<1>1. IInv => NothingLost /\ InTextOrder
  BY DEF IInv, Listed, NothingLost, Range
<1> QED
  BY <1>1, Inductive, PTL

\* A subquery stays open from a MATCH, CREATE or DELETE to a RETURN or UNION, so
\* that EXISTS finds one there (EnterSubqueryExist, which has no test).
THEOREM ExistsIsSafe == Spec => []StaysOpen
<1>1. IInv => StaysOpen
  BY DEF IInv
<1> QED
  BY <1>1, Inductive, PTL
=============================================================================
