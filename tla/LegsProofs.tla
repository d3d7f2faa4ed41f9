----------------------------- MODULE LegsProofs -----------------------------
(***************************************************************************)
(* TwoPhase implements Legs, for every set of calls and of workers and any *)
(* number of crashes.  A leg of Legs is computed from three parties that   *)
(* do not know of each other: the goroutine of the coordinator, the        *)
(* handler of the worker and Neo4j.  A step of one of them is a step of    *)
(* that leg or none, and touches no other leg; only a crash touches the    *)
(* legs of several calls.                                                  *)
(***************************************************************************)
EXTENDS TwoPhaseProofs

\* A handler at work has a process around it; a goroutine that waits has a
\* handler, and its call has not decided.
WaitInv(t, w) ==
  /\ handler[t][w] \in {"recv", "stored", "running"} => up[w]
  /\ prepLeg[t][w] \in {"dial", "await"} => call[t] = "prepare"
  /\ prepLeg[t][w] = "await" => handler[t][w] # "none"

\* A call that rolls back has heard a NO.
VerdictInv(t) ==
  call[t] \in {"ROLLBACK", "failed"} => \E w \in Worker : prepLeg[t][w] = "NO"

LegsInv ==
  /\ IInv
  /\ \A t \in Call, w \in Worker : WaitInv(t, w)
  /\ \A t \in Call : VerdictInv(t)

----------------------------------------------------------------------------
(* The invariant.                                                          *)

\* A goroutine is through with its leg before its call decides.
LEMMA WaitStep ==
  ASSUME TypeOK, TypeOK', [Next]_vars, NEW u \in Call, NEW v \in Worker,
         LegInv(u, v), WaitInv(u, v), \A w \in Worker : LegInv(u, w)
  PROVE  WaitInv(u, v)'
<1> USE DEF TypeOK, WaitInv, caller, legs, database, process
<1>1. ASSUME NEW t \in Call, NEW P \in (SUBSET Worker) \ {{}}, Begin(t, P)
      PROVE  WaitInv(u, v)'
  BY <1>1, SMT DEF Begin, LegInv
<1>2. ASSUME NEW t \in Call, Decide(t) PROVE WaitInv(u, v)'
  <2>1. u = t => prepLeg[u][v] \in {"none", "ACK", "NO"}
    BY <1>2 DEF Decide, LegInv
  <2>2. UNCHANGED <<prepLeg, handler, up>> /\ (u # t => call'[u] = call[u])
    BY <1>2 DEF Decide
  <2> QED
    BY <2>1, <2>2
<1>3. ASSUME NEW t \in Call, Return(t) PROVE WaitInv(u, v)'
  BY <1>3, SMT DEF Return
<1>4. ASSUME NEW t \in Call, NEW w \in Worker, Connect(t, w)
      PROVE  WaitInv(u, v)'
  BY <1>4, SMT DEF Connect
<1>5. ASSUME NEW t \in Call, NEW w \in Worker, DialFails(t, w)
      PROVE  WaitInv(u, v)'
  BY <1>5, SMT DEF DialFails
<1>6. ASSUME NEW t \in Call, NEW w \in Worker, RecvAck(t, w)
      PROVE  WaitInv(u, v)'
  BY <1>6, SMT DEF RecvAck
<1>7. ASSUME NEW t \in Call, NEW w \in Worker, RecvOther(t, w)
      PROVE  WaitInv(u, v)'
  BY <1>7, SMT DEF RecvOther
<1>8. ASSUME NEW t \in Call, NEW w \in Worker, ConnectionLost(t, w)
      PROVE  WaitInv(u, v)'
  <2>1. prepLeg' = [prepLeg EXCEPT ![t][w] = "NO"] /\ UNCHANGED <<call, up>>
    BY <1>8 DEF ConnectionLost
  <2>2. handler'[u][v] = handler[u][v] \/ handler'[u][v] = "dead"
    <3>1. CASE handler' = [handler EXCEPT ![t][w] = "dead"]
      BY <3>1, SMT
    <3> QED
      BY <1>8, <3>1 DEF ConnectionLost
  <2> QED
    BY <2>1, <2>2, SMT
<1>9. ASSUME NEW t \in Call, NEW w \in Worker, Finish(t, w) PROVE WaitInv(u, v)'
  BY <1>9 DEF Finish, FinConnect, FinDialFails, FinAnswer
<1>10. ASSUME NEW t \in Call, NEW w \in Worker, Store(t, w)
       PROVE  WaitInv(u, v)'
  BY <1>10, SMT DEF Store
<1>11. ASSUME NEW t \in Call, NEW w \in Worker, SendQuery(t, w)
       PROVE  WaitInv(u, v)'
  BY <1>11, SMT DEF SendQuery
<1>12. ASSUME NEW t \in Call, NEW w \in Worker, Answer(t, w)
       PROVE  WaitInv(u, v)'
  BY <1>12, SMT DEF Answer
<1>13. ASSUME NEW t \in Call, NEW w \in Worker, AnswerError(t, w)
       PROVE  WaitInv(u, v)'
  BY <1>13, SMT DEF AnswerError
<1>14. ASSUME NEW t \in Call, NEW w \in Worker, Neo4j(t, w) PROVE WaitInv(u, v)'
  BY <1>14 DEF Neo4j, RunQuery, RefuseQuery
<1>15. ASSUME NEW w \in Worker, Crash(w) PROVE WaitInv(u, v)'
  BY <1>15, SMT DEF Crash
<1>16. ASSUME NEW w \in Worker, Restart(w) PROVE WaitInv(u, v)'
  BY <1>16, SMT DEF Restart
<1>17. CASE UNCHANGED vars
  BY <1>17 DEF vars
<1> QED
  BY <1>1, <1>2, <1>3, <1>4, <1>5, <1>6, <1>7, <1>8, <1>9, <1>10, <1>11, <1>12, <1>13, <1>14, <1>15, <1>16, <1>17
  DEF Next, Caller, Prepare, Serve

\* A NO stays a NO.
LEMMA NoStays ==
  ASSUME TypeOK, [Next]_vars, NEW u \in Call, NEW v \in Worker,
         LegInv(u, v), prepLeg[u][v] = "NO"
  PROVE  prepLeg'[u][v] = "NO"
<1> USE DEF TypeOK, caller, legs, database, process
<1>1. ASSUME NEW t \in Call, NEW P \in (SUBSET Worker) \ {{}}, Begin(t, P)
      PROVE  prepLeg'[u][v] = "NO"
  BY <1>1, SMT DEF Begin, LegInv
<1>2. ASSUME NEW t \in Call, NEW w \in Worker, Prepare(t, w) \/ ConnectionLost(t, w)
      PROVE  prepLeg'[u][v] = "NO"
  <2>1. PICK s : /\ prepLeg' = [prepLeg EXCEPT ![t][w] = s]
                 /\ prepLeg[t][w] # "NO"
    BY <1>2 DEF Prepare, Connect, DialFails, RecvAck, RecvOther, ConnectionLost
  <2> QED
    BY <2>1, SMT
<1>3. ASSUME UNCHANGED prepLeg PROVE prepLeg'[u][v] = "NO"
  BY <1>3
<1>4. ASSUME NEW t \in Call, Caller(t) PROVE UNCHANGED prepLeg
  BY <1>4 DEF Caller, Decide, Return
<1>5. ASSUME NEW t \in Call, NEW w \in Worker, Finish(t, w) \/ Serve(t, w) \/ Neo4j(t, w)
      PROVE  UNCHANGED prepLeg
  BY <1>5 DEF Finish, FinConnect, FinDialFails, FinAnswer, Serve, Store,
              SendQuery, Answer, AnswerError, Neo4j, RunQuery, RefuseQuery
<1>6. ASSUME NEW w \in Worker, Crash(w) \/ Restart(w) PROVE UNCHANGED prepLeg
  BY <1>6 DEF Crash, Restart
<1>7. ASSUME UNCHANGED vars PROVE UNCHANGED prepLeg
  BY <1>7 DEF vars
<1> QED
  BY <1>1, <1>2, <1>3, <1>4, <1>5, <1>6, <1>7 DEF Next

\* What a step makes of the state of a call.
LEMMA CallStep ==
  ASSUME TypeOK, [Next]_vars, NEW u \in Call
  PROVE  \/ call'[u] = call[u]
         \/ call'[u] = "prepare"
         \/ Decide(u)
         \/ Return(u)
<1> USE DEF TypeOK, caller, legs, database, process
<1>1. ASSUME NEW t \in Call, NEW P \in (SUBSET Worker) \ {{}}, Begin(t, P)
      PROVE  call'[u] = call[u] \/ call'[u] = "prepare"
  BY <1>1 DEF Begin
<1>2. ASSUME NEW t \in Call, Caller(t), t # u PROVE call'[u] = call[u]
  BY <1>2 DEF Caller, Decide, Return
<1>3. ASSUME NEW t \in Call, NEW w \in Worker,
             Prepare(t, w) \/ ConnectionLost(t, w) \/ Finish(t, w)
      PROVE  UNCHANGED call
  BY <1>3 DEF Prepare, Connect, DialFails, RecvAck, RecvOther, Finish,
              ConnectionLost, FinConnect, FinDialFails, FinAnswer
<1>4. ASSUME NEW t \in Call, NEW w \in Worker, Serve(t, w) \/ Neo4j(t, w)
      PROVE  UNCHANGED call
  BY <1>4 DEF Serve, Store, SendQuery, Answer, AnswerError, Neo4j,
              RunQuery, RefuseQuery
<1>5. ASSUME NEW w \in Worker, Crash(w) \/ Restart(w) PROVE UNCHANGED call
  BY <1>5 DEF Crash, Restart
<1>6. ASSUME UNCHANGED vars PROVE UNCHANGED call
  BY <1>6 DEF vars
<1> QED
  BY <1>1, <1>2, <1>3, <1>4, <1>5, <1>6 DEF Next, Caller

\* A call rolls back because of a NO.
LEMMA VerdictStep ==
  ASSUME IInv, [Next]_vars, NEW u \in Call, VerdictInv(u)
  PROVE  VerdictInv(u)'
<1> SUFFICES ASSUME call'[u] \in {"ROLLBACK", "failed"}
             PROVE  \E w \in Worker : prepLeg'[u][w] = "NO"
  BY DEF VerdictInv
<1>1. TypeOK /\ \A w \in Worker : LegInv(u, w)
  BY DEF IInv
<1>2. \E w \in Worker : prepLeg[u][w] = "NO"
  <2>1. CASE call'[u] = call[u]
    BY <2>1 DEF VerdictInv
  <2>2. CASE Decide(u)
    <3>1. ~ \A w \in parts[u] : prepLeg[u][w] = "ACK"
      BY <1>1, <2>2 DEF Decide, TypeOK
    <3>2. \A w \in parts[u] : w \in Worker /\ prepLeg[u][w] \in {"ACK", "NO"}
      BY <1>1, <2>2 DEF Decide, TypeOK
    <3> QED
      BY <3>1, <3>2
  <2>3. CASE Return(u)
    <3>1. call[u] = "ROLLBACK"
      BY <1>1, <2>3 DEF Return, TypeOK
    <3> QED
      BY <3>1 DEF VerdictInv
  <2> QED
    BY <1>1, <2>1, <2>2, <2>3, CallStep
<1> QED
  BY <1>1, <1>2, NoStays

\* The inductive invariant of the refinement holds.
THEOREM LegsInvariance == Spec => []LegsInv
<1>1. Init => LegsInv
  <2> SUFFICES ASSUME Init PROVE LegsInv
    OBVIOUS
  <2>1. \A t \in Call, w \in Worker : WaitInv(t, w)
    BY DEF Init, WaitInv
  <2>2. \A t \in Call : VerdictInv(t)
    BY DEF Init, VerdictInv
  <2> QED
    BY <2>1, <2>2, InitInv DEF LegsInv
<1>2. LegsInv /\ [Next]_vars => LegsInv'
  <2> SUFFICES ASSUME LegsInv, [Next]_vars PROVE LegsInv'
    OBVIOUS
  <2>1. IInv /\ IInv'
    BY InvStep DEF LegsInv
  <2>2. TypeOK /\ TypeOK' /\ \A t \in Call, w \in Worker : LegInv(t, w)
    BY <2>1 DEF IInv
  <2>3. \A t \in Call, w \in Worker : WaitInv(t, w)'
    BY <2>2, WaitStep DEF LegsInv
  <2>4. \A t \in Call : VerdictInv(t)'
    BY <2>1, VerdictStep DEF LegsInv
  <2> QED
    BY <2>1, <2>3, <2>4 DEF LegsInv
<1> QED
  BY <1>1, <1>2, PTL DEF Spec

----------------------------------------------------------------------------
(* What a step makes of the legs.                                          *)

\* Nothing that leg (u, v) is computed from changes.
SameLeg(u, v) ==
  /\ prepLeg'[u][v] = prepLeg[u][v]
  /\ handler'[u][v] = handler[u][v]
  /\ query'[u][v] = query[u][v]

LEMMA SameLegs ==
  ASSUME NEW u \in Call, NEW v \in Worker, SameLeg(u, v)
  PROVE  LegOf(u, v)' = LegOf(u, v) /\ LateOf(u, v)' = LateOf(u, v)
<1>1. LegOf(u, v)' = LegOf(u, v)
  BY DEF SameLeg, LegOf, Awaited
<1> QED
  BY <1>1 DEF SameLeg, LateOf

\* No leg changes.
LEMMA Quiet ==
  ASSUME \A u \in Call, v \in Worker :
           LegOf(u, v)' = LegOf(u, v) /\ LateOf(u, v)' = LateOf(u, v)
  PROVE  UNCHANGED <<LegsNow, LateNow>>
  BY DEF LegsNow, LateNow

\* One leg changes.
LEMMA OneLeg ==
  ASSUME NEW t \in Call, NEW w \in Worker,
         \A u \in Call, v \in Worker : u # t \/ v # w => SameLeg(u, v)
  PROVE  /\ LegsNow' = [LegsNow EXCEPT ![t][w] = LegOf(t, w)']
         /\ LateNow' = [LateNow EXCEPT ![t][w] = LateOf(t, w)']
         /\ LegOf(t, w)' = LegOf(t, w) => LegsNow' = LegsNow
         /\ LateOf(t, w)' = LateOf(t, w) => LateNow' = LateNow
<1>1. \A u \in Call, v \in Worker : u # t \/ v # w =>
        LegOf(u, v)' = LegOf(u, v) /\ LateOf(u, v)' = LateOf(u, v)
  BY SameLegs
<1>2. /\ LegsNow' = [LegsNow EXCEPT ![t][w] = LegOf(t, w)']
      /\ LateNow' = [LateNow EXCEPT ![t][w] = LateOf(t, w)']
  BY <1>1 DEF LegsNow, LateNow
<1>3. ASSUME LegOf(t, w)' = LegOf(t, w) PROVE LegsNow' = LegsNow
  <2>1. \A u \in Call, v \in Worker : LegOf(u, v)' = LegOf(u, v)
    BY <1>1, <1>3
  <2> QED
    BY <2>1 DEF LegsNow
<1>4. ASSUME LateOf(t, w)' = LateOf(t, w) PROVE LateNow' = LateNow
  <2>1. \A u \in Call, v \in Worker : LateOf(u, v)' = LateOf(u, v)
    BY <1>1, <1>4
  <2> QED
    BY <2>1 DEF LateNow
<1> QED
  BY <1>2, <1>3, <1>4

\* A leg of the mapping, and its place in the two functions.
LEMMA AtLeg ==
  ASSUME NEW t \in Call, NEW w \in Worker
  PROVE  LegsNow[t][w] = LegOf(t, w) /\ LateNow[t][w] = LateOf(t, w)
  BY DEF LegsNow, LateNow

\* A step for one call at one worker touches that leg only.
LEMMA Apart ==
  ASSUME TypeOK, NEW t \in Call, NEW w \in Worker,
         Prepare(t, w) \/ ConnectionLost(t, w) \/ Serve(t, w) \/ Neo4j(t, w)
  PROVE  /\ \A u \in Call, v \in Worker : u # t \/ v # w => SameLeg(u, v)
         /\ Outcome' = Outcome /\ up' = up
<1> USE DEF TypeOK, caller, legs, database, process, SameLeg
<1>1. /\ prepLeg' = prepLeg \/ \E s : prepLeg' = [prepLeg EXCEPT ![t][w] = s]
      /\ handler' = handler \/ \E s : handler' = [handler EXCEPT ![t][w] = s]
      /\ query' = query \/ \E s : query' = [query EXCEPT ![t][w] = s]
      /\ UNCHANGED <<call, up>>
  <2>1. CASE Prepare(t, w)
    BY <2>1 DEF Prepare, Connect, DialFails, RecvAck, RecvOther
  <2>2. CASE ConnectionLost(t, w)
    BY <2>2 DEF ConnectionLost
  <2>3. CASE Serve(t, w)
    BY <2>3 DEF Serve, Store, SendQuery, Answer, AnswerError
  <2>4. CASE Neo4j(t, w)
    BY <2>4 DEF Neo4j, RunQuery, RefuseQuery
  <2> QED
    BY <2>1, <2>2, <2>3, <2>4
<1>2. ASSUME NEW u \in Call, NEW v \in Worker, u # t \/ v # w PROVE SameLeg(u, v)
  <2>1. prepLeg'[u][v] = prepLeg[u][v]
    BY <1>1, <1>2, SMT
  <2>2. handler'[u][v] = handler[u][v]
    BY <1>1, <1>2, SMT
  <2>3. query'[u][v] = query[u][v]
    BY <1>1, <1>2, SMT
  <2> QED
    BY <2>1, <2>2, <2>3
<1> QED
  BY <1>1, <1>2 DEF Outcome

----------------------------------------------------------------------------
(* One step after another.                                                 *)

\* What the parties of one leg know, in one place.
LEMMA Known ==
  ASSUME LegsInv, NEW t \in Call, NEW w \in Worker
  PROVE  /\ TypeOK
         /\ LegInv(t, w) /\ QueryInv(t, w) /\ AckInv(t, w) /\ WaitInv(t, w)
         /\ prepLeg[t][w] \in PrepState /\ handler[t][w] \in HandlerState
         /\ query[t][w] \in QueryState
  BY DEF LegsInv, IInv, TypeOK

\* What becomes of the mapping when a leg takes a step.
LEMMA LegChange ==
  ASSUME LegsInv, NEW t \in Call, NEW w \in Worker,
         Prepare(t, w) \/ ConnectionLost(t, w) \/ Serve(t, w) \/ Neo4j(t, w)
  PROVE  /\ LegsNow' = [LegsNow EXCEPT ![t][w] = LegOf(t, w)']
         /\ LateNow' = [LateNow EXCEPT ![t][w] = LateOf(t, w)']
         /\ LegOf(t, w)' = LegOf(t, w) => LegsNow' = LegsNow
         /\ LateOf(t, w)' = LateOf(t, w) => LateNow' = LateNow
         /\ UNCHANGED <<Outcome, up>>
  BY Known, Apart, OneLeg

\* Steps that run nothing and change no memory.
LEMMA SilentChange ==
  ASSUME LegsInv, NEW t \in Call, NEW w \in Worker, UNCHANGED <<runs, mem>>,
         Prepare(t, w) \/ ConnectionLost(t, w) \/ Serve(t, w) \/ Neo4j(t, w)
  PROVE  /\ /\ LegOf(t, w) \in {"sent", "stored"} /\ LegOf(t, w)' = "no"
            /\ LateOf(t, w)' \in {"none", LegOf(t, w)}
            => AsLegs!Lose(t, w)
         /\ /\ LegOf(t, w) = "ack" /\ LegOf(t, w)' = "no" /\ Outcome[t] = "open"
            /\ LateOf(t, w)' = LateOf(t, w)
            => AsLegs!LoseAnswer(t, w)
         /\ LegOf(t, w)' = LegOf(t, w) /\ LateOf(t, w)' = "none"
            => AsLegs!LateDrop(t, w)
         /\ LegOf(t, w)' = LegOf(t, w) /\ LateOf(t, w)' = LateOf(t, w)
            => UNCHANGED AsLegs!vars
<1>1. /\ LegOf(t, w) \in {"sent", "stored"} /\ LegOf(t, w)' = "no"
      /\ LateOf(t, w)' \in {"none", LegOf(t, w)}
      => AsLegs!Lose(t, w)
  BY LegChange, AtLeg DEF AsLegs!Lose
<1>2. /\ LegOf(t, w) = "ack" /\ LegOf(t, w)' = "no" /\ Outcome[t] = "open"
      /\ LateOf(t, w)' = LateOf(t, w)
      => AsLegs!LoseAnswer(t, w)
  BY LegChange, AtLeg DEF AsLegs!LoseAnswer
<1>3. LegOf(t, w)' = LegOf(t, w) /\ LateOf(t, w)' = "none" => AsLegs!LateDrop(t, w)
  BY LegChange DEF AsLegs!LateDrop
<1>4. LegOf(t, w)' = LegOf(t, w) /\ LateOf(t, w)' = LateOf(t, w)
      => UNCHANGED AsLegs!vars
  BY LegChange DEF AsLegs!vars
<1> QED
  BY <1>1, <1>2, <1>3, <1>4

\* A step that the leg does not show: the connection, an answer that was
\* decided already, the query on its way to Neo4j.
LEMMA QuietStep ==
  ASSUME LegsInv, NEW t \in Call, NEW w \in Worker,
         Connect(t, w) \/ RecvAck(t, w) \/ RecvOther(t, w)
           \/ SendQuery(t, w) \/ Answer(t, w)
  PROVE  UNCHANGED AsLegs!vars
<1> USE DEF TypeOK, PrepState, HandlerState, QueryState
<1>1. /\ LegOf(t, w)' = LegOf(t, w) /\ LateOf(t, w)' = LateOf(t, w)
      /\ UNCHANGED <<runs, mem>>
  <2>1. CASE Connect(t, w)
    <3>1. /\ prepLeg[t][w] = "dial" /\ prepLeg'[t][w] = "await"
          /\ handler'[t][w] = "recv" /\ UNCHANGED <<runs, mem>>
      BY <2>1, Known, SMT DEF Connect, database, process
    <3> QED
      BY <3>1 DEF LegOf, LateOf, Awaited
  <2>2. CASE RecvAck(t, w)
    <3>1. /\ prepLeg[t][w] = "await" /\ prepLeg'[t][w] = "ACK"
          /\ handler[t][w] = "ack" /\ UNCHANGED <<runs, mem>>
      BY <2>2, Known, SMT DEF RecvAck, database, process
    <3>2. query[t][w] = "done"
      BY <3>1, Known DEF QueryInv
    <3> QED
      BY <3>1, <3>2 DEF LegOf, LateOf, Awaited
  <2>3. CASE RecvOther(t, w)
    <3>1. /\ prepLeg[t][w] = "await" /\ prepLeg'[t][w] = "NO"
          /\ handler[t][w] \in {"err", "dead"}
          /\ UNCHANGED <<handler, query, runs, mem>>
      BY <2>3, Known, SMT DEF RecvOther, database, process
    <3>2. LegOf(t, w) = "no" /\ LegOf(t, w)' = "no"
      BY <3>1 DEF LegOf, Awaited
    <3> QED
      BY <3>1, <3>2 DEF LateOf
  <2>4. CASE SendQuery(t, w)
    <3>1. /\ handler[t][w] = "stored" /\ handler'[t][w] = "running"
          /\ query'[t][w] = "sent" /\ UNCHANGED <<prepLeg, runs, mem>>
      BY <2>4, Known, SMT DEF SendQuery, legs, process
    <3>2. query[t][w] = "none" /\ prepLeg[t][w] \in {"await", "NO"}
      BY <3>1, Known DEF QueryInv, LegInv, AckInv
    <3>3. LegOf(t, w)' = LegOf(t, w)
      BY <3>1, <3>2 DEF LegOf, Awaited
    <3> QED
      BY <3>1, <3>3 DEF LateOf
  <2>5. CASE Answer(t, w)
    <3>1. /\ handler[t][w] = "running" /\ handler'[t][w] = "ack"
          /\ query[t][w] = "done" /\ UNCHANGED <<prepLeg, query, runs, mem>>
      BY <2>5, Known, SMT DEF Answer, legs, database, process
    <3>2. prepLeg[t][w] \in {"await", "NO"}
      BY <3>1, Known DEF LegInv, AckInv
    <3>3. LegOf(t, w)' = LegOf(t, w)
      BY <3>1, <3>2 DEF LegOf, Awaited
    <3> QED
      BY <3>1, <3>3 DEF LateOf
  <2> QED
    BY <2>1, <2>2, <2>3, <2>4, <2>5
<1> QED
  BY <1>1, SilentChange DEF Prepare, Serve

\* The call counts a NO without an answer: what the worker has of the message
\* stays with it.
LEMMA LossStep ==
  ASSUME LegsInv, NEW t \in Call, NEW w \in Worker,
         DialFails(t, w) \/ ConnectionLost(t, w)
  PROVE  AsLegs!Lose(t, w) \/ AsLegs!LoseAnswer(t, w) \/ UNCHANGED AsLegs!vars
<1> USE DEF TypeOK, PrepState, HandlerState, QueryState
<1>1. /\ prepLeg'[t][w] = "NO" /\ UNCHANGED <<query, runs, mem>>
  BY Known, SMT DEF DialFails, ConnectionLost, database, process
<1>2. CASE DialFails(t, w)
  <2>1. prepLeg[t][w] = "dial" /\ handler[t][w] = "none" /\ UNCHANGED handler
    BY <1>2, Known DEF DialFails, LegInv
  <2>2. query[t][w] = "none"
    BY <2>1, Known DEF QueryInv
  <2>3. LegOf(t, w) = "sent" /\ LegOf(t, w)' = "no"
    BY <1>1, <2>1 DEF LegOf
  <2>4. LateOf(t, w)' = "none"
    BY <1>1, <2>1, <2>2, <2>3 DEF LateOf
  <2> QED
    BY <1>1, <1>2, <2>3, <2>4, SilentChange DEF Prepare
<1>3. CASE ConnectionLost(t, w)
  <2>1. /\ prepLeg[t][w] = "await"
        /\ \/ handler'[t][w] = handler[t][w]
           \/ handler[t][w] = "recv" /\ handler'[t][w] = "dead"
    <3>1. CASE handler' = [handler EXCEPT ![t][w] = "dead"]
      BY <1>3, <3>1, Known, SMT DEF ConnectionLost
    <3> QED
      BY <1>3, <3>1 DEF ConnectionLost
  <2>2. /\ handler[t][w] \in {"recv", "stored"} => query[t][w] = "none"
        /\ handler[t][w] # "none" /\ Outcome[t] = "open"
    BY <2>1, Known DEF QueryInv, WaitInv, Outcome, OutcomeOf
  <2>3. LegOf(t, w) = Awaited(t, w) /\ LegOf(t, w)' = "no"
    BY <1>1, <2>1 DEF LegOf
  <2>4. CASE Awaited(t, w) \in {"sent", "stored"}
    <3>1. LateOf(t, w)' \in {"none", Awaited(t, w)}
      BY <1>1, <2>1, <2>2, <2>3, <2>4, Known DEF LateOf, Awaited
    <3> QED
      BY <1>1, <1>3, <2>3, <2>4, <3>1, SilentChange
  <2>5. CASE Awaited(t, w) = "ack"
    <3>1. /\ query[t][w] = "done" /\ handler[t][w] \notin {"recv", "stored"}
      BY <2>2, <2>5 DEF Awaited
    <3>2. LateOf(t, w)' = "none" /\ LateOf(t, w) = "none"
      BY <1>1, <2>1, <2>3, <2>5, <3>1 DEF LateOf
    <3> QED
      BY <1>1, <1>3, <2>2, <2>3, <2>5, <3>2, SilentChange
  <2>6. CASE Awaited(t, w) = "no"
    <3>1. handler'[t][w] = handler[t][w]
      BY <2>1, <2>6 DEF Awaited
    <3>2. LateOf(t, w)' = LateOf(t, w)
      BY <1>1, <2>3, <2>6, <3>1 DEF LateOf
    <3> QED
      BY <1>1, <1>3, <2>3, <2>6, <3>2, SilentChange
  <2> QED
    BY <2>4, <2>5, <2>6 DEF Awaited
<1> QED
  BY <1>2, <1>3

\* The message is delivered, before or after its call has given it up.
LEMMA StoreStep ==
  ASSUME LegsInv, NEW t \in Call, NEW w \in Worker, Store(t, w)
  PROVE  AsLegs!Deliver(t, w) \/ AsLegs!LateDeliver(t, w)
<1>1. /\ handler[t][w] = "recv" /\ handler'[t][w] = "stored"
      /\ UNCHANGED <<prepLeg, query>>
      /\ mem' = [mem EXCEPT ![w] = @ \cup {t}] /\ UNCHANGED <<runs, up, Outcome>>
  BY Known, SMT DEF Store, TypeOK, caller, legs, database, Outcome
<1>2. prepLeg[t][w] \in {"await", "NO"} /\ query[t][w] = "none" /\ up[w]
  BY <1>1, Known DEF LegInv, QueryInv, AckInv, WaitInv, PrepState
<1>3. CASE prepLeg[t][w] = "await"
  <2>1. LegOf(t, w) = "sent" /\ LegOf(t, w)' = "stored"
    BY <1>1, <1>2, <1>3 DEF LegOf, Awaited
  <2>2. LateOf(t, w)' = LateOf(t, w)
    BY <2>1 DEF LateOf
  <2> QED
    BY <1>1, <1>2, <2>1, <2>2, LegChange, AtLeg DEF Serve, AsLegs!Deliver
<1>4. CASE prepLeg[t][w] = "NO"
  <2>1. LegOf(t, w) = "no" /\ LegOf(t, w)' = "no"
    BY <1>1, <1>4 DEF LegOf, Awaited
  <2>2. LateOf(t, w) = "sent" /\ LateOf(t, w)' = "stored"
    BY <1>1, <2>1 DEF LateOf
  <2> QED
    BY <1>1, <1>2, <2>1, <2>2, LegChange, AtLeg DEF Serve, AsLegs!LateDeliver
<1> QED
  BY <1>2, <1>3, <1>4

\* The worker answers with an Error: a query that Neo4j was sent stays there.
LEMMA ErrorStep ==
  ASSUME LegsInv, NEW t \in Call, NEW w \in Worker, AnswerError(t, w)
  PROVE  \/ AsLegs!Lose(t, w) \/ AsLegs!LoseAnswer(t, w)
         \/ AsLegs!LateDrop(t, w) \/ UNCHANGED AsLegs!vars
<1>1. /\ handler[t][w] \in {"stored", "running"} /\ handler'[t][w] = "err"
      /\ UNCHANGED <<prepLeg, query, runs, mem>>
  BY Known, SMT DEF AnswerError, TypeOK, legs, database, process
<1>2. /\ prepLeg[t][w] \in {"await", "NO"}
      /\ handler[t][w] = "stored" => query[t][w] = "none"
  BY <1>1, Known DEF LegInv, QueryInv, AckInv, PrepState
<1>3. LegOf(t, w)' = "no"
  BY <1>1, <1>2 DEF LegOf, Awaited
<1>4. LateOf(t, w)' = IF query[t][w] = "sent" THEN "stored" ELSE "none"
  BY <1>1, <1>3 DEF LateOf
<1>5. CASE prepLeg[t][w] = "await"
  <2>1. Outcome[t] = "open"
    BY <1>5, Known DEF WaitInv, Outcome, OutcomeOf
  <2>2. LegOf(t, w) = Awaited(t, w)
    BY <1>5 DEF LegOf
  <2>3. CASE query[t][w] = "done"
    <3>1. LegOf(t, w) = "ack"
      BY <1>1, <2>2, <2>3 DEF Awaited
    <3>2. LateOf(t, w) = "none" /\ LateOf(t, w)' = "none"
      BY <1>4, <2>3, <3>1 DEF LateOf
    <3> QED
      BY <1>1, <1>3, <2>1, <3>1, <3>2, SilentChange DEF Serve
  <2>4. CASE query[t][w] = "refused"
    <3>1. LegOf(t, w) = "no"
      BY <1>1, <2>2, <2>4 DEF Awaited
    <3> QED
      BY <1>1, <1>3, <1>4, <2>4, <3>1, SilentChange DEF Serve
  <2>5. CASE query[t][w] \notin {"done", "refused"}
    <3>1. LegOf(t, w) = "stored"
      BY <1>1, <2>2, <2>5 DEF Awaited
    <3> QED
      BY <1>1, <1>3, <1>4, <3>1, SilentChange DEF Serve
  <2> QED
    BY <2>3, <2>4, <2>5
<1>6. CASE prepLeg[t][w] = "NO"
  <2>1. LegOf(t, w) = "no"
    BY <1>6 DEF LegOf
  <2>2. CASE query[t][w] = "sent"
    <3>1. LateOf(t, w) = "stored"
      BY <1>1, <2>1, <2>2 DEF LateOf
    <3> QED
      BY <1>1, <1>3, <1>4, <2>1, <2>2, <3>1, SilentChange DEF Serve
  <2>3. CASE query[t][w] # "sent"
    BY <1>1, <1>3, <1>4, <2>1, <2>3, SilentChange DEF Serve
  <2> QED
    BY <2>2, <2>3
<1> QED
  BY <1>2, <1>5, <1>6

\* Where a query that Neo4j was sent is seen.
LEMMA SentSeen ==
  ASSUME LegsInv, NEW t \in Call, NEW w \in Worker, query[t][w] = "sent"
  PROVE  /\ handler[t][w] \in {"running", "err", "dead"}
         /\ \/ /\ prepLeg[t][w] = "await" /\ handler[t][w] = "running"
               /\ LegOf(t, w) = "stored" /\ LateOf(t, w) = "none"
            \/ /\ prepLeg[t][w] = "NO" \/ handler[t][w] \in {"err", "dead"}
               /\ LegOf(t, w) = "no" /\ LateOf(t, w) = "stored"
<1>1. /\ handler[t][w] \in {"running", "err", "dead"}
      /\ prepLeg[t][w] \in {"await", "NO"}
  BY Known DEF LegInv, QueryInv, AckInv, HandlerState, PrepState
<1>2. CASE prepLeg[t][w] = "await" /\ handler[t][w] = "running"
  BY <1>2 DEF LegOf, LateOf, Awaited
<1>3. CASE prepLeg[t][w] = "NO" \/ handler[t][w] \in {"err", "dead"}
  <2>1. LegOf(t, w) = "no"
    BY <1>1, <1>3 DEF LegOf, Awaited
  <2> QED
    BY <1>1, <1>3, <2>1 DEF LateOf
<1> QED
  BY <1>1, <1>2, <1>3

\* Neo4j runs the query, for a caller that waits or for one that has given up.
LEMMA RunStep ==
  ASSUME LegsInv, NEW t \in Call, NEW w \in Worker, RunQuery(t, w)
  PROVE  AsLegs!RunQuery(t, w) \/ AsLegs!LateRun(t, w)
<1>1. /\ query[t][w] = "sent" /\ query'[t][w] = "done"
      /\ UNCHANGED <<prepLeg, handler, mem>>
      /\ runs' = [runs EXCEPT ![t][w] = @ + 1]
  BY Known, SMT DEF RunQuery, TypeOK, legs, process
<1>2. CASE prepLeg[t][w] = "await" /\ handler[t][w] = "running"
  <2>1. LegOf(t, w) = "stored" /\ LateOf(t, w) = "none"
    BY <1>1, <1>2, SentSeen
  <2>2. LegOf(t, w)' = "ack"
    BY <1>1, <1>2 DEF LegOf, Awaited
  <2>3. LateOf(t, w)' = LateOf(t, w)
    BY <2>1, <2>2 DEF LateOf
  <2> QED
    BY <1>1, <2>1, <2>2, <2>3, LegChange, AtLeg DEF Neo4j, AsLegs!RunQuery
<1>3. CASE prepLeg[t][w] = "NO" \/ handler[t][w] \in {"err", "dead"}
  <2>1. /\ LegOf(t, w) = "no" /\ LateOf(t, w) = "stored"
        /\ handler[t][w] \in {"running", "err", "dead"}
    BY <1>1, <1>3, SentSeen
  <2>2. prepLeg[t][w] \in {"await", "NO"}
    BY <1>1, SentSeen, Known DEF LegInv, QueryInv, AckInv, PrepState
  <2>3. LegOf(t, w)' = "no"
    BY <1>1, <1>3, <2>2 DEF LegOf, Awaited
  <2>4. LateOf(t, w)' = "none"
    BY <1>1, <2>1, <2>3 DEF LateOf
  <2> QED
    BY <1>1, <2>1, <2>3, <2>4, LegChange, AtLeg DEF Neo4j, AsLegs!LateRun
<1> QED
  BY <1>1, <1>2, <1>3, SentSeen

\* Neo4j refuses the query: nothing is left of the message.
LEMMA RefuseStep ==
  ASSUME LegsInv, NEW t \in Call, NEW w \in Worker, RefuseQuery(t, w)
  PROVE  AsLegs!Lose(t, w) \/ AsLegs!LateDrop(t, w)
<1>1. /\ query[t][w] = "sent" /\ query'[t][w] = "refused"
      /\ UNCHANGED <<prepLeg, handler, runs, mem>>
  BY Known, SMT DEF RefuseQuery, TypeOK, legs, process
<1>2. /\ prepLeg[t][w] \in {"await", "NO"}
      /\ handler[t][w] \in {"running", "err", "dead"}
      /\ LegOf(t, w) \in {"stored", "no"}
  BY <1>1, SentSeen, Known DEF LegInv, QueryInv, AckInv, PrepState
<1>3. LegOf(t, w)' = "no"
  BY <1>1, <1>2 DEF LegOf, Awaited
<1>4. LateOf(t, w)' = "none"
  BY <1>1, <1>2, <1>3 DEF LateOf
<1> QED
  BY <1>1, <1>2, <1>3, <1>4, SilentChange DEF Neo4j

\* What a crash makes of the leg of one call.
LEMMA CrashLeg ==
  ASSUME LegsInv, NEW w \in Worker, Crash(w), NEW t \in Call
  PROVE  /\ \A v \in Worker : v # w => SameLeg(t, v)
         /\ LegOf(t, w)' \in AsLegs!Cut(t, LegOf(t, w))
         /\ LegOf(t, w)' \in {"none", "sent", "ack", "no"}
         /\ LateOf(t, w)' \in AsLegs!Left(LegOf(t, w), LateOf(t, w))
<1>1. /\ handler'[t][w] = IF handler[t][w] \in {"recv", "stored", "running"}
                          THEN "dead" ELSE handler[t][w]
      /\ \A v \in Worker : v # w => handler'[t][v] = handler[t][v]
      /\ UNCHANGED <<prepLeg, query>>
  BY Known, SMT DEF Crash, TypeOK, legs, database
<1>2. /\ handler'[t][w] \in {"none", "ack", "err", "dead"}
      /\ handler'[t][w] # handler[t][w] => handler'[t][w] = "dead"
      /\ handler'[t][w] = "ack" => query[t][w] = "done"
      /\ prepLeg[t][w] = "await" => handler'[t][w] # "none"
  BY <1>1, Known DEF HandlerState, QueryInv, WaitInv
<1>3. LegOf(t, w)' =
        IF prepLeg[t][w] # "await" THEN LegOf(t, w)
        ELSE IF handler'[t][w] = "ack" THEN "ack" ELSE "no"
  <2>1. CASE prepLeg[t][w] = "await"
    BY <1>1, <1>2, <2>1 DEF LegOf, Awaited
  <2>2. CASE prepLeg[t][w] # "await"
    BY <1>1, <2>2, Known DEF LegOf, PrepState
  <2> QED
    BY <2>1, <2>2
<1>4. LateOf(t, w)' \in {"none", "stored"}
      /\ (LateOf(t, w)' = "stored" => query[t][w] = "sent")
  BY <1>1, <1>2 DEF LateOf
<1>5. LateOf(t, w)' \in AsLegs!Left(LegOf(t, w), LateOf(t, w))
  BY <1>4, SentSeen DEF AsLegs!Left
<1>6. LegOf(t, w) \in {"none", "sent", "stored", "ack", "no"}
  BY Known DEF LegOf, Awaited, PrepState
<1>7. CASE prepLeg[t][w] = "await"
  <2>1. Outcome[t] = "open"
    BY <1>7, Known DEF WaitInv, Outcome, OutcomeOf
  <2>2. LegOf(t, w) # "none"
    BY <1>7 DEF LegOf, Awaited
  <2>3. handler'[t][w] = "ack" => LegOf(t, w) = "ack"
    BY <1>1, <1>2, <1>7 DEF LegOf, Awaited
  <2>4. LegOf(t, w)' \in AsLegs!Cut(t, LegOf(t, w))
    BY <1>3, <1>6, <1>7, <2>1, <2>2, <2>3 DEF AsLegs!Cut
  <2> QED
    BY <1>1, <1>3, <1>5, <1>7, <2>4 DEF SameLeg
<1>8. CASE prepLeg[t][w] # "await"
  <2>1. LegOf(t, w) # "stored"
    BY <1>8, Known DEF LegOf, PrepState
  <2>2. LegOf(t, w) \in AsLegs!Cut(t, LegOf(t, w))
    BY <1>6, <2>1 DEF AsLegs!Cut
  <2> QED
    BY <1>1, <1>3, <1>5, <1>6, <1>8, <2>1, <2>2 DEF SameLeg
<1> QED
  BY <1>7, <1>8

\* A crash cuts the legs of all calls at that worker, and no others.
LEMMA CrashStep ==
  ASSUME LegsInv, NEW w \in Worker, Crash(w)
  PROVE  AsLegs!Crash(w)
<1> DEFINE l == [t \in Call |-> LegOf(t, w)']
           r == [t \in Call |-> LateOf(t, w)']
<1>1. /\ up[w] /\ up' = [up EXCEPT ![w] = FALSE] /\ mem' = [mem EXCEPT ![w] = {}]
      /\ UNCHANGED <<Outcome, runs>>
  BY DEF Crash, caller, database, Outcome
<1>2. \A t \in Call, v \in Worker : v # w =>
        LegOf(t, v)' = LegOf(t, v) /\ LateOf(t, v)' = LateOf(t, v)
  BY CrashLeg, SameLegs
<1>3. LegsNow' = [t \in Call |-> [LegsNow[t] EXCEPT ![w] = l[t]]]
  BY <1>2 DEF LegsNow
<1>4. LateNow' = [t \in Call |-> [LateNow[t] EXCEPT ![w] = r[t]]]
  BY <1>2 DEF LateNow
<1>5. \A t \in Call : /\ l[t] \in AsLegs!Cut(t, LegsNow[t][w])
                      /\ r[t] \in AsLegs!Left(LegsNow[t][w], LateNow[t][w])
  BY CrashLeg, AtLeg
<1>6. l \in [Call -> {"none", "sent", "ack", "no"}]
  BY CrashLeg
<1>7. r \in [Call -> {"none", "stored"}]
  <2>1. \A t \in Call : r[t] \in {"none", "stored"}
    BY <1>5 DEF AsLegs!Left
  <2> QED
    BY <2>1
<1> HIDE DEF l, r
<1> QED
  BY <1>1, <1>3, <1>4, <1>5, <1>6, <1>7 DEF AsLegs!Crash

\* Run2PC starts its goroutines.
LEMMA BeginStep ==
  ASSUME LegsInv, NEW t \in Call, NEW P \in (SUBSET Worker) \ {{}}, Begin(t, P)
  PROVE  AsLegs!Send(t, P)
<1>1. TypeOK /\ \A w \in Worker : LegInv(t, w)
  BY DEF LegsInv, IInv
<1>2. /\ call[t] = "idle" /\ call' = [call EXCEPT ![t] = "prepare"]
      /\ prepLeg' = [prepLeg EXCEPT ![t] =
                       [w \in Worker |-> IF w \in P THEN "dial" ELSE "none"]]
      /\ UNCHANGED <<handler, query, runs, mem, up>>
  BY DEF Begin, database, process
<1>3. Outcome[t] = "idle" /\ Outcome' = [Outcome EXCEPT ![t] = "open"]
  <2>1. Outcome' = [Outcome EXCEPT ![t] = OutcomeOf("prepare")]
    BY <1>1, <1>2, OutcomeFollows
  <2> QED
    BY <1>2, <2>1 DEF Outcome, OutcomeOf
<1>4. \A u \in Call, v \in Worker : u # t => SameLeg(u, v)
  BY <1>1, <1>2 DEF SameLeg, TypeOK
<1>5. ASSUME NEW w \in Worker
      PROVE  /\ LegOf(t, w)' = (IF w \in P THEN "sent" ELSE "none")
             /\ LateOf(t, w) = "none" /\ LateOf(t, w)' = "none"
  <2>1. prepLeg[t][w] = "none"
    BY <1>1, <1>2 DEF LegInv
  <2>2. prepLeg'[t][w] = IF w \in P THEN "dial" ELSE "none"
    BY <1>1, <1>2 DEF TypeOK
  <2>3. LegOf(t, w) = "none" /\ LegOf(t, w)' = (IF w \in P THEN "sent" ELSE "none")
    BY <2>1, <2>2 DEF LegOf
  <2> QED
    BY <2>3 DEF LateOf
<1>6. LegsNow' = [LegsNow EXCEPT ![t] =
                    [w \in Worker |-> IF w \in P THEN "sent" ELSE "none"]]
  BY <1>4, <1>5, SameLegs DEF LegsNow
<1>7. LateNow' = LateNow
  BY <1>4, <1>5, SameLegs, Quiet DEF LateNow
<1> QED
  BY <1>2, <1>3, <1>6, <1>7 DEF AsLegs!Send

\* Run2PC returns what its legs say.
LEMMA ReturnStep ==
  ASSUME LegsInv, NEW t \in Call, Return(t)
  PROVE  AsLegs!Succeed(t) \/ AsLegs!Fail(t)
<1>1. /\ TypeOK /\ VerdictInv(t)
      /\ \A w \in Worker : LegInv(t, w) /\ AckInv(t, w) /\ WaitInv(t, w)
  BY DEF LegsInv, IInv
<1>2. /\ Outcome[t] = "open"
      /\ UNCHANGED <<LegsNow, LateNow, runs, mem, up>>
  <2>1. UNCHANGED <<prepLeg, handler, query, runs, mem, up>>
    BY DEF Return, legs, database, process
  <2>2. \A u \in Call, v \in Worker : SameLeg(u, v)
    BY <2>1 DEF SameLeg
  <2>3. UNCHANGED <<LegsNow, LateNow>>
    BY <2>2, SameLegs, Quiet
  <2> QED
    BY <2>1, <2>3 DEF Return, Outcome, OutcomeOf
<1>3. \A w \in Worker : prepLeg[t][w] \in {"none", "ACK", "NO"}
  BY <1>1 DEF Return, WaitInv, TypeOK, PrepState
<1>4. CASE call[t] = "COMMIT"
  <2>1. Outcome' = [Outcome EXCEPT ![t] = "ok"]
    BY <1>1, <1>4, OutcomeFollows DEF Return, OutcomeOf
  <2>2. \A w \in Worker : prepLeg[t][w] \in {"none", "ACK"}
    BY <1>1, <1>4 DEF AckInv, LegInv
  <2>3. \A w \in Worker : LegsNow[t][w] \in {"none", "ack"}
    BY <2>2, AtLeg DEF LegOf
  <2> QED
    BY <1>2, <2>1, <2>3 DEF AsLegs!Succeed
<1>5. CASE call[t] = "ROLLBACK"
  <2>1. Outcome' = [Outcome EXCEPT ![t] = "failed"]
    BY <1>1, <1>5, OutcomeFollows DEF Return, OutcomeOf
  <2>2. \A w \in Worker : LegsNow[t][w] \in {"none", "ack", "no"}
    BY <1>3, AtLeg DEF LegOf
  <2>3. \E w \in Worker : LegsNow[t][w] = "no"
    <3>1. PICK w \in Worker : prepLeg[t][w] = "NO"
      BY <1>1, <1>5 DEF VerdictInv
    <3> QED
      BY <3>1, AtLeg DEF LegOf
  <2> QED
    BY <1>2, <2>1, <2>2, <2>3 DEF AsLegs!Fail
<1> QED
  BY <1>4, <1>5 DEF Return

\* Steps of the caller, of phase two and of a worker that starts again, as
\* the legs see them.
LEMMA AsideStep ==
  ASSUME LegsInv
  PROVE  /\ \A t \in Call : Decide(t) => UNCHANGED AsLegs!vars
         /\ \A t \in Call, w \in Worker : Finish(t, w) => UNCHANGED AsLegs!vars
         /\ \A w \in Worker : Restart(w) => AsLegs!Restart(w)
         /\ UNCHANGED vars => UNCHANGED AsLegs!vars
<1>1. ASSUME UNCHANGED <<prepLeg, handler, query>> PROVE UNCHANGED <<LegsNow, LateNow>>
  BY <1>1, SameLegs, Quiet DEF SameLeg
<1>2. ASSUME NEW t \in Call, Decide(t) PROVE UNCHANGED AsLegs!vars
  <2>1. Outcome' = Outcome
    <3>1. /\ call[t] = "prepare"
          /\ \E s \in {"COMMIT", "ROLLBACK"} : call' = [call EXCEPT ![t] = s]
      BY <1>2 DEF Decide
    <3>2. TypeOK
      BY DEF LegsInv, IInv
    <3>3. Outcome[t] = "open" /\ Outcome' = [Outcome EXCEPT ![t] = "open"]
      BY <3>1, <3>2, OutcomeFollows DEF Outcome, OutcomeOf
    <3> QED
      BY <3>3 DEF Outcome
  <2> QED
    BY <1>1, <1>2, <2>1 DEF Decide, database, process, AsLegs!vars
<1>3. ASSUME NEW t \in Call, NEW w \in Worker, Finish(t, w) PROVE UNCHANGED AsLegs!vars
  <2>1. UNCHANGED <<caller, prepLeg, handler, database, process>>
    BY <1>3 DEF Finish, FinConnect, FinDialFails, FinAnswer
  <2> QED
    BY <1>1, <2>1 DEF caller, database, process, Outcome, AsLegs!vars
<1>4. ASSUME NEW w \in Worker, Restart(w) PROVE AsLegs!Restart(w)
  BY <1>1, <1>4 DEF Restart, caller, legs, database, Outcome, AsLegs!Restart
<1>5. ASSUME UNCHANGED vars PROVE UNCHANGED AsLegs!vars
  BY <1>1, <1>5 DEF vars, caller, legs, database, process, Outcome, AsLegs!vars
<1> QED
  BY <1>2, <1>3, <1>4, <1>5

\* Run2PC and the handlers take the steps of Legs and no others: a worker's
\* memory changes on delivery and in a crash only, a query is run once and
\* after its delivery, an Ack is of a query that was run, and a message that
\* was given up may still be delivered and run.  GraphStore is built on it.
THEOREM LegsImplementation == Spec => ImplementsLegs
<1>1. Init => AsLegs!Init
  <2> SUFFICES ASSUME Init PROVE AsLegs!Init
    OBVIOUS
  <2>1. \A t \in Call, w \in Worker : LegOf(t, w) = "none" /\ LateOf(t, w) = "none"
    BY DEF Init, LegOf, LateOf
  <2> QED
    BY <2>1 DEF Init, LegsNow, LateNow, Outcome, OutcomeOf, AsLegs!Init
<1>2. LegsInv /\ [Next]_vars => [AsLegs!Next]_(AsLegs!vars)
  <2> SUFFICES ASSUME LegsInv, [Next]_vars PROVE AsLegs!Next \/ UNCHANGED AsLegs!vars
    OBVIOUS
  <2>1. ASSUME NEW t \in Call, NEW P \in (SUBSET Worker) \ {{}}, Begin(t, P)
        PROVE  AsLegs!Next
    BY <2>1, BeginStep DEF AsLegs!Next
  <2>2. ASSUME NEW t \in Call, Caller(t) PROVE AsLegs!Next \/ UNCHANGED AsLegs!vars
    BY <2>2, AsideStep, ReturnStep DEF Caller, AsLegs!Next
  <2>3. ASSUME NEW t \in Call, NEW w \in Worker,
               Prepare(t, w) \/ ConnectionLost(t, w) \/ Finish(t, w)
        PROVE  AsLegs!Next \/ UNCHANGED AsLegs!vars
    BY <2>3, QuietStep, LossStep, AsideStep DEF Prepare, AsLegs!Next
  <2>4. ASSUME NEW t \in Call, NEW w \in Worker, Serve(t, w)
        PROVE  AsLegs!Next \/ UNCHANGED AsLegs!vars
    BY <2>4, StoreStep, QuietStep, ErrorStep DEF Serve, AsLegs!Next
  <2>5. ASSUME NEW t \in Call, NEW w \in Worker, Neo4j(t, w) PROVE AsLegs!Next
    BY <2>5, RunStep, RefuseStep DEF Neo4j, AsLegs!Next
  <2>6. ASSUME NEW w \in Worker, Crash(w) \/ Restart(w) PROVE AsLegs!Next
    BY <2>6, CrashStep, AsideStep DEF AsLegs!Next
  <2> QED
    BY <2>1, <2>2, <2>3, <2>4, <2>5, <2>6, AsideStep DEF Next
<1> QED
  BY <1>1, <1>2, LegsInvariance, PTL DEF Spec, AsLegs!Spec, ImplementsLegs
=============================================================================
