-------------------------- MODULE TwoPhaseProofs --------------------------
(***************************************************************************)
(* Proofs about TwoPhase, for every set of calls and of workers and any    *)
(* number of crashes.  The inductive invariant IInv relates, for one call  *)
(* and one worker, the three parties that each know a part of what has     *)
(* happened: the goroutine of the coordinator, the handler of the worker   *)
(* and Neo4j.                                                              *)
(***************************************************************************)
EXTENDS TwoPhase, TLAPS

\* No goroutine without an address, and none before the call.
LegInv(t, w) ==
  /\ w \notin parts[t] => prepLeg[t][w] = "none"
  /\ call[t] = "idle" => prepLeg[t][w] = "none"
  /\ prepLeg[t][w] \in {"none", "dial"} => handler[t][w] = "none"

\* The handler runs its query after the critical section and answers Ack
\* after the query; the query is executed once.
QueryInv(t, w) ==
  /\ handler[t][w] \in {"none", "recv", "stored"} => query[t][w] = "none"
  /\ handler[t][w] = "ack" => query[t][w] = "done"
  /\ query[t][w] = "done" => runs[t][w] = 1
  /\ query[t][w] # "done" => runs[t][w] = 0

\* What the coordinator believes is so.
AckInv(t, w) ==
  /\ prepLeg[t][w] = "ACK" => handler[t][w] = "ack"
  /\ call[t] \in {"COMMIT", "ok"} /\ w \in parts[t] => prepLeg[t][w] = "ACK"

\* Memory is written before the query is sent, and only a crash forgets it.
MemInv(t, w) ==
  crashes[w] = 0 =>
    /\ handler[t][w] = "stored" => t \in mem[w]
    /\ query[t][w] # "none" => t \in mem[w]

IInv ==
  /\ TypeOK
  /\ \A t \in Call, w \in Worker : LegInv(t, w)
  /\ \A t \in Call, w \in Worker : QueryInv(t, w)
  /\ \A t \in Call, w \in Worker : AckInv(t, w)
  /\ \A t \in Call, w \in Worker : MemInv(t, w)

----------------------------------------------------------------------------
(* Types.                                                                  *)

LEMMA InitType == Init => TypeOK
  BY SMT DEF Init, TypeOK, CallState, PrepState, FinState, HandlerState,
             QueryState

LEMMA TypeStep == TypeOK /\ [Next]_vars => TypeOK'
<1> SUFFICES ASSUME TypeOK, [Next]_vars PROVE TypeOK'
  OBVIOUS
<1> USE DEF TypeOK, CallState, PrepState, FinState, HandlerState, QueryState,
            caller, legs, database, process
<1>1. ASSUME NEW t \in Call, NEW P \in (SUBSET Worker) \ {{}}, Begin(t, P)
      PROVE  TypeOK'
  BY <1>1, SMT DEF Begin
<1>2. ASSUME NEW t \in Call, Caller(t) PROVE TypeOK'
  <2>1. CASE Decide(t)
    <3>1. call' \in [Call -> CallState]
      BY <2>1, SMT DEF Decide
    <3>2. finLeg' \in [Call -> [Worker -> FinState]]
      BY <2>1, SMT DEF Decide
    <3> QED
      BY <2>1, <3>1, <3>2 DEF Decide
  <2>2. CASE Return(t)
    BY <2>2, SMT DEF Return
  <2> QED
    BY <1>2, <2>1, <2>2 DEF Caller
<1>3. ASSUME NEW t \in Call, NEW w \in Worker,
             Prepare(t, w) \/ ConnectionLost(t, w)
      PROVE  TypeOK'
  <2>1. CASE Connect(t, w)
    BY <2>1, SMT DEF Connect
  <2>2. CASE DialFails(t, w)
    BY <2>2, SMT DEF DialFails
  <2>3. CASE RecvAck(t, w)
    BY <2>3, SMT DEF RecvAck
  <2>4. CASE RecvOther(t, w)
    BY <2>4, SMT DEF RecvOther
  <2>5. CASE ConnectionLost(t, w)
    <3>1. prepLeg' \in [Call -> [Worker -> PrepState]]
      BY <2>5, SMT DEF ConnectionLost
    <3>2. handler' \in [Call -> [Worker -> HandlerState]]
      <4>1. CASE UNCHANGED handler
        BY <4>1
      <4>2. CASE handler' = [handler EXCEPT ![t][w] = "dead"]
        BY <4>2, SMT
      <4> QED
        BY <2>5, <4>1, <4>2 DEF ConnectionLost
    <3> QED
      BY <2>5, <3>1, <3>2 DEF ConnectionLost
  <2> QED
    BY <1>3, <2>1, <2>2, <2>3, <2>4, <2>5 DEF Prepare
<1>4. ASSUME NEW t \in Call, NEW w \in Worker, Finish(t, w) PROVE TypeOK'
  <2>1. CASE FinConnect(t, w)
    BY <2>1, SMT DEF FinConnect
  <2>2. CASE FinDialFails(t, w)
    BY <2>2, SMT DEF FinDialFails
  <2>3. CASE FinAnswer(t, w)
    BY <2>3, SMT DEF FinAnswer
  <2> QED
    BY <1>4, <2>1, <2>2, <2>3 DEF Finish
<1>5. ASSUME NEW t \in Call, NEW w \in Worker, Serve(t, w) PROVE TypeOK'
  <2>1. CASE Store(t, w)
    BY <2>1, SMT DEF Store
  <2>2. CASE SendQuery(t, w)
    BY <2>2, SMT DEF SendQuery
  <2>3. CASE Answer(t, w)
    BY <2>3, SMT DEF Answer
  <2>4. CASE AnswerError(t, w)
    BY <2>4, SMT DEF AnswerError
  <2> QED
    BY <1>5, <2>1, <2>2, <2>3, <2>4 DEF Serve
<1>6. ASSUME NEW t \in Call, NEW w \in Worker, Neo4j(t, w) PROVE TypeOK'
  <2>1. CASE RunQuery(t, w)
    BY <2>1, SMT DEF RunQuery
  <2>2. CASE RefuseQuery(t, w)
    BY <2>2, SMT DEF RefuseQuery
  <2> QED
    BY <1>6, <2>1, <2>2 DEF Neo4j
<1>7. ASSUME NEW w \in Worker, Crash(w) \/ Restart(w) PROVE TypeOK'
  <2>1. CASE Crash(w)
    BY <2>1, SMT DEF Crash
  <2>2. CASE Restart(w)
    BY <2>2, SMT DEF Restart
  <2> QED
    BY <1>7, <2>1, <2>2
<1>8. CASE UNCHANGED vars
  BY <1>8, SMT DEF vars
<1> QED
  BY <1>1, <1>2, <1>3, <1>4, <1>5, <1>6, <1>7, <1>8 DEF Next

\* Every variable of TwoPhase keeps its type: in particular results only
\* ever holds MsgAck and MsgNo once a goroutine of Run2PC is done.
THEOREM TypeCorrect == Spec => []TypeOK
<1>1. Init => TypeOK
  BY InitType
<1>2. TypeOK /\ [Next]_vars => TypeOK'
  BY TypeStep
<1> QED
  BY <1>1, <1>2, PTL DEF Spec

----------------------------------------------------------------------------
(* The inductive invariant, part by part.                                  *)

\* A handler exists only behind a goroutine that has connected.
LEMMA LegStep ==
  ASSUME TypeOK, TypeOK', [Next]_vars, NEW u \in Call, NEW v \in Worker,
         LegInv(u, v)
  PROVE  LegInv(u, v)'
<1> USE DEF TypeOK, LegInv, caller, legs, database, process
<1>1. ASSUME NEW t \in Call, NEW P \in (SUBSET Worker) \ {{}}, Begin(t, P)
      PROVE  LegInv(u, v)'
  BY <1>1, SMT DEF Begin
<1>2. ASSUME NEW t \in Call, Decide(t) PROVE LegInv(u, v)'
  BY <1>2, SMT DEF Decide
<1>3. ASSUME NEW t \in Call, Return(t) PROVE LegInv(u, v)'
  BY <1>3, SMT DEF Return
<1>4. ASSUME NEW t \in Call, NEW w \in Worker, Connect(t, w)
      PROVE  LegInv(u, v)'
  BY <1>4, SMT DEF Connect
<1>5. ASSUME NEW t \in Call, NEW w \in Worker, DialFails(t, w)
      PROVE  LegInv(u, v)'
  BY <1>5, SMT DEF DialFails
<1>6. ASSUME NEW t \in Call, NEW w \in Worker, RecvAck(t, w)
      PROVE  LegInv(u, v)'
  BY <1>6, SMT DEF RecvAck
<1>7. ASSUME NEW t \in Call, NEW w \in Worker, RecvOther(t, w)
      PROVE  LegInv(u, v)'
  BY <1>7, SMT DEF RecvOther
<1>8. ASSUME NEW t \in Call, NEW w \in Worker, ConnectionLost(t, w)
      PROVE  LegInv(u, v)'
  BY <1>8, SMT DEF ConnectionLost
<1>9. ASSUME NEW t \in Call, NEW w \in Worker, FinConnect(t, w)
      PROVE  LegInv(u, v)'
  BY <1>9, SMT DEF FinConnect
<1>10. ASSUME NEW t \in Call, NEW w \in Worker, FinDialFails(t, w)
      PROVE  LegInv(u, v)'
  BY <1>10, SMT DEF FinDialFails
<1>11. ASSUME NEW t \in Call, NEW w \in Worker, FinAnswer(t, w)
      PROVE  LegInv(u, v)'
  BY <1>11, SMT DEF FinAnswer
<1>12. ASSUME NEW t \in Call, NEW w \in Worker, Store(t, w)
      PROVE  LegInv(u, v)'
  BY <1>12, SMT DEF Store
<1>13. ASSUME NEW t \in Call, NEW w \in Worker, SendQuery(t, w)
      PROVE  LegInv(u, v)'
  BY <1>13, SMT DEF SendQuery
<1>14. ASSUME NEW t \in Call, NEW w \in Worker, Answer(t, w)
      PROVE  LegInv(u, v)'
  BY <1>14, SMT DEF Answer
<1>15. ASSUME NEW t \in Call, NEW w \in Worker, AnswerError(t, w)
      PROVE  LegInv(u, v)'
  BY <1>15, SMT DEF AnswerError
<1>16. ASSUME NEW t \in Call, NEW w \in Worker, RunQuery(t, w)
      PROVE  LegInv(u, v)'
  BY <1>16, SMT DEF RunQuery
<1>17. ASSUME NEW t \in Call, NEW w \in Worker, RefuseQuery(t, w)
      PROVE  LegInv(u, v)'
  BY <1>17, SMT DEF RefuseQuery
<1>18. ASSUME NEW w \in Worker, Crash(w) PROVE LegInv(u, v)'
  BY <1>18, SMT DEF Crash
<1>19. ASSUME NEW w \in Worker, Restart(w) PROVE LegInv(u, v)'
  BY <1>19, SMT DEF Restart
<1>20. CASE UNCHANGED vars
  BY <1>20, SMT DEF vars
<1> QED
  BY <1>1, <1>2, <1>3, <1>4, <1>5, <1>6, <1>7, <1>8, <1>9, <1>10, <1>11, <1>12, <1>13, <1>14, <1>15, <1>16, <1>17, <1>18, <1>19, <1>20
  DEF Next, Caller, Prepare, Finish, Serve, Neo4j

\* The query of a handler that is about to be created was never sent.
LEMMA QueryStep ==
  ASSUME TypeOK, TypeOK', [Next]_vars, NEW u \in Call, NEW v \in Worker,
         LegInv(u, v), QueryInv(u, v)
  PROVE  QueryInv(u, v)'
<1> USE DEF TypeOK, QueryInv, caller, legs, database, process, LegInv
<1>1. ASSUME NEW t \in Call, NEW P \in (SUBSET Worker) \ {{}}, Begin(t, P)
      PROVE  QueryInv(u, v)'
  BY <1>1, SMT DEF Begin
<1>2. ASSUME NEW t \in Call, Decide(t) PROVE QueryInv(u, v)'
  BY <1>2, SMT DEF Decide
<1>3. ASSUME NEW t \in Call, Return(t) PROVE QueryInv(u, v)'
  BY <1>3, SMT DEF Return
<1>4. ASSUME NEW t \in Call, NEW w \in Worker, Connect(t, w)
      PROVE  QueryInv(u, v)'
  BY <1>4, SMT DEF Connect
<1>5. ASSUME NEW t \in Call, NEW w \in Worker, DialFails(t, w)
      PROVE  QueryInv(u, v)'
  BY <1>5, SMT DEF DialFails
<1>6. ASSUME NEW t \in Call, NEW w \in Worker, RecvAck(t, w)
      PROVE  QueryInv(u, v)'
  BY <1>6, SMT DEF RecvAck
<1>7. ASSUME NEW t \in Call, NEW w \in Worker, RecvOther(t, w)
      PROVE  QueryInv(u, v)'
  BY <1>7, SMT DEF RecvOther
<1>8. ASSUME NEW t \in Call, NEW w \in Worker, ConnectionLost(t, w)
      PROVE  QueryInv(u, v)'
  BY <1>8, SMT DEF ConnectionLost
<1>9. ASSUME NEW t \in Call, NEW w \in Worker, FinConnect(t, w)
      PROVE  QueryInv(u, v)'
  BY <1>9, SMT DEF FinConnect
<1>10. ASSUME NEW t \in Call, NEW w \in Worker, FinDialFails(t, w)
      PROVE  QueryInv(u, v)'
  BY <1>10, SMT DEF FinDialFails
<1>11. ASSUME NEW t \in Call, NEW w \in Worker, FinAnswer(t, w)
      PROVE  QueryInv(u, v)'
  BY <1>11, SMT DEF FinAnswer
<1>12. ASSUME NEW t \in Call, NEW w \in Worker, Store(t, w)
      PROVE  QueryInv(u, v)'
  BY <1>12, SMT DEF Store
<1>13. ASSUME NEW t \in Call, NEW w \in Worker, SendQuery(t, w)
      PROVE  QueryInv(u, v)'
  BY <1>13, SMT DEF SendQuery
<1>14. ASSUME NEW t \in Call, NEW w \in Worker, Answer(t, w)
      PROVE  QueryInv(u, v)'
  BY <1>14, SMT DEF Answer
<1>15. ASSUME NEW t \in Call, NEW w \in Worker, AnswerError(t, w)
      PROVE  QueryInv(u, v)'
  BY <1>15, SMT DEF AnswerError
<1>16. ASSUME NEW t \in Call, NEW w \in Worker, RunQuery(t, w)
      PROVE  QueryInv(u, v)'
  BY <1>16, SMT DEF RunQuery
<1>17. ASSUME NEW t \in Call, NEW w \in Worker, RefuseQuery(t, w)
      PROVE  QueryInv(u, v)'
  BY <1>17, SMT DEF RefuseQuery
<1>18. ASSUME NEW w \in Worker, Crash(w) PROVE QueryInv(u, v)'
  BY <1>18, SMT DEF Crash
<1>19. ASSUME NEW w \in Worker, Restart(w) PROVE QueryInv(u, v)'
  BY <1>19, SMT DEF Restart
<1>20. CASE UNCHANGED vars
  BY <1>20, SMT DEF vars
<1> QED
  BY <1>1, <1>2, <1>3, <1>4, <1>5, <1>6, <1>7, <1>8, <1>9, <1>10, <1>11, <1>12, <1>13, <1>14, <1>15, <1>16, <1>17, <1>18, <1>19, <1>20
  DEF Next, Caller, Prepare, Finish, Serve, Neo4j

\* A handler that has answered Ack does nothing more, and survives a crash.
LEMMA AckStep ==
  ASSUME TypeOK, TypeOK', [Next]_vars, NEW u \in Call, NEW v \in Worker,
         LegInv(u, v), AckInv(u, v)
  PROVE  AckInv(u, v)'
<1> USE DEF TypeOK, AckInv, caller, legs, database, process, LegInv
<1>1. ASSUME NEW t \in Call, NEW P \in (SUBSET Worker) \ {{}}, Begin(t, P)
      PROVE  AckInv(u, v)'
  BY <1>1, SMT DEF Begin
<1>2. ASSUME NEW t \in Call, Decide(t) PROVE AckInv(u, v)'
  BY <1>2, SMT DEF Decide
<1>3. ASSUME NEW t \in Call, Return(t) PROVE AckInv(u, v)'
  BY <1>3, SMT DEF Return
<1>4. ASSUME NEW t \in Call, NEW w \in Worker, Connect(t, w)
      PROVE  AckInv(u, v)'
  BY <1>4, SMT DEF Connect
<1>5. ASSUME NEW t \in Call, NEW w \in Worker, DialFails(t, w)
      PROVE  AckInv(u, v)'
  BY <1>5, SMT DEF DialFails
<1>6. ASSUME NEW t \in Call, NEW w \in Worker, RecvAck(t, w)
      PROVE  AckInv(u, v)'
  BY <1>6, SMT DEF RecvAck
<1>7. ASSUME NEW t \in Call, NEW w \in Worker, RecvOther(t, w)
      PROVE  AckInv(u, v)'
  BY <1>7, SMT DEF RecvOther
<1>8. ASSUME NEW t \in Call, NEW w \in Worker, ConnectionLost(t, w)
      PROVE  AckInv(u, v)'
  BY <1>8, SMT DEF ConnectionLost
<1>9. ASSUME NEW t \in Call, NEW w \in Worker, FinConnect(t, w)
      PROVE  AckInv(u, v)'
  BY <1>9, SMT DEF FinConnect
<1>10. ASSUME NEW t \in Call, NEW w \in Worker, FinDialFails(t, w)
      PROVE  AckInv(u, v)'
  BY <1>10, SMT DEF FinDialFails
<1>11. ASSUME NEW t \in Call, NEW w \in Worker, FinAnswer(t, w)
      PROVE  AckInv(u, v)'
  BY <1>11, SMT DEF FinAnswer
<1>12. ASSUME NEW t \in Call, NEW w \in Worker, Store(t, w)
      PROVE  AckInv(u, v)'
  BY <1>12, SMT DEF Store
<1>13. ASSUME NEW t \in Call, NEW w \in Worker, SendQuery(t, w)
      PROVE  AckInv(u, v)'
  BY <1>13, SMT DEF SendQuery
<1>14. ASSUME NEW t \in Call, NEW w \in Worker, Answer(t, w)
      PROVE  AckInv(u, v)'
  BY <1>14, SMT DEF Answer
<1>15. ASSUME NEW t \in Call, NEW w \in Worker, AnswerError(t, w)
      PROVE  AckInv(u, v)'
  BY <1>15, SMT DEF AnswerError
<1>16. ASSUME NEW t \in Call, NEW w \in Worker, RunQuery(t, w)
      PROVE  AckInv(u, v)'
  BY <1>16, SMT DEF RunQuery
<1>17. ASSUME NEW t \in Call, NEW w \in Worker, RefuseQuery(t, w)
      PROVE  AckInv(u, v)'
  BY <1>17, SMT DEF RefuseQuery
<1>18. ASSUME NEW w \in Worker, Crash(w) PROVE AckInv(u, v)'
  BY <1>18, SMT DEF Crash
<1>19. ASSUME NEW w \in Worker, Restart(w) PROVE AckInv(u, v)'
  BY <1>19, SMT DEF Restart
<1>20. CASE UNCHANGED vars
  BY <1>20, SMT DEF vars
<1> QED
  BY <1>1, <1>2, <1>3, <1>4, <1>5, <1>6, <1>7, <1>8, <1>9, <1>10, <1>11, <1>12, <1>13, <1>14, <1>15, <1>16, <1>17, <1>18, <1>19, <1>20
  DEF Next, Caller, Prepare, Finish, Serve, Neo4j

\* Memory only shrinks in a crash.
LEMMA MemStep ==
  ASSUME TypeOK, TypeOK', [Next]_vars, NEW u \in Call, NEW v \in Worker,
         LegInv(u, v), QueryInv(u, v), MemInv(u, v)
  PROVE  MemInv(u, v)'
<1> USE DEF TypeOK, MemInv, caller, legs, database, process, LegInv, QueryInv
<1>1. ASSUME NEW t \in Call, NEW P \in (SUBSET Worker) \ {{}}, Begin(t, P)
      PROVE  MemInv(u, v)'
  BY <1>1, SMT DEF Begin
<1>2. ASSUME NEW t \in Call, Decide(t) PROVE MemInv(u, v)'
  BY <1>2, SMT DEF Decide
<1>3. ASSUME NEW t \in Call, Return(t) PROVE MemInv(u, v)'
  BY <1>3, SMT DEF Return
<1>4. ASSUME NEW t \in Call, NEW w \in Worker, Connect(t, w)
      PROVE  MemInv(u, v)'
  BY <1>4, SMT DEF Connect
<1>5. ASSUME NEW t \in Call, NEW w \in Worker, DialFails(t, w)
      PROVE  MemInv(u, v)'
  BY <1>5, SMT DEF DialFails
<1>6. ASSUME NEW t \in Call, NEW w \in Worker, RecvAck(t, w)
      PROVE  MemInv(u, v)'
  BY <1>6, SMT DEF RecvAck
<1>7. ASSUME NEW t \in Call, NEW w \in Worker, RecvOther(t, w)
      PROVE  MemInv(u, v)'
  BY <1>7, SMT DEF RecvOther
<1>8. ASSUME NEW t \in Call, NEW w \in Worker, ConnectionLost(t, w)
      PROVE  MemInv(u, v)'
  <2>1. handler'[u][v] = "stored" => handler[u][v] = "stored"
    <3>1. CASE UNCHANGED handler
      BY <3>1
    <3>2. CASE handler' = [handler EXCEPT ![t][w] = "dead"]
      BY <3>2, SMT
    <3> QED
      BY <1>8, <3>1, <3>2 DEF ConnectionLost
  <2>2. crashes' = crashes /\ query' = query /\ mem' = mem
    BY <1>8 DEF ConnectionLost
  <2> QED
    BY <2>1, <2>2
<1>9. ASSUME NEW t \in Call, NEW w \in Worker, FinConnect(t, w)
      PROVE  MemInv(u, v)'
  BY <1>9, SMT DEF FinConnect
<1>10. ASSUME NEW t \in Call, NEW w \in Worker, FinDialFails(t, w)
      PROVE  MemInv(u, v)'
  BY <1>10, SMT DEF FinDialFails
<1>11. ASSUME NEW t \in Call, NEW w \in Worker, FinAnswer(t, w)
      PROVE  MemInv(u, v)'
  BY <1>11, SMT DEF FinAnswer
<1>12. ASSUME NEW t \in Call, NEW w \in Worker, Store(t, w)
      PROVE  MemInv(u, v)'
  BY <1>12, SMT DEF Store
<1>13. ASSUME NEW t \in Call, NEW w \in Worker, SendQuery(t, w)
      PROVE  MemInv(u, v)'
  BY <1>13, SMT DEF SendQuery
<1>14. ASSUME NEW t \in Call, NEW w \in Worker, Answer(t, w)
      PROVE  MemInv(u, v)'
  BY <1>14, SMT DEF Answer
<1>15. ASSUME NEW t \in Call, NEW w \in Worker, AnswerError(t, w)
      PROVE  MemInv(u, v)'
  BY <1>15, SMT DEF AnswerError
<1>16. ASSUME NEW t \in Call, NEW w \in Worker, RunQuery(t, w)
      PROVE  MemInv(u, v)'
  BY <1>16, SMT DEF RunQuery
<1>17. ASSUME NEW t \in Call, NEW w \in Worker, RefuseQuery(t, w)
      PROVE  MemInv(u, v)'
  BY <1>17, SMT DEF RefuseQuery
<1>18. ASSUME NEW w \in Worker, Crash(w) PROVE MemInv(u, v)'
  BY <1>18, SMT DEF Crash
<1>19. ASSUME NEW w \in Worker, Restart(w) PROVE MemInv(u, v)'
  BY <1>19, SMT DEF Restart
<1>20. CASE UNCHANGED vars
  BY <1>20, SMT DEF vars
<1> QED
  BY <1>1, <1>2, <1>3, <1>4, <1>5, <1>6, <1>7, <1>8, <1>9, <1>10, <1>11, <1>12, <1>13, <1>14, <1>15, <1>16, <1>17, <1>18, <1>19, <1>20
  DEF Next, Caller, Prepare, Finish, Serve, Neo4j

----------------------------------------------------------------------------
(* The invariant and what follows from it.                                 *)

LEMMA InitInv == Init => IInv
<1> SUFFICES ASSUME Init PROVE IInv
  OBVIOUS
<1>1. TypeOK
  BY InitType
<1>2. ASSUME NEW t \in Call, NEW w \in Worker
      PROVE  LegInv(t, w) /\ QueryInv(t, w) /\ AckInv(t, w) /\ MemInv(t, w)
  BY SMT DEF Init, LegInv, QueryInv, AckInv, MemInv
<1> QED
  BY <1>1, <1>2 DEF IInv

LEMMA InvStep == IInv /\ [Next]_vars => IInv'
<1> SUFFICES ASSUME IInv, [Next]_vars PROVE IInv'
  OBVIOUS
<1>1. TypeOK /\ TypeOK'
  BY TypeStep DEF IInv
<1>2. ASSUME NEW t \in Call, NEW w \in Worker
      PROVE  /\ LegInv(t, w)' /\ QueryInv(t, w)'
             /\ AckInv(t, w)' /\ MemInv(t, w)'
  <2>1. LegInv(t, w) /\ QueryInv(t, w) /\ AckInv(t, w) /\ MemInv(t, w)
    BY DEF IInv
  <2>2. LegInv(t, w)'
    BY <1>1, <2>1, LegStep
  <2>3. QueryInv(t, w)'
    BY <1>1, <2>1, QueryStep
  <2>4. AckInv(t, w)'
    BY <1>1, <2>1, AckStep
  <2>5. MemInv(t, w)'
    BY <1>1, <2>1, MemStep
  <2> QED
    BY <2>2, <2>3, <2>4, <2>5
<1> QED
  BY <1>1, <1>2 DEF IInv

THEOREM Invariance == Spec => []IInv
<1>1. Init => IInv
  BY InitInv
<1>2. IInv /\ [Next]_vars => IInv'
  BY InvStep
<1> QED
  BY <1>1, <1>2, PTL DEF Spec

\* A successful Run2PC has been executed exactly once by the Neo4j of every
\* address (the loop over results in Run2PC, the order of steps in
\* handleConn).
THEOREM Unanimity == Spec => []SuccessIsUnanimous
<1>1. IInv => SuccessIsUnanimous
  BY DEF IInv, TypeOK, AckInv, QueryInv, SuccessIsUnanimous
<1> QED
  BY <1>1, Invariance, PTL

\* No Neo4j executes a message twice or without being addressed, whatever
\* crashes, restarts or connections that break.
THEOREM OneExecution == Spec => []AtMostOnce
<1>1. IInv => AtMostOnce
  <2> SUFFICES ASSUME IInv, NEW t \in Call, NEW w \in Worker
               PROVE  runs[t][w] <= 1 /\ (runs[t][w] = 1 => w \in parts[t])
    BY DEF AtMostOnce
  <2>1. QueryInv(t, w) /\ LegInv(t, w)
    BY DEF IInv
  <2> QED
    BY <2>1, SMT DEF QueryInv, LegInv
<1> QED
  BY <1>1, Invariance, PTL

\* What a worker that never crashed has in Neo4j it also has in memory
\* (the critical section of handleConn precedes runCypher).
THEOREM MemoryAhead == Spec => []MemoryCoversDatabase
<1>1. IInv => MemoryCoversDatabase
  <2> SUFFICES ASSUME IInv, NEW w \in Worker, crashes[w] = 0,
                      NEW t \in Call, runs[t][w] > 0
               PROVE  t \in mem[w]
    BY DEF MemoryCoversDatabase
  <2>1. QueryInv(t, w) /\ MemInv(t, w)
    BY DEF IInv
  <2> QED
    BY <2>1, SMT DEF QueryInv, MemInv
<1> QED
  BY <1>1, Invariance, PTL

----------------------------------------------------------------------------
(* Steps.                                                                  *)

\* When a call has succeeded, each of its addresses has executed it.
LEMMA OkMeansDone ==
  ASSUME IInv, NEW t \in Call, call[t] = "ok", NEW w \in parts[t]
  PROVE  handler[t][w] = "ack" /\ query[t][w] = "done"
<1>1. w \in Worker
  BY DEF IInv, TypeOK
<1> QED
  BY <1>1 DEF IInv, AckInv, QueryInv

\* The only step that executes a query executes one that was sent, of a call
\* that has begun and not succeeded, at one of its addresses.
LEMMA SentQuery ==
  ASSUME IInv, NEW t \in Call, NEW w \in Worker, query[t][w] = "sent"
  PROVE  /\ w \in parts[t]
         /\ call[t] \notin {"idle", "ok"}
         /\ runs[t][w] = 0
<1>1. LegInv(t, w) /\ QueryInv(t, w)
  BY DEF IInv
<1>2. handler[t][w] # "none"
  BY <1>1 DEF QueryInv
<1>3. prepLeg[t][w] # "none"
  BY <1>1, <1>2 DEF LegInv
<1>4. w \in parts[t] /\ call[t] # "idle"
  BY <1>1, <1>3 DEF LegInv
<1>5. call[t] # "ok"
  BY <1>4, OkMeansDone
<1> QED
  BY <1>1, <1>4, <1>5 DEF QueryInv

\* The outcome of a call follows its state.
LEMMA OutcomeFollows ==
  ASSUME TypeOK, NEW t \in Call, NEW s,
         call' = [call EXCEPT ![t] = s]
  PROVE  Outcome' = [Outcome EXCEPT ![t] = OutcomeOf(s)]
<1>1. \A u \in Call : Outcome'[u] = IF u = t THEN OutcomeOf(s) ELSE Outcome[u]
  BY DEF TypeOK, Outcome
<1> QED
  BY <1>1 DEF Outcome

\* What a step can do to the outcome of a call, its addresses and its
\* executions: nothing, or one of the four steps of Broadcast.
LEMMA StepSimulation ==
  ASSUME IInv, [Next]_vars
  PROVE  [Abstract!Next]_(Abstract!vars)
<1> USE DEF IInv, TypeOK, caller, legs, database, process
<1> DEFINE Stutter == UNCHANGED Abstract!vars
<1>1. ASSUME UNCHANGED <<call, parts, runs>> PROVE Stutter
  BY <1>1 DEF Abstract!vars, Outcome
<1>2. ASSUME NEW t \in Call, NEW P \in (SUBSET Worker) \ {{}}, Begin(t, P)
      PROVE  Abstract!Start(t, P)
  <2>1. Outcome' = [Outcome EXCEPT ![t] = "open"]
    <3>1. Outcome' = [Outcome EXCEPT ![t] = OutcomeOf("prepare")]
      BY <1>2, OutcomeFollows DEF Begin
    <3> QED
      BY <3>1 DEF OutcomeOf
  <2>2. Outcome[t] = "idle"
    BY <1>2 DEF Begin, Outcome, OutcomeOf
  <2> QED
    BY <1>2, <2>1, <2>2 DEF Begin, Abstract!Start
<1>3. ASSUME NEW t \in Call, Decide(t) PROVE Stutter
  <2> DEFINE verdict == IF \A w \in parts[t] : prepLeg[t][w] = "ACK"
                        THEN "COMMIT" ELSE "ROLLBACK"
  <2>1. Outcome' = Outcome
    <3>1. Outcome' = [Outcome EXCEPT ![t] = OutcomeOf(verdict)]
      BY <1>3, OutcomeFollows DEF Decide
    <3>2. Outcome[t] = "open" /\ OutcomeOf(verdict) = "open"
      BY <1>3 DEF Decide, Outcome, OutcomeOf
    <3> QED
      BY <3>1, <3>2 DEF Outcome
  <2> QED
    BY <1>3, <2>1 DEF Decide, Abstract!vars
<1>4. ASSUME NEW t \in Call, Return(t)
      PROVE  Abstract!Succeed(t) \/ Abstract!Fail(t)
  <2>1. Outcome[t] = "open" /\ UNCHANGED <<parts, runs>>
    BY <1>4 DEF Return, Outcome, OutcomeOf
  <2>2. CASE call[t] = "COMMIT"
    <3>1. Outcome' = [Outcome EXCEPT ![t] = "ok"]
      BY <1>4, <2>2, OutcomeFollows DEF Return, OutcomeOf
    <3>2. \A w \in parts[t] : runs[t][w] = 1
      BY <2>2 DEF AckInv, QueryInv
    <3> QED
      BY <2>1, <3>1, <3>2 DEF Abstract!Succeed
  <2>3. CASE call[t] = "ROLLBACK"
    <3>1. Outcome' = [Outcome EXCEPT ![t] = "failed"]
      BY <1>4, <2>3, OutcomeFollows DEF Return, OutcomeOf
    <3> QED
      BY <2>1, <3>1 DEF Abstract!Fail
  <2> QED
    BY <1>4, <2>2, <2>3 DEF Return
<1>5. ASSUME NEW t \in Call, NEW w \in Worker, RunQuery(t, w)
      PROVE  Abstract!Deliver(t, w)
  <2>1. query[t][w] = "sent"
    BY <1>5 DEF RunQuery
  <2>2. w \in parts[t] /\ call[t] \notin {"idle", "ok"} /\ runs[t][w] = 0
    BY <2>1, SentQuery
  <2>3. Outcome[t] \in {"open", "failed"}
    BY <2>2 DEF Outcome, OutcomeOf
  <2>4. runs' = [runs EXCEPT ![t][w] = 1]
    BY <1>5, <2>2 DEF RunQuery
  <2>5. UNCHANGED <<Outcome, parts>>
    BY <1>5 DEF RunQuery, Outcome
  <2> QED
    BY <2>2, <2>3, <2>4, <2>5 DEF Abstract!Deliver
<1>6. ASSUME NEW t \in Call, NEW w \in Worker,
             Prepare(t, w) \/ ConnectionLost(t, w) \/ Finish(t, w)
      PROVE  UNCHANGED <<call, parts, runs>>
  BY <1>6 DEF Prepare, Connect, DialFails, RecvAck, RecvOther, Finish,
              ConnectionLost, FinConnect, FinDialFails, FinAnswer
<1>7. ASSUME NEW t \in Call, NEW w \in Worker, Serve(t, w) \/ RefuseQuery(t, w)
      PROVE  UNCHANGED <<call, parts, runs>>
  BY <1>7 DEF Serve, Store, SendQuery, Answer, AnswerError, RefuseQuery
<1>8. ASSUME NEW w \in Worker, Crash(w) \/ Restart(w)
      PROVE  UNCHANGED <<call, parts, runs>>
  BY <1>8 DEF Crash, Restart
<1>9. ASSUME UNCHANGED vars PROVE UNCHANGED <<call, parts, runs>>
  BY <1>9 DEF vars
<1> QED
  BY <1>1, <1>2, <1>3, <1>4, <1>5, <1>6, <1>7, <1>8, <1>9
  DEF Next, Caller, Neo4j, Abstract!Next

\* Run2PC is the broadcast of module Broadcast, and no more: at most one
\* execution per address, all of them before success, no promise on failure.
THEOREM Implementation == Spec => ImplementsBroadcast
<1>1. Init => Abstract!Init
  BY DEF Init, Abstract!Init, Outcome, OutcomeOf
<1>2. IInv /\ [Next]_vars => [Abstract!Next]_(Abstract!vars)
  BY StepSimulation
<1> QED
  BY <1>1, <1>2, Invariance, PTL DEF Spec, Abstract!Spec, ImplementsBroadcast

\* A call that has succeeded stays so, and its addresses stay the same.
LEMMA OkIsStable ==
  ASSUME IInv, [Next]_vars, NEW t \in Call, call[t] = "ok"
  PROVE  call'[t] = "ok" /\ parts'[t] = parts[t]
<1> USE DEF IInv, TypeOK, caller, legs, database, process
<1>1. ASSUME NEW u \in Call, NEW P \in (SUBSET Worker) \ {{}}, Begin(u, P)
      PROVE  call'[t] = "ok" /\ parts'[t] = parts[t]
  BY <1>1 DEF Begin
<1>2. ASSUME NEW u \in Call, Decide(u) \/ Return(u)
      PROVE  call'[t] = "ok" /\ parts'[t] = parts[t]
  BY <1>2 DEF Decide, Return
<1>3. ASSUME NEW u \in Call, NEW w \in Worker,
             Prepare(u, w) \/ ConnectionLost(u, w) \/ Finish(u, w)
      PROVE  UNCHANGED caller
  BY <1>3 DEF Prepare, Connect, DialFails, RecvAck, RecvOther, Finish,
              ConnectionLost, FinConnect, FinDialFails, FinAnswer
<1>4. ASSUME NEW u \in Call, NEW w \in Worker, Serve(u, w) \/ Neo4j(u, w)
      PROVE  UNCHANGED caller
  BY <1>4 DEF Serve, Store, SendQuery, Answer, AnswerError, Neo4j,
              RunQuery, RefuseQuery
<1>5. ASSUME NEW w \in Worker, Crash(w) \/ Restart(w) PROVE UNCHANGED caller
  BY <1>5 DEF Crash, Restart
<1>6. CASE UNCHANGED vars
  BY <1>6 DEF vars
<1> QED
  BY <1>1, <1>2, <1>3, <1>4, <1>5, <1>6 DEF Next, Caller

\* Nothing of a call that has succeeded happens any more.
THEOREM Finality == Spec => NothingAfterSuccess
<1>1. ASSUME IInv, IInv', [Next]_vars
      PROVE  [\A t \in Call : call[t] = "ok" =>
                /\ runs'[t] = runs[t]
                /\ \A w \in parts[t] : handler'[t][w] = "ack"]_vars
  <2> SUFFICES ASSUME NEW t \in Call, call[t] = "ok"
               PROVE  /\ runs'[t] = runs[t]
                      /\ \A w \in parts[t] : handler'[t][w] = "ack"
    OBVIOUS
  <2>1. call'[t] = "ok" /\ parts'[t] = parts[t]
    BY <1>1, OkIsStable
  <2>2. \A w \in parts[t] : handler'[t][w] = "ack"
    BY <1>1, <2>1 DEF IInv, TypeOK, AckInv, QueryInv
  <2>3. \A w \in Worker : runs[t][w] = 1 /\ w \in parts[t] => runs'[t][w] = 1
    BY <1>1, <2>1 DEF IInv, TypeOK, AckInv, QueryInv
  <2>4. \A w \in Worker : w \notin parts[t] => runs[t][w] = 0 /\ runs'[t][w] = 0
    BY <1>1, <2>1, SMT DEF IInv, TypeOK, LegInv, QueryInv
  <2>5. \A w \in parts[t] : runs[t][w] = 1
    BY <1>1 DEF IInv, TypeOK, AckInv, QueryInv
  <2>6. runs[t] \in [Worker -> Nat] /\ runs'[t] \in [Worker -> Nat]
    BY <1>1 DEF IInv, TypeOK
  <2>7. \A w \in Worker : runs'[t][w] = runs[t][w]
    BY <2>3, <2>4, <2>5
  <2> QED
    BY <2>2, <2>6, <2>7
<1> QED
  BY <1>1, Invariance, PTL DEF Spec, NothingAfterSuccess
=============================================================================
