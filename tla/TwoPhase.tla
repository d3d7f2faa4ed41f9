------------------------------ MODULE TwoPhase ------------------------------
(***************************************************************************)
(* Coordinator.Run2PC (internal/master/master.go) and the mutating message *)
(* handlers of handleConn (internal/worker/worker.go).                     *)
(*                                                                         *)
(* A call starts one goroutine per address; each dials the worker, sends   *)
(* the message and waits for one reply.  When all have returned, the call  *)
(* sends COMMIT or ROLLBACK to every address in the same way, waits again  *)
(* and returns.  On a worker every connection is served by a goroutine of  *)
(* its own: it first changes the partition kept in memory, then runs the   *)
(* message's query on the worker's Neo4j, then replies.  Neo4j is a        *)
(* separate durable server: a query it was sent runs whether or not the    *)
(* worker is still there to see the answer.                                *)
(*                                                                         *)
(* Connections and goroutines run concurrently; a worker may crash and be  *)
(* started again (at most MaxCrashes times each), a dial may time out, a   *)
(* connection may break while its handler goes on, Neo4j may refuse.       *)
(***************************************************************************)
EXTENDS Naturals

CONSTANTS Call,       \* the calls of Run2PC that are ever made
          Worker,     \* the addresses in MasterMetaData.WorkerAddrs
          MaxCrashes  \* bound: crashes of one worker in a behaviour

ASSUME MaxCrashesAssumption == MaxCrashes \in Nat

VARIABLES
  call,     \* call[t]: what the caller's goroutine is doing
  parts,    \* parts[t]: the argument addresses
  prepLeg,  \* prepLeg[t][w]: the goroutine of t that sends the message to w
  finLeg,   \* finLeg[t][w]: the goroutine that sends COMMIT or ROLLBACK
  handler,  \* handler[t][w]: the goroutine of w that serves t's message
  query,    \* query[t][w]: the query of t's message as w's Neo4j sees it
  runs,     \* runs[t][w]: how often that query has been executed
  mem,      \* mem[w]: the calls whose change is in w's memory
  up,       \* up[w]: whether the process of w runs
  crashes   \* crashes[w]: how often it has crashed

caller == <<call, parts>>
legs == <<prepLeg, finLeg>>
database == <<query, runs>>
process == <<mem, up, crashes>>
vars == <<caller, legs, handler, database, process>>

CallState == {"idle", "prepare", "COMMIT", "ROLLBACK", "ok", "failed"}
PrepState == {"none", "dial", "await", "ACK", "NO"}
FinState == {"none", "dial", "await", "over"}
HandlerState == {"none", "recv", "stored", "running", "ack", "err", "dead"}
QueryState == {"none", "sent", "done", "refused"}

TypeOK ==
  /\ call \in [Call -> CallState]
  /\ parts \in [Call -> SUBSET Worker]
  /\ prepLeg \in [Call -> [Worker -> PrepState]]
  /\ finLeg \in [Call -> [Worker -> FinState]]
  /\ handler \in [Call -> [Worker -> HandlerState]]
  /\ query \in [Call -> [Worker -> QueryState]]
  /\ runs \in [Call -> [Worker -> Nat]]
  /\ mem \in [Worker -> SUBSET Call]
  /\ up \in [Worker -> BOOLEAN]
  /\ crashes \in [Worker -> Nat]

Init ==
  /\ call = [t \in Call |-> "idle"]
  /\ parts = [t \in Call |-> {}]
  /\ prepLeg = [t \in Call |-> [w \in Worker |-> "none"]]
  /\ finLeg = [t \in Call |-> [w \in Worker |-> "none"]]
  /\ handler = [t \in Call |-> [w \in Worker |-> "none"]]
  /\ query = [t \in Call |-> [w \in Worker |-> "none"]]
  /\ runs = [t \in Call |-> [w \in Worker |-> 0]]
  /\ mem = [w \in Worker |-> {}]
  /\ up = [w \in Worker |-> TRUE]
  /\ crashes = [w \in Worker |-> 0]

----------------------------------------------------------------------------
(* The caller: Run2PC itself.                                              *)

\* Run2PC(ctx, prepareMsg, addresses): one goroutine per address.
Begin(t, P) ==
  /\ call[t] = "idle"
  /\ call' = [call EXCEPT ![t] = "prepare"]
  /\ parts' = [parts EXCEPT ![t] = P]
  /\ prepLeg' = [prepLeg EXCEPT ![t] =
                   [w \in Worker |-> IF w \in P THEN "dial" ELSE "none"]]
  /\ UNCHANGED <<finLeg, handler, database, process>>

\* Mutant of Decide: one Ack is taken for all.
DecideOnAnyAck(t) ==
  /\ call[t] = "prepare"
  /\ \A w \in parts[t] : prepLeg[t][w] \in {"ACK", "NO"}
  /\ call' = [call EXCEPT ![t] =
                IF \E w \in parts[t] : prepLeg[t][w] = "ACK"
                THEN "COMMIT" ELSE "ROLLBACK"]
  /\ finLeg' = [finLeg EXCEPT ![t] =
                  [w \in Worker |-> IF w \in parts[t] THEN "dial" ELSE "none"]]
  /\ UNCHANGED <<parts, prepLeg, handler, database, process>>

\* wg.Wait(), the verdict over results, and the goroutines of phase two.
Decide(t) ==
  /\ call[t] = "prepare"
  /\ \A w \in parts[t] : prepLeg[t][w] \in {"ACK", "NO"}
  /\ call' = [call EXCEPT ![t] =
                IF \A w \in parts[t] : prepLeg[t][w] = "ACK"
                THEN "COMMIT" ELSE "ROLLBACK"]
  /\ finLeg' = [finLeg EXCEPT ![t] =
                  [w \in Worker |-> IF w \in parts[t] THEN "dial" ELSE "none"]]
  /\ UNCHANGED <<parts, prepLeg, handler, database, process>>

\* Mutant of Return: the error of a failed phase one is forgotten.
ReturnNil(t) ==
  /\ call[t] \in {"COMMIT", "ROLLBACK"}
  /\ \A w \in parts[t] : finLeg[t][w] = "over"
  /\ call' = [call EXCEPT ![t] = "ok"]
  /\ UNCHANGED <<parts, legs, handler, database, process>>

\* The second wg.Wait(); the answers of phase two are not looked at.
Return(t) ==
  /\ call[t] \in {"COMMIT", "ROLLBACK"}
  /\ \A w \in parts[t] : finLeg[t][w] = "over"
  /\ call' = [call EXCEPT ![t] = IF @ = "COMMIT" THEN "ok" ELSE "failed"]
  /\ UNCHANGED <<parts, legs, handler, database, process>>

----------------------------------------------------------------------------
(* The goroutines of phase one, each a call of sendToWorker.               *)

\* net.DialTimeout succeeds and the message reaches a handler.
Connect(t, w) ==
  /\ prepLeg[t][w] = "dial"
  /\ up[w]
  /\ prepLeg' = [prepLeg EXCEPT ![t][w] = "await"]
  /\ handler' = [handler EXCEPT ![t][w] = "recv"]
  /\ UNCHANGED <<caller, finLeg, database, process>>

\* net.DialTimeout fails: the worker is down, or not reached within 3 s.
DialFails(t, w) ==
  /\ prepLeg[t][w] = "dial"
  /\ prepLeg' = [prepLeg EXCEPT ![t][w] = "NO"]
  /\ UNCHANGED <<caller, finLeg, handler, database, process>>

\* reply.Type is Ack.
RecvAck(t, w) ==
  /\ prepLeg[t][w] = "await"
  /\ handler[t][w] = "ack"
  /\ prepLeg' = [prepLeg EXCEPT ![t][w] = "ACK"]
  /\ UNCHANGED <<caller, finLeg, handler, database, process>>

\* Mutant of RecvOther: the message is sent again after an error.
RetryAfterError(t, w) ==
  /\ prepLeg[t][w] = "await"
  /\ handler[t][w] \in {"err", "dead"}
  /\ prepLeg' = [prepLeg EXCEPT ![t][w] = "dial"]
  /\ UNCHANGED <<caller, finLeg, handler, database, process>>

\* Mutant of RecvOther: results gets the reply's own type instead of MsgNo.
RecordReplyType(t, w) ==
  /\ prepLeg[t][w] = "await"
  /\ handler[t][w] \in {"err", "dead"}
  /\ prepLeg' = [prepLeg EXCEPT ![t][w] = handler[t][w]]
  /\ UNCHANGED <<caller, finLeg, handler, database, process>>

\* Mutant of RecvOther: the end of a connection is not noticed.
RecvErrorOnly(t, w) ==
  /\ prepLeg[t][w] = "await"
  /\ handler[t][w] = "err"
  /\ prepLeg' = [prepLeg EXCEPT ![t][w] = "NO"]
  /\ UNCHANGED <<caller, finLeg, handler, database, process>>

\* An Error reply, or the end of the connection of a handler that died.
RecvOther(t, w) ==
  /\ prepLeg[t][w] = "await"
  /\ handler[t][w] \in {"err", "dead"}
  /\ prepLeg' = [prepLeg EXCEPT ![t][w] = "NO"]
  /\ UNCHANGED <<caller, finLeg, handler, database, process>>

\* The connection breaks: before the message was read (the handler's Decode
\* fails and it returns), or later, when the handler goes on unseen.
ConnectionLost(t, w) ==
  /\ prepLeg[t][w] = "await"
  /\ prepLeg' = [prepLeg EXCEPT ![t][w] = "NO"]
  /\ \/ UNCHANGED handler
     \/ /\ handler[t][w] = "recv"
        /\ handler' = [handler EXCEPT ![t][w] = "dead"]
  /\ UNCHANGED <<caller, finLeg, database, process>>

----------------------------------------------------------------------------
(* The goroutines of phase two.  The handler's switch has no case for      *)
(* COMMIT and ROLLBACK: whatever was sent, the worker changes nothing and  *)
(* answers with an Error.                                                  *)

FinConnect(t, w) ==
  /\ finLeg[t][w] = "dial"
  /\ up[w]
  /\ finLeg' = [finLeg EXCEPT ![t][w] = "await"]
  /\ UNCHANGED <<caller, prepLeg, handler, database, process>>

FinDialFails(t, w) ==
  /\ finLeg[t][w] = "dial"
  /\ finLeg' = [finLeg EXCEPT ![t][w] = "over"]
  /\ UNCHANGED <<caller, prepLeg, handler, database, process>>

\* "Unknown message type", or the connection ends without an answer.
FinAnswer(t, w) ==
  /\ finLeg[t][w] = "await"
  /\ finLeg' = [finLeg EXCEPT ![t][w] = "over"]
  /\ UNCHANGED <<caller, prepLeg, handler, database, process>>

----------------------------------------------------------------------------
(* The worker's handler of the message of phase one.                       *)

\* The critical section under partition.mu.
Store(t, w) ==
  /\ handler[t][w] = "recv"
  /\ handler' = [handler EXCEPT ![t][w] = "stored"]
  /\ mem' = [mem EXCEPT ![w] = @ \cup {t}]
  /\ UNCHANGED <<caller, legs, database, up, crashes>>

\* Mutant of SendQuery: the query does not wait for the critical section.
SendAtOnce(t, w) ==
  /\ handler[t][w] \in {"recv", "stored"}
  /\ handler' = [handler EXCEPT ![t][w] = "running"]
  /\ query' = [query EXCEPT ![t][w] = "sent"]
  /\ UNCHANGED <<caller, legs, runs, process>>

\* session.Run sends the query, outside the critical section.
SendQuery(t, w) ==
  /\ handler[t][w] = "stored"
  /\ handler' = [handler EXCEPT ![t][w] = "running"]
  /\ query' = [query EXCEPT ![t][w] = "sent"]
  /\ UNCHANGED <<caller, legs, runs, process>>

\* runCypher has its result and the handler encodes an Ack.
Answer(t, w) ==
  /\ handler[t][w] = "running"
  /\ query[t][w] = "done"
  /\ handler' = [handler EXCEPT ![t][w] = "ack"]
  /\ UNCHANGED <<caller, legs, database, process>>

\* Mutant of AnswerError: the change in memory is undone.
UndoAndAnswerError(t, w) ==
  /\ handler[t][w] \in {"stored", "running"}
  /\ handler' = [handler EXCEPT ![t][w] = "err"]
  /\ mem' = [mem EXCEPT ![w] = @ \ {t}]
  /\ UNCHANGED <<caller, legs, database, up, crashes>>

\* Mutant of AnswerError: the return after the Error reply is missing.
AckAfterError(t, w) ==
  /\ handler[t][w] \in {"stored", "running"}
  /\ handler' = [handler EXCEPT ![t][w] = "ack"]
  /\ UNCHANGED <<caller, legs, database, process>>

\* runCypher returns an error, because Neo4j could not be reached, refused
\* the query, or was lost while it ran: the handler encodes an Error.
\* What it stored in memory stays.
AnswerError(t, w) ==
  /\ handler[t][w] \in {"stored", "running"}
  /\ handler' = [handler EXCEPT ![t][w] = "err"]
  /\ UNCHANGED <<caller, legs, database, process>>

----------------------------------------------------------------------------
(* Neo4j, external: it executes a query it has been sent, or refuses it.   *)

RunQuery(t, w) ==
  /\ query[t][w] = "sent"
  /\ query' = [query EXCEPT ![t][w] = "done"]
  /\ runs' = [runs EXCEPT ![t][w] = @ + 1]
  /\ UNCHANGED <<caller, legs, handler, process>>

RefuseQuery(t, w) ==
  /\ query[t][w] = "sent"
  /\ query' = [query EXCEPT ![t][w] = "refused"]
  /\ UNCHANGED <<caller, legs, handler, runs, process>>

----------------------------------------------------------------------------
(* Worker processes.  The partition is only kept in memory.                *)

Crash(w) ==
  /\ up[w]
  /\ crashes[w] < MaxCrashes
  /\ up' = [up EXCEPT ![w] = FALSE]
  /\ crashes' = [crashes EXCEPT ![w] = @ + 1]
  /\ mem' = [mem EXCEPT ![w] = {}]
  /\ handler' = [t \in Call |->
                   [handler[t] EXCEPT ![w] =
                      IF @ \in {"recv", "stored", "running"} THEN "dead" ELSE @]]
  /\ UNCHANGED <<caller, legs, database>>

Restart(w) ==
  /\ ~up[w]
  /\ up' = [up EXCEPT ![w] = TRUE]
  /\ UNCHANGED <<caller, legs, handler, database, mem, crashes>>

----------------------------------------------------------------------------
Caller(t) == Decide(t) \/ Return(t)

Prepare(t, w) ==
  \/ Connect(t, w) \/ DialFails(t, w)
  \/ RecvAck(t, w) \/ RecvOther(t, w)

Finish(t, w) == FinConnect(t, w) \/ FinDialFails(t, w) \/ FinAnswer(t, w)

Serve(t, w) ==
  Store(t, w) \/ SendQuery(t, w) \/ Answer(t, w) \/ AnswerError(t, w)

Neo4j(t, w) == RunQuery(t, w) \/ RefuseQuery(t, w)

Next ==
  \/ \E t \in Call :
       \/ \E P \in (SUBSET Worker) \ {{}} : Begin(t, P)
       \/ Caller(t)
       \/ \E w \in Worker :
            \/ Prepare(t, w) \/ ConnectionLost(t, w) \/ Finish(t, w)
            \/ Serve(t, w) \/ Neo4j(t, w)
  \/ \E w \in Worker : Crash(w) \/ Restart(w)

\* A goroutine that can go on does; nobody is obliged to make a call, to
\* break a connection, to crash or to restart.  sendToWorker sets no read
\* deadline: a call returns only because a live handler answers in the end,
\* which it does because Neo4j answers, and the connection of a dead one
\* breaks.
Fairness ==
  /\ \A t \in Call : WF_vars(Caller(t))
  /\ \A t \in Call, w \in Worker :
       /\ WF_vars(Prepare(t, w))
       /\ WF_vars(Finish(t, w))
       /\ WF_vars(Serve(t, w))
       /\ WF_vars(Neo4j(t, w))

Spec == Init /\ [][Next]_vars

FairSpec == Spec /\ Fairness

----------------------------------------------------------------------------
(* Properties.                                                             *)

\* When Run2PC has decided COMMIT, and when it has returned nil, the message
\* has been executed exactly once by the Neo4j of every address: an Ack is
\* only sent after runCypher returned, and no Ack is counted that was not
\* sent (Run2PC's loop over results; handleConn's order of steps).
SuccessIsUnanimous ==
  \A t \in Call :
    call[t] \in {"COMMIT", "ok"} => \A w \in parts[t] : runs[t][w] = 1

\* A message is executed at most once by a Neo4j, and never by one whose
\* address is not an argument of the call, whatever is lost, repeated or
\* restarted (Run2PC does not retry; handleConn serves one message).
AtMostOnce ==
  \A t \in Call, w \in Worker :
    /\ runs[t][w] <= 1
    /\ runs[t][w] = 1 => w \in parts[t]

\* A worker that has never crashed knows in memory of everything its Neo4j
\* has executed: the handler updates the partition first, and an error of
\* runCypher undoes nothing.  The converse fails by design.
MemoryCoversDatabase ==
  \A w \in Worker :
    crashes[w] = 0 => \A t \in Call : runs[t][w] > 0 => t \in mem[w]

\* The outcome of a call is final as far as success goes: after Run2PC has
\* returned nil nothing of that call runs any more on any worker, so a later
\* request cannot be overtaken by it.
NothingAfterSuccess ==
  [][\A t \in Call : call[t] = "ok" =>
       /\ runs'[t] = runs[t]
       /\ \A w \in parts[t] : handler'[t][w] = "ack"]_vars

\* Every call returns, whatever crashes, provided Neo4j answers and dead
\* connections are noticed (both wg.Wait() of Run2PC).
CallReturns ==
  \A t \in Call : call[t] = "prepare" ~> call[t] \in {"ok", "failed"}

\* Run2PC is the broadcast that module Broadcast describes.
OutcomeOf(c) == IF c \in {"idle", "ok", "failed"} THEN c ELSE "open"

Outcome == [t \in Call |-> OutcomeOf(call[t])]

Abstract == INSTANCE Broadcast
              WITH phase <- Outcome, members <- parts, effect <- runs

ImplementsBroadcast == Abstract!Spec

\* A leg as module GraphStore has it.  That the answer will be an Ack, or
\* will not, is decided before the caller hears of it.
Awaited(t, w) ==
  IF handler[t][w] = "recv" THEN "sent"
  ELSE IF handler[t][w] \in {"err", "dead"} \/ query[t][w] = "refused" THEN "no"
  ELSE IF query[t][w] = "done" THEN "ack" ELSE "stored"

LegOf(t, w) ==
  CASE prepLeg[t][w] = "none" -> "none"
    [] prepLeg[t][w] = "dial" -> "sent"
    [] prepLeg[t][w] = "await" -> Awaited(t, w)
    [] prepLeg[t][w] = "ACK" -> "ack"
    [] prepLeg[t][w] = "NO" -> "no"

\* What a worker or its Neo4j may still do for a leg that was given up.
LateOf(t, w) ==
  IF LegOf(t, w) # "no" THEN "none"
  ELSE IF handler[t][w] = "recv" THEN "sent"
  ELSE IF handler[t][w] = "stored" \/ query[t][w] = "sent" THEN "stored"
  ELSE "none"

LegsNow == [t \in Call |-> [w \in Worker |-> LegOf(t, w)]]
LateNow == [t \in Call |-> [w \in Worker |-> LateOf(t, w)]]

\* Each leg takes the steps that module Legs, and with it GraphStore, allow:
\* memory changes only on delivery and in a crash, a query runs only after
\* its delivery, and what is given up may still be delivered and run.
AsLegs == INSTANCE Legs
            WITH phase <- Outcome, leg <- LegsNow, late <- LateNow, effect <- runs

ImplementsLegs == AsLegs!Spec

\* The error Run2PC returns says "prepare phase failed, rolled back": then
\* no worker should be left with the effect of the message.
RolledBackLeavesNothing ==
  \A t \in Call : call[t] = "failed" => \A w \in Worker : runs[t][w] = 0
=============================================================================
