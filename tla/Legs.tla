-------------------------------- MODULE Legs --------------------------------
(***************************************************************************)
(* What a caller of Coordinator.Run2PC (internal/master/master.go) and the *)
(* handlers of internal/worker/worker.go do to one another, leg by leg: a  *)
(* message is sent, stored in the worker's memory, run by its Neo4j and    *)
(* answered.  A leg that is given up is no longer the caller's, but its    *)
(* message may still be on its way.  Broadcast says what the caller may    *)
(* count on; this module also says when the worker's memory changes, and   *)
(* what a crash leaves.  It is the channel module GraphStore is built on.  *)
(***************************************************************************)
EXTENDS Naturals

CONSTANTS Call,    \* the calls of Run2PC that are ever made
          Worker   \* the addresses in MasterMetaData.WorkerAddrs

VARIABLES phase,   \* phase[t]: how far the caller of t has got
          leg,     \* leg[t][w]: t's message to w, as long as t waits for it
          late,    \* late[t][w]: the same message after t has given it up
          effect,  \* effect[t][w]: how often w's Neo4j has run it
          mem,     \* mem[w]: the calls whose change is in w's memory
          up       \* up[w]: whether the process of w runs

vars == <<phase, leg, late, effect, mem, up>>

Init ==
  /\ phase = [t \in Call |-> "idle"]
  /\ leg = [t \in Call |-> [w \in Worker |-> "none"]]
  /\ late = [t \in Call |-> [w \in Worker |-> "none"]]
  /\ effect = [t \in Call |-> [w \in Worker |-> 0]]
  /\ mem = [w \in Worker |-> {}]
  /\ up = [w \in Worker |-> TRUE]

\* The caller sends its message to the workers P.
Send(t, P) ==
  /\ phase[t] = "idle"
  /\ phase' = [phase EXCEPT ![t] = "open"]
  /\ leg' = [leg EXCEPT ![t] = [w \in Worker |-> IF w \in P THEN "sent" ELSE "none"]]
  /\ UNCHANGED <<late, effect, mem, up>>

\* The worker's handler changes the partition in memory.
Deliver(t, w) ==
  /\ leg[t][w] = "sent"
  /\ up[w]
  /\ leg' = [leg EXCEPT ![t][w] = "stored"]
  /\ mem' = [mem EXCEPT ![w] = @ \cup {t}]
  /\ UNCHANGED <<phase, late, effect, up>>

\* Neo4j runs the query, and the caller is going to hear of it.
RunQuery(t, w) ==
  /\ leg[t][w] = "stored"
  /\ leg' = [leg EXCEPT ![t][w] = "ack"]
  /\ effect' = [effect EXCEPT ![t][w] = @ + 1]
  /\ UNCHANGED <<phase, late, mem, up>>

\* The caller counts a NO; the message goes on by itself or comes to nothing.
Lose(t, w) ==
  /\ leg[t][w] \in {"sent", "stored"}
  /\ leg' = [leg EXCEPT ![t][w] = "no"]
  /\ \E rest \in {"none", leg[t][w]} : late' = [late EXCEPT ![t][w] = rest]
  /\ UNCHANGED <<phase, effect, mem, up>>

\* The query has been run, and the caller does not hear of it.
LoseAnswer(t, w) ==
  /\ phase[t] = "open"
  /\ leg[t][w] = "ack"
  /\ leg' = [leg EXCEPT ![t][w] = "no"]
  /\ UNCHANGED <<phase, late, effect, mem, up>>

LateDeliver(t, w) ==
  /\ late[t][w] = "sent"
  /\ up[w]
  /\ late' = [late EXCEPT ![t][w] = "stored"]
  /\ mem' = [mem EXCEPT ![w] = @ \cup {t}]
  /\ UNCHANGED <<phase, leg, effect, up>>

LateRun(t, w) ==
  /\ late[t][w] = "stored"
  /\ late' = [late EXCEPT ![t][w] = "none"]
  /\ effect' = [effect EXCEPT ![t][w] = @ + 1]
  /\ UNCHANGED <<phase, leg, mem, up>>

LateDrop(t, w) ==
  /\ late' = [late EXCEPT ![t][w] = "none"]
  /\ UNCHANGED <<phase, leg, effect, mem, up>>

\* What a crash of w makes of a leg: a message that is not yet dialled is
\* sent later, one a handler has is lost, and so may be an answer.
Cut(t, l) ==
  CASE l = "sent" -> {"sent", "no"}
    [] l = "stored" -> {"no"}
    [] l = "ack" /\ phase[t] = "open" -> {"ack", "no"}
    [] OTHER -> {l}

\* What is left of its message: a query that Neo4j has been sent.
Left(l, r) == IF "stored" \in {l, r} THEN {"none", "stored"} ELSE {"none"}

\* The worker's process ends, with its memory and its handlers.
Crash(w) ==
  /\ up[w]
  /\ up' = [up EXCEPT ![w] = FALSE]
  /\ mem' = [mem EXCEPT ![w] = {}]
  /\ \E l \in [Call -> {"none", "sent", "ack", "no"}], r \in [Call -> {"none", "stored"}] :
       /\ \A t \in Call : l[t] \in Cut(t, leg[t][w]) /\ r[t] \in Left(leg[t][w], late[t][w])
       /\ leg' = [t \in Call |-> [leg[t] EXCEPT ![w] = l[t]]]
       /\ late' = [t \in Call |-> [late[t] EXCEPT ![w] = r[t]]]
  /\ UNCHANGED <<phase, effect>>

Restart(w) ==
  /\ ~up[w]
  /\ up' = [up EXCEPT ![w] = TRUE]
  /\ UNCHANGED <<phase, leg, late, effect, mem>>

\* Every worker has answered with an Ack.
Succeed(t) ==
  /\ phase[t] = "open"
  /\ \A w \in Worker : leg[t][w] \in {"none", "ack"}
  /\ phase' = [phase EXCEPT ![t] = "ok"]
  /\ UNCHANGED <<leg, late, effect, mem, up>>

\* Every leg is over, and one at least was given up.
Fail(t) ==
  /\ phase[t] = "open"
  /\ \A w \in Worker : leg[t][w] \in {"none", "ack", "no"}
  /\ \E w \in Worker : leg[t][w] = "no"
  /\ phase' = [phase EXCEPT ![t] = "failed"]
  /\ UNCHANGED <<leg, late, effect, mem, up>>

Next ==
  \/ \E t \in Call :
       \/ \E P \in (SUBSET Worker) \ {{}} : Send(t, P)
       \/ Succeed(t) \/ Fail(t)
       \/ \E w \in Worker :
            \/ Deliver(t, w) \/ RunQuery(t, w) \/ Lose(t, w) \/ LoseAnswer(t, w)
            \/ LateDeliver(t, w) \/ LateRun(t, w) \/ LateDrop(t, w)
  \/ \E w \in Worker : Crash(w) \/ Restart(w)

Spec == Init /\ [][Next]_vars
=============================================================================
