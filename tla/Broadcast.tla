----------------------------- MODULE Broadcast -----------------------------
(***************************************************************************)
(* What a caller of Coordinator.Run2PC (internal/master/master.go) may     *)
(* count on.  The name of the function promises a two-phase commit; what   *)
(* it offers is weaker, and this module says exactly what: a call is a     *)
(* broadcast of one message to the workers of the call.  The message takes *)
(* effect at most once in each of their databases and nowhere else, and    *)
(* the call succeeds only when it has taken effect in all of them.  A call *)
(* that fails says nothing: the message may have taken effect in some of   *)
(* the databases, in all, in none, and may still do so after the caller    *)
(* has been told of the failure.                                           *)
(***************************************************************************)
EXTENDS Naturals

CONSTANTS Call,    \* the calls of Run2PC that are ever made
          Worker   \* the addresses in MasterMetaData.WorkerAddrs

VARIABLES phase,    \* phase[t]: how far the caller of t has got
          members,  \* members[t]: the workers of call t
          effect    \* effect[t][w]: how often t took effect in w's database

vars == <<phase, members, effect>>

Init ==
  /\ phase = [t \in Call |-> "idle"]
  /\ members = [t \in Call |-> {}]
  /\ effect = [t \in Call |-> [w \in Worker |-> 0]]

\* The caller broadcasts to the workers P.
Start(t, P) ==
  /\ phase[t] = "idle"
  /\ phase' = [phase EXCEPT ![t] = "open"]
  /\ members' = [members EXCEPT ![t] = P]
  /\ UNCHANGED effect

\* The message takes effect in the database of w, possibly after the caller
\* has given up on the call.
Deliver(t, w) ==
  /\ phase[t] \in {"open", "failed"}
  /\ w \in members[t]
  /\ effect[t][w] = 0
  /\ effect' = [effect EXCEPT ![t][w] = 1]
  /\ UNCHANGED <<phase, members>>

\* The caller learns that the message has taken effect everywhere.
Succeed(t) ==
  /\ phase[t] = "open"
  /\ \A w \in members[t] : effect[t][w] = 1
  /\ phase' = [phase EXCEPT ![t] = "ok"]
  /\ UNCHANGED <<members, effect>>

\* The caller is told that the call failed, whatever has happened.
Fail(t) ==
  /\ phase[t] = "open"
  /\ phase' = [phase EXCEPT ![t] = "failed"]
  /\ UNCHANGED <<members, effect>>

Next ==
  \E t \in Call :
    \/ \E P \in (SUBSET Worker) \ {{}} : Start(t, P)
    \/ \E w \in Worker : Deliver(t, w)
    \/ Succeed(t)
    \/ Fail(t)

Spec == Init /\ [][Next]_vars
=============================================================================
