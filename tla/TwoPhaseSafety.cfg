\* One call of Run2PC to any of three workers, each of which may crash once:
\* its safety, and that it implements Broadcast.
CONSTANTS
  Call = {c1}
  Worker = {w1, w2, w3}
  MaxCrashes = 1
SPECIFICATION Spec
INVARIANTS TypeOK SuccessIsUnanimous AtMostOnce
PROPERTIES ImplementsBroadcast
SYMMETRY Symmetry
\* When every call has returned and the crashes are used up, nothing is left
\* to do.
CHECK_DEADLOCK FALSE
