\* What the error text of Run2PC says: violated.
CONSTANTS
  Call = {c1}
  Worker = {w1, w2}
  MaxCrashes = 0
SPECIFICATION Spec
INVARIANTS RolledBackLeavesNothing
\* When every call has returned and the crashes are used up, nothing is left
\* to do.
CHECK_DEADLOCK FALSE
