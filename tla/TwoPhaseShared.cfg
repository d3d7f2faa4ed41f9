\* Two calls of Run2PC meet in one worker, which may crash twice.
CONSTANTS
  Call = {c1, c2}
  Worker = {w1}
  MaxCrashes = 2
SPECIFICATION FairSpec
INVARIANTS MemoryCoversDatabase
PROPERTIES NothingAfterSuccess CallReturns ImplementsLegs
\* When every call has returned and the crashes are used up, nothing is left
\* to do.
CHECK_DEADLOCK FALSE
