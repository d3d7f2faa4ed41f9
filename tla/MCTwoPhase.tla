---------------------------- MODULE MCTwoPhase ----------------------------
(* Small instances of TwoPhase.  The workers are interchangeable.        *)
EXTENDS TwoPhase, TLC

Symmetry == Permutations(Worker)
============================================================================
