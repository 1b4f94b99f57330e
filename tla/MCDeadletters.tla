---------------------------- MODULE MCDeadletters ----------------------------
(* Instances of Deadletters for TLC.  The calls are interchangeable, and so are *)
(* the ids of recovery events.                                                  *)
EXTENDS Deadletters, TLC

Symmetry == Permutations(Caller) \cup Permutations(Recovery)
=============================================================================
