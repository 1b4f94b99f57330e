------------------------------ MODULE MCReactor ------------------------------
(* Instances of Reactor for TLC.  The calls are interchangeable, and so are the *)
(* ids of approval requests.                                                    *)
EXTENDS Reactor, TLC

Symmetry == Permutations(Caller) \cup Permutations(Approval \ Attached)
=============================================================================
