----------------------------- MODULE MCMissions -----------------------------
(* Instance of Missions for TLC: the second mission, if there is one, waits for the first. *)
EXTENDS Missions, TLC

CONSTANTS m1, m2

Waits == [m \in Mission |-> IF m = m2 THEN {m1} ELSE {}]

Symmetry == Permutations(Task)
=============================================================================
