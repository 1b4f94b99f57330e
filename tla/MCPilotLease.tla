----------------------------- MODULE MCPilotLease -----------------------------
(* The leases, and the threads of each kind, are interchangeable. *)
EXTENDS PilotLease, TLC

Symmetry ==
    Permutations(Lease) \cup Permutations(Manager) \cup Permutations(Publisher)
        \cup Permutations(Effector) \cup Permutations(Recorder)

=============================================================================
