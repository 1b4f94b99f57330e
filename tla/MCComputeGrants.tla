--------------------------- MODULE MCComputeGrants ---------------------------
(***************************************************************************)
(* Instances of ComputeGrants for TLC.                                     *)
(***************************************************************************)
EXTENDS ComputeGrants, TLC

CONSTANTS t1, t2, once, often

\* t1 may run under either grant; t2 needs no approval.
Scopes == (once :> {t1}) @@ (often :> {t1})

\* With and without an approval id; the task that needs none is submitted without.
Calls == {<<t1, once>>, <<t1, often>>, <<t1, NoGrant>>, <<t2, NoGrant>>}

=============================================================================
