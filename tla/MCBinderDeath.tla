---------------------------- MODULE MCBinderDeath ----------------------------
(* An instance of BinderDeath: two processes register for each other's node. *)
EXTENDS BinderDeath, TLC

CONSTANTS p1, p2, t1, t2, t3, n1, n2, c1

\* Each process holds a handle for the other's node, so that one release both
\* fires registrations and drops them.
Both == t1 :> p1 @@ t2 :> p1 @@ t3 :> p2

Crossed == n1 :> p1 @@ n2 :> p2
=============================================================================
