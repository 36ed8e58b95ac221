---------------------------- MODULE MCBinderWait ----------------------------
(* Instances of BinderWait: a hosted thread and a local one.                 *)
EXTENDS BinderWait, TLC

CONSTANTS h1, l1, i1
=============================================================================
