---------------------------- MODULE MCSupervisor ----------------------------
(* Instances of Supervisor for TLC. *)
EXTENDS Supervisor, TLC
CONSTANTS a, b, e1

\* a is disabled in its script and gets SIGTERM; b is critical.
MCDefined == a :> {"DISABLED", "RC_DISABLED", "GENTLE_KILL"} @@ b :> {"CRITICAL"}
\* b's exit restarts a and runs a command; a's exit runs a blocking one.
MCOnRestart == a :> <<[op |-> "exec"]>>
               @@ b :> <<[op |-> "restart", s |-> a], [op |-> "exec_background"]>>
\* Everything is asked of a, little of b.
MCRequests == {c \in Command :
  c.op \in {"exec", "exec_background"} \/ c.s = a \/ c.op \in {"start", "stop", "restart"}}
=============================================================================
