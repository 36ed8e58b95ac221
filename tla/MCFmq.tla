-------------------------------- MODULE MCFmq --------------------------------
(* Instances of Fmq.                                                        *)
EXTENDS Fmq

\* One or two bytes of every value.
Short == UNION {[1 .. n -> Byte] : n \in 1 .. 2}
=============================================================================
