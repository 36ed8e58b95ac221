---------------------------- MODULE BoundedFifo ----------------------------
(***************************************************************************)
(* What a fast message queue promises its two ends: a first-in first-out   *)
(* queue of at most Size bytes, to which a write appends all of its bytes  *)
(* in one step or none, and from which a read takes the oldest bytes in    *)
(* one step or none.  Fmq implements it.                                   *)
(***************************************************************************)
EXTENDS Integers, Sequences

CONSTANTS
    Size,      \* capacity in bytes
    Messages,  \* what the writer may write: sequences of bytes
    ReadLens   \* how many bytes a reader may ask for

VARIABLES
    queue,  \* the bytes written and not yet read, oldest first
    msg,    \* what the writer is writing, empty once it is written
    got     \* what the last read returned

Init == queue = <<>> /\ msg = <<>> /\ got = <<>>

\* The writer starts to write m; what it last failed to write is dropped.
Offer(m) ==
    /\ msg' = m
    /\ UNCHANGED <<queue, got>>

Put ==
    /\ Len(queue) + Len(msg) <= Size
    /\ queue' = queue \o msg
    /\ msg' = <<>>
    /\ UNCHANGED got

Get(n) ==
    /\ n <= Len(queue)
    /\ got' = SubSeq(queue, 1, n)
    /\ queue' = SubSeq(queue, n + 1, Len(queue))
    /\ UNCHANGED msg

Next == (\E m \in Messages : Offer(m)) \/ Put \/ (\E n \in ReadLens : Get(n))

Spec == Init /\ [][Next]_<<queue, msg, got>>
=============================================================================
