-------------------------------- MODULE Fmq --------------------------------
(***************************************************************************)
(* The fast message queue of the HALs (hal/fmq/src/lib.rs): one writer and *)
(* one reader in different processes share a ring of bytes, two counters   *)
(* of bytes since creation and, optionally, the EventFlag word blocking    *)
(* calls sleep on.  A peer using libfmq follows the same protocol.         *)
(*                                                                         *)
(* One step is one access to the shared memory: the load of the peer's     *)
(* counter, the copy of one byte, the store of the own counter, the atomic *)
(* operations on the EventFlag word and the futex calls.  A queue with an  *)
(* EventFlag word is used by blocking calls only (TypedQueue has no        *)
(* others).  Without one a blocking call does what read and write do: both *)
(* give up where they would have waited.                                   *)
(***************************************************************************)
EXTENDS Integers, Sequences

CONSTANTS
    Byte,      \* values of a byte
    Size,      \* ring size in bytes
    Messages,  \* what the writer may write: sequences of bytes
    ReadLens,  \* how many bytes a reader may ask for
    MaxPos     \* bound: bytes written since creation

ASSUME FmqAssumption ==
    /\ 0 \in Byte
    /\ Size \in Nat \ {0}
    /\ Messages \subseteq Seq(Byte)
    /\ ReadLens \subseteq Nat
    /\ MaxPos \in Nat

VARIABLES
    ring,  \* the ring, by byte offset
    r,     \* the read counter
    w,     \* the write counter
    flag,  \* the queue has an EventFlag word
    word,  \* the bits set in it
    pc,    \* where each end is
    old,   \* the word each end expects when it sleeps
    want,  \* how many bytes the reader's call asks for
    buf,   \* the reader's buffer, as far as it is filled
    msg,   \* what the writer's call writes
    done,  \* how many bytes of it are copied
    got    \* what the last successful read returned

vars == <<ring, r, w, flag, word, pc, old, want, buf, msg, done, got>>

End == {"reader", "writer"}

Peer(e) == IF e = "reader" THEN "writer" ELSE "reader"

\* The bit an end waits for: NOT_EMPTY or NOT_FULL.
Bit(e) == IF e = "reader" THEN "NOT_EMPTY" ELSE "NOT_FULL"

Bits == {"NOT_EMPTY", "NOT_FULL"}

PCs == {"idle", "check", "copy", "wake", "futex", "wait", "sleep", "asleep"}

Offset(at) == at % Size

Goto(e, l) == pc' = [pc EXCEPT ![e] = l]

-----------------------------------------------------------------------------
(* Counters                                                                 *)

available_to_read == w - r

available_to_write ==
    IF available_to_read > Size THEN 0 ELSE Size - available_to_read

\* The bytes an end's call needs are there, or have room.
Enough(e) ==
    IF e = "reader" THEN available_to_read >= want
                    ELSE available_to_write >= Len(msg)

-----------------------------------------------------------------------------
Init ==
    /\ ring = [o \in 0 .. Size - 1 |-> 0]
    /\ r = 0 /\ w = 0
    /\ flag \in BOOLEAN
    /\ word = {}
    /\ pc = [e \in End |-> "idle"]
    /\ old = [e \in End |-> {}]
    /\ want = 0 /\ buf = <<>>
    /\ msg = <<>> /\ done = 0
    /\ got = <<>>

\* read, read_blocking and write, write_blocking are called.
ReadCall(n) ==
    /\ pc["reader"] = "idle"
    /\ want' = n /\ buf' = <<>>
    /\ Goto("reader", "check")
    /\ UNCHANGED <<ring, r, w, flag, word, old, msg, done, got>>

WriteCall(m) ==
    /\ pc["writer"] = "idle"
    /\ w + Len(m) <= MaxPos
    /\ msg' = m /\ done' = 0
    /\ Goto("writer", "check")
    /\ UNCHANGED <<ring, r, w, flag, word, old, want, buf, got>>

\* The one load of the peer's counter that read and write decide on.
Check(e) ==
    /\ pc[e] = "check"
    /\ Goto(e, IF Enough(e) THEN "copy" ELSE IF flag THEN "wait" ELSE "idle")
    /\ UNCHANGED <<ring, r, w, flag, word, old, want, buf, msg, done, got>>

\* copy, byte by byte: the two spans of the code are consecutive positions.
ReadCopy ==
    /\ pc["reader"] = "copy"
    /\ Len(buf) < want
    /\ buf' = Append(buf, ring[Offset(r + Len(buf))])
    /\ UNCHANGED <<ring, r, w, flag, word, pc, old, want, msg, done, got>>

WriteCopy ==
    /\ pc["writer"] = "copy"
    /\ done < Len(msg)
    /\ ring' = [ring EXCEPT ![Offset(w + done)] = msg[done + 1]]
    /\ done' = done + 1
    /\ UNCHANGED <<r, w, flag, word, pc, old, want, buf, msg, got>>

\* Mutant: the write counter is stored before the bytes are all there.
StoreEarly ==
    /\ pc["writer"] = "copy"
    /\ w' = w + Len(msg)
    /\ msg' = <<>> /\ done' = 0
    /\ Goto("writer", IF flag THEN "wake" ELSE "idle")
    /\ UNCHANGED <<ring, r, flag, word, old, want, buf, got>>

\* Mutant: the reader forgets to wake the writer.
ReadStoreOnly ==
    /\ pc["reader"] = "copy"
    /\ Len(buf) = want
    /\ r' = r + want
    /\ got' = buf
    /\ want' = 0 /\ buf' = <<>>
    /\ Goto("reader", "idle")
    /\ UNCHANGED <<ring, w, flag, word, old, msg, done>>

\* The release store that publishes the bytes, or the room.
ReadStore ==
    /\ pc["reader"] = "copy"
    /\ Len(buf) = want
    /\ r' = r + want
    /\ got' = buf
    /\ want' = 0 /\ buf' = <<>>
    /\ Goto("reader", IF flag THEN "wake" ELSE "idle")
    /\ UNCHANGED <<ring, w, flag, word, old, msg, done>>

WriteStore ==
    /\ pc["writer"] = "copy"
    /\ done = Len(msg)
    /\ w' = w + Len(msg)
    /\ msg' = <<>> /\ done' = 0
    /\ Goto("writer", IF flag THEN "wake" ELSE "idle")
    /\ UNCHANGED <<ring, r, flag, word, old, want, buf, got>>

\* wake: set the peer's bit; only a bit that was clear is worth a futex wake.
Wake(e) ==
    /\ pc[e] = "wake"
    /\ word' = word \cup {Bit(Peer(e))}
    /\ Goto(e, IF Bit(Peer(e)) \in word THEN "idle" ELSE "futex")
    /\ UNCHANGED <<ring, r, w, flag, old, want, buf, msg, done, got>>

\* FUTEX_WAKE_BITSET: a peer asleep on its bit returns from its futex call.
FutexWake(e) ==
    /\ pc[e] = "futex"
    /\ pc' = [pc EXCEPT ![e] = "idle",
                        ![Peer(e)] = IF @ = "asleep" THEN "wait" ELSE @]
    /\ UNCHANGED <<ring, r, w, flag, word, old, want, buf, msg, done, got>>

\* wait: consume the bit and retry the call, or go to sleep on the word.
Wait(e) ==
    /\ pc[e] = "wait"
    /\ word' = word \ {Bit(e)}
    /\ old' = [old EXCEPT ![e] = word']
    /\ Goto(e, IF Bit(e) \in word THEN "check" ELSE "sleep")
    /\ UNCHANGED <<ring, r, w, flag, want, buf, msg, done, got>>

\* Mutant: the futex wait does not compare the word.
SleepBlindly(e) ==
    /\ pc[e] = "sleep"
    /\ Goto(e, "asleep")
    /\ UNCHANGED <<ring, r, w, flag, word, old, want, buf, msg, done, got>>

\* FUTEX_WAIT_BITSET compares the word before it sleeps (EAGAIN).
Sleep(e) ==
    /\ pc[e] = "sleep"
    /\ Goto(e, IF word = old[e] THEN "asleep" ELSE "wait")
    /\ UNCHANGED <<ring, r, w, flag, word, old, want, buf, msg, done, got>>

\* EINTR or a spurious return.
Interrupted(e) ==
    /\ pc[e] = "asleep"
    /\ Goto(e, "wait")
    /\ UNCHANGED <<ring, r, w, flag, word, old, want, buf, msg, done, got>>

\* Any other error: wait and the blocking call return false.
Fails(e) ==
    /\ pc[e] = "sleep"
    /\ Goto(e, "idle")
    /\ UNCHANGED <<ring, r, w, flag, word, old, want, buf, msg, done, got>>

Progress(e) ==
    Check(e) \/ Wake(e) \/ FutexWake(e) \/ Wait(e) \/ Sleep(e)

Copies(e) ==
    IF e = "reader" THEN ReadCopy \/ ReadStore ELSE WriteCopy \/ WriteStore

Next ==
    \/ \E n \in ReadLens : ReadCall(n)
    \/ \E m \in Messages : WriteCall(m)
    \/ ReadCopy \/ ReadStore \/ WriteCopy \/ WriteStore
    \/ \E e \in End : Check(e) \/ Wake(e) \/ FutexWake(e)
    \/ \E e \in End : Wait(e) \/ Sleep(e) \/ Interrupted(e) \/ Fails(e)

Spec == Init /\ [][Next]_vars

(***************************************************************************)
(* Both ends run, and the reader keeps reading: a client that stops        *)
(* calling read leaves a blocked writer where it is.  The writer need not  *)
(* write.                                                                  *)
(***************************************************************************)
FairSpec ==
    /\ Spec
    /\ \A e \in End : WF_vars(Progress(e)) /\ WF_vars(Copies(e))
    /\ WF_vars(\E n \in ReadLens : ReadCall(n))

-----------------------------------------------------------------------------
(* Properties                                                               *)

\* The type invariant; in particular the counters are never more than the ring
\* apart.
TypeOK ==
    /\ ring \in [0 .. Size - 1 -> Byte]
    /\ r \in Nat /\ w \in Nat /\ w - r \in 0 .. Size
    /\ flag \in BOOLEAN
    /\ word \in SUBSET Bits
    /\ pc \in [End -> PCs]
    /\ old \in [End -> SUBSET Bits]
    /\ want \in ReadLens \cup {0} /\ buf \in Seq(Byte) /\ Len(buf) <= want
    /\ msg \in Messages \cup {<<>>} /\ done \in 0 .. Len(msg)
    /\ got \in Seq(Byte)

\* The bytes between the two counters, oldest first.
Contents == [i \in 1 .. available_to_read |-> ring[Offset(r + i - 1)]]

Fifo == INSTANCE BoundedFifo WITH queue <- Contents

(***************************************************************************)
(* The queue implements a bounded first-in first-out queue whose writes    *)
(* and reads are single steps: no byte is lost, repeated, overtaken or     *)
(* torn, however the byte copies of the two ends interleave, and a read    *)
(* returns the bytes at the head.  The store of a counter is the step.     *)
(***************************************************************************)
ImplementsFifo == Fifo!Spec

\* The ring offsets an end may touch until it stores its counter.
Touches(e) ==
    IF pc[e] # "copy" THEN {}
    ELSE IF e = "reader" THEN {Offset(r + i) : i \in 0 .. want - 1}
    ELSE {Offset(w + i) : i \in 0 .. Len(msg) - 1}

(***************************************************************************)
(* No data race on the ring: the two spans copy works on are never shared  *)
(* with the span the peer is copying (the ring's SAFETY comments).         *)
(***************************************************************************)
NoOverlap == Touches("reader") \cap Touches("writer") = {}

(***************************************************************************)
(* No lost wake-up: an end that is asleep although its call could succeed  *)
(* is about to be woken, by a peer that has not yet come to set the bit or *)
(* to make the futex call.  The consumed bit, the compare of the futex     *)
(* wait and the skipped futex wake of a bit already set leave no gap.      *)
(***************************************************************************)
NoLostWake ==
    \A e \in End :
        pc[e] = "asleep" /\ Enough(e) => pc[Peer(e)] \in {"wake", "futex"}

(***************************************************************************)
(* A write ends: the reader makes room and its wake reaches the writer.    *)
(* The ring holds the longest read and the longest write less one byte, or *)
(* both ends could wait for more than the other leaves them.               *)
(***************************************************************************)
WritesEnd == pc["writer"] # "idle" ~> pc["writer"] = "idle"

\* A read whose bytes have been written ends.
ReadsEnd ==
    pc["reader"] # "idle" /\ Enough("reader") ~> pc["reader"] = "idle"

\* Blocking calls end, in both directions.
BlockedCallsEnd == WritesEnd /\ ReadsEnd
=============================================================================
