----------------------------- MODULE FmqProofs -----------------------------
(***************************************************************************)
(* For every ring size, every set of messages and of read lengths: the     *)
(* fast message queue of Fmq never lets its two copies meet, loses no      *)
(* wake-up, and implements BoundedFifo.                                    *)
(***************************************************************************)
EXTENDS Fmq, SequenceTheorems, TLAPS

-----------------------------------------------------------------------------
(* Offsets                                                                  *)

\* An offset lies within the ring.
LEMMA OffsetType ==
    ASSUME NEW a \in Nat PROVE Offset(a) \in 0 .. Size - 1
BY FmqAssumption DEF Offset

\* Two positions less than a ring apart have different offsets: what copy
\* relies on when it reduces a counter modulo the ring size.
LEMMA OffsetDistinct ==
    ASSUME NEW a \in Nat, NEW b \in Nat, a < b, b < a + Size
    PROVE Offset(a) # Offset(b)
<1> DEFINE qa == a \div Size
           qb == b \div Size
<1>1. a = Size * qa + (a % Size) /\ qa \in Int
  BY FmqAssumption
<1>2. b = Size * qb + (b % Size) /\ qb \in Int
  BY FmqAssumption
<1> HIDE DEF qa, qb
<1>3. SUFFICES ASSUME a % Size = b % Size PROVE FALSE
  BY DEF Offset
<1>4. b - a = Size * (qb - qa)
  BY <1>1, <1>2, <1>3, FmqAssumption
<1>5. qb - qa \in Int
  BY <1>1, <1>2
<1>6. CASE qb - qa <= 0
  BY <1>4, <1>5, <1>6, FmqAssumption
<1>7. CASE qb - qa >= 1
  BY <1>4, <1>5, <1>7, FmqAssumption
<1> QED BY <1>5, <1>6, <1>7

-----------------------------------------------------------------------------
(* The inductive invariant                                                  *)

\* An end that has not found enough bytes or room has copied nothing; the
\* reader's length is one it was called with until the call is over.
Fresh ==
    /\ pc["reader"] \in {"check", "wait", "sleep", "asleep"} => buf = <<>>
    /\ pc["writer"] \in {"check", "wait", "sleep", "asleep"} => done = 0
    /\ pc["reader"] \in {"check", "copy", "wait", "sleep", "asleep"} =>
          want \in ReadLens

\* What Check found still holds while an end copies: its peer only adds.
Room ==
    /\ pc["reader"] = "copy" => want <= w - r
    /\ pc["writer"] = "copy" => Len(msg) <= Size - (w - r)

\* What an end has copied so far is what is, or was, in the ring.
Copied ==
    /\ pc["reader"] = "copy" =>
          \A i \in 1 .. Len(buf) : buf[i] = ring[Offset(r + i - 1)]
    /\ pc["writer"] = "copy" =>
          \A i \in 1 .. done : ring[Offset(w + i - 1)] = msg[i]

\* Where the wake-up of a waiting end is, from the store of the peer's
\* counter to the peer's futex call.
Waking ==
    /\ \A e \in End : pc[e] \in {"wake", "futex", "wait", "sleep", "asleep"} => flag
    /\ \A e \in End : pc[e] = "sleep" => Bit(e) \notin old[e]
    /\ \A e \in End : pc[e] = "asleep" /\ Bit(e) \in word => pc[Peer(e)] = "futex"
    /\ \A e \in End :
          pc[e] \in {"wait", "sleep", "asleep"} /\ Enough(e) /\ Bit(e) \notin word
             => pc[Peer(e)] = "wake"

IInv == TypeOK /\ Fresh /\ Room /\ Copied /\ Waking

\* A new queue, empty and with both ends idle, satisfies the invariant.
LEMMA InitInv == Init => IInv
<1> SUFFICES ASSUME Init PROVE IInv
  OBVIOUS
<1>1. TypeOK
  BY FmqAssumption DEF Init, TypeOK, End, PCs
<1>2. Fresh /\ Room /\ Copied
  BY DEF Init, Fresh, Room, Copied, End
<1>3. Waking
  BY DEF Init, Waking, End
<1> QED
  BY <1>1, <1>2, <1>3 DEF IInv

\* Every step of either end preserves the invariant.
LEMMA StepInv == IInv /\ [Next]_vars => IInv'
<1> SUFFICES ASSUME IInv, [Next]_vars PROVE IInv'
  OBVIOUS
<1> USE FmqAssumption DEF IInv, Goto, End
<1>1. ASSUME NEW n \in ReadLens, ReadCall(n) PROVE IInv'
  <2>1. TypeOK'
    BY <1>1 DEF ReadCall, TypeOK, PCs
  <2>2. Fresh' /\ Copied'
    BY <1>1 DEF ReadCall, TypeOK, Fresh, Copied
  <2>3. Room'
    BY <1>1 DEF ReadCall, TypeOK, Room
  <2>4. Waking'
    BY <1>1 DEF ReadCall, TypeOK, Waking, Enough, available_to_read, available_to_write, Peer
  <2> QED
    BY <2>1, <2>2, <2>3, <2>4
<1>2. ASSUME NEW m \in Messages, WriteCall(m) PROVE IInv'
  <2>1. TypeOK'
    BY <1>2 DEF WriteCall, TypeOK, PCs
  <2>2. Fresh' /\ Copied'
    BY <1>2 DEF WriteCall, TypeOK, Fresh, Copied
  <2>3. Room'
    BY <1>2 DEF WriteCall, TypeOK, Room
  <2>4. Waking'
    BY <1>2 DEF WriteCall, TypeOK, Waking, Enough, available_to_read, available_to_write, Peer
  <2> QED
    BY <2>1, <2>2, <2>3, <2>4
<1>3. ASSUME ReadCopy PROVE IInv'
  <2>1. Offset(r + Len(buf)) \in 0 .. Size - 1
    <3>1. r + Len(buf) \in Nat
      BY <1>3 DEF TypeOK
    <3> QED
      BY OffsetType, <3>1
  <2>2. TypeOK'
    BY <1>3, <2>1 DEF ReadCopy, TypeOK
  <2>3. Copied'
    <3>1. SUFFICES ASSUME NEW i \in 1 .. Len(buf')
                   PROVE buf'[i] = ring[Offset(r + i - 1)]
      BY <1>3 DEF ReadCopy, Copied, TypeOK
    <3>2. CASE i = Len(buf) + 1
      BY <1>3, <2>1, <3>2 DEF ReadCopy, TypeOK
    <3>3. CASE i \in 1 .. Len(buf)
      BY <1>3, <2>1, <3>3 DEF ReadCopy, Copied, TypeOK
    <3> QED
      BY <1>3, <2>1, <3>1, <3>2, <3>3 DEF ReadCopy, TypeOK
  <2>4. Fresh' /\ Room' /\ Waking'
    BY <1>3 DEF ReadCopy, TypeOK, Fresh, Room, Waking, Enough, available_to_read, available_to_write
  <2> QED
    BY <2>2, <2>3, <2>4
<1>4. ASSUME ReadStore PROVE IInv'
  <2>1. TypeOK'
    BY <1>4 DEF ReadStore, TypeOK, PCs, Room
  <2>2. Fresh' /\ Copied'
    BY <1>4 DEF ReadStore, TypeOK, Fresh, Copied
  <2>3. Room'
    BY <1>4 DEF ReadStore, TypeOK, Room
  <2>4. Waking'
    BY <1>4 DEF ReadStore, TypeOK, Waking, Enough, available_to_read, available_to_write, Peer, Room
  <2> QED
    BY <2>1, <2>2, <2>3, <2>4
<1>5. ASSUME WriteCopy PROVE IInv'
  <2>1. w + done \in Nat /\ Offset(w + done) \in 0 .. Size - 1
    <3>1. w + done \in Nat
      BY <1>5 DEF TypeOK
    <3> QED
      BY OffsetType, <3>1
  <2>2. msg \in Seq(Byte) /\ msg[done + 1] \in Byte
    BY <1>5 DEF WriteCopy, TypeOK
  <2>3. TypeOK'
    BY <1>5, <2>1, <2>2 DEF WriteCopy, TypeOK
  <2>4. ASSUME NEW at \in Nat, at < w + done, w + done < at + Size
        PROVE ring'[Offset(at)] = ring[Offset(at)]
    BY <1>5, <2>1, <2>4, OffsetDistinct, OffsetType DEF WriteCopy, TypeOK
  <2>5. ASSUME NEW i \in 1 .. Len(buf), pc["reader"] = "copy"
        PROVE ring'[Offset(r + i - 1)] = ring[Offset(r + i - 1)]
    <3>1. r + i - 1 \in Nat /\ r + i - 1 < w + done /\ w + done < r + i - 1 + Size
      BY <1>5, <2>2, <2>5 DEF WriteCopy, TypeOK, Room
    <3> QED
      BY <2>4, <3>1
  <2>6. ASSUME NEW i \in 1 .. done
        PROVE ring'[Offset(w + i - 1)] = msg[i]
    <3>1. w + i - 1 \in Nat /\ w + i - 1 < w + done /\ w + done < w + i - 1 + Size
      BY <1>5, <2>2, <2>6 DEF WriteCopy, TypeOK, Room
    <3> QED
      BY <1>5, <2>4, <2>6, <3>1 DEF WriteCopy, Copied
  <2>7. ring'[Offset(w + (done + 1) - 1)] = msg[done + 1]
    BY <1>5, <2>1 DEF WriteCopy, TypeOK
  <2>8. Copied'
    <3>1. pc["reader"] = "copy" =>
             \A i \in 1 .. Len(buf) : buf[i] = ring'[Offset(r + i - 1)]
      BY <2>5 DEF Copied
    <3>2. \A i \in 1 .. done + 1 : ring'[Offset(w + i - 1)] = msg[i]
      <4> SUFFICES ASSUME NEW i \in 1 .. done + 1
                   PROVE ring'[Offset(w + i - 1)] = msg[i]
        OBVIOUS
      <4>1. done \in Nat
        BY <2>2 DEF TypeOK
      <4>2. i \in 1 .. done \/ i = done + 1
        BY <4>1
      <4> QED
        BY <2>6, <2>7, <4>2
    <3>3. /\ done' = done + 1
          /\ UNCHANGED <<pc, r, w, buf, msg>>
      BY <1>5 DEF WriteCopy
    <3> QED
      BY <3>1, <3>2, <3>3 DEF Copied
  <2>9. Fresh' /\ Room' /\ Waking'
    BY <1>5 DEF WriteCopy, TypeOK, Fresh, Room, Waking, Enough, available_to_read, available_to_write
  <2> QED
    BY <2>3, <2>8, <2>9
<1>6. ASSUME WriteStore PROVE IInv'
  <2>1. TypeOK'
    BY <1>6 DEF WriteStore, TypeOK, PCs, Room
  <2>2. Fresh' /\ Copied'
    BY <1>6 DEF WriteStore, TypeOK, Fresh, Copied
  <2>3. Room'
    BY <1>6 DEF WriteStore, TypeOK, Room
  <2>4. Waking'
    BY <1>6 DEF WriteStore, TypeOK, Waking, Enough, available_to_read, available_to_write, Peer, Room
  <2> QED
    BY <2>1, <2>2, <2>3, <2>4
<1>7. ASSUME NEW e \in End, Check(e) PROVE IInv'
  <2>1. TypeOK'
    BY <1>7 DEF Check, TypeOK, PCs
  <2>2. Fresh' /\ Copied'
    BY <1>7 DEF Check, TypeOK, Fresh, Copied
  <2>3. Room'
    BY <1>7 DEF Check, TypeOK, Room, Enough, available_to_read, available_to_write
  <2>4. Waking'
    BY <1>7 DEF Check, TypeOK, Waking, Enough, available_to_read, available_to_write, Peer, Bit
  <2> QED
    BY <2>1, <2>2, <2>3, <2>4
<1>8. ASSUME NEW e \in End, Wake(e) PROVE IInv'
  <2>1. TypeOK'
    BY <1>8 DEF Wake, TypeOK, PCs, Bits, Bit, Peer
  <2>2. Fresh' /\ Copied'
    BY <1>8 DEF Wake, TypeOK, Fresh, Copied
  <2>3. Room'
    BY <1>8 DEF Wake, TypeOK, Room
  <2>4. Waking'
    BY <1>8 DEF Wake, TypeOK, Waking, Enough, available_to_read, available_to_write, Peer, Bit
  <2> QED
    BY <2>1, <2>2, <2>3, <2>4
<1>9. ASSUME NEW e \in End, FutexWake(e) PROVE IInv'
  <2>1. TypeOK'
    BY <1>9 DEF FutexWake, TypeOK, PCs, Peer
  <2>2. Fresh' /\ Copied'
    BY <1>9 DEF FutexWake, TypeOK, Fresh, Copied, Peer
  <2>3. Room'
    BY <1>9 DEF FutexWake, TypeOK, Room, Peer
  <2>4. Waking'
    BY <1>9 DEF FutexWake, TypeOK, Waking, Enough, available_to_read, available_to_write, Peer, Bit
  <2> QED
    BY <2>1, <2>2, <2>3, <2>4
<1>10. ASSUME NEW e \in End, Wait(e) PROVE IInv'
  <2>1. TypeOK'
    BY <1>10 DEF Wait, TypeOK, PCs, Bits, Bit
  <2>2. Fresh' /\ Copied'
    BY <1>10 DEF Wait, TypeOK, Fresh, Copied
  <2>3. Room'
    BY <1>10 DEF Wait, TypeOK, Room
  <2>4. Waking'
    BY <1>10 DEF Wait, TypeOK, Waking, Enough, available_to_read, available_to_write, Peer, Bit
  <2> QED
    BY <2>1, <2>2, <2>3, <2>4
<1>11. ASSUME NEW e \in End, Sleep(e) PROVE IInv'
  <2>1. TypeOK'
    BY <1>11 DEF Sleep, TypeOK, PCs
  <2>2. Fresh' /\ Copied'
    BY <1>11 DEF Sleep, TypeOK, Fresh, Copied
  <2>3. Room'
    BY <1>11 DEF Sleep, TypeOK, Room
  <2>4. Waking'
    BY <1>11 DEF Sleep, TypeOK, Waking, Enough, available_to_read, available_to_write, Peer, Bit
  <2> QED
    BY <2>1, <2>2, <2>3, <2>4
<1>12. ASSUME NEW e \in End, Interrupted(e) PROVE IInv'
  <2>1. TypeOK'
    BY <1>12 DEF Interrupted, TypeOK, PCs
  <2>2. Fresh' /\ Copied'
    BY <1>12 DEF Interrupted, TypeOK, Fresh, Copied
  <2>3. Room'
    BY <1>12 DEF Interrupted, TypeOK, Room
  <2>4. Waking'
    BY <1>12 DEF Interrupted, TypeOK, Waking, Enough, available_to_read, available_to_write, Peer, Bit
  <2> QED
    BY <2>1, <2>2, <2>3, <2>4
<1>13. ASSUME NEW e \in End, Fails(e) PROVE IInv'
  <2>1. TypeOK'
    BY <1>13 DEF Fails, TypeOK, PCs
  <2>2. Fresh' /\ Copied'
    BY <1>13 DEF Fails, TypeOK, Fresh, Copied
  <2>3. Room'
    BY <1>13 DEF Fails, TypeOK, Room
  <2>4. Waking'
    BY <1>13 DEF Fails, TypeOK, Waking, Enough, available_to_read, available_to_write, Peer, Bit
  <2> QED
    BY <2>1, <2>2, <2>3, <2>4
<1>14. ASSUME UNCHANGED vars PROVE IInv'
  BY <1>14 DEF vars, TypeOK, Fresh, Room, Copied, Waking, Enough, available_to_read, available_to_write
<1> QED
  BY <1>1, <1>2, <1>3, <1>4, <1>5, <1>6, <1>7, <1>8, <1>9, <1>10, <1>11,
     <1>12, <1>13, <1>14 DEF Next

\* The inductive invariant holds throughout.
LEMMA AlwaysInv == Spec => []IInv
BY InitInv, StepInv, PTL DEF Spec

-----------------------------------------------------------------------------
(* What follows from it                                                     *)

\* Types, and the counters never more than a ring apart.
THEOREM FmqTypes == Spec => []TypeOK
<1>1. IInv => TypeOK
  BY DEF IInv
<1> QED
  BY AlwaysInv, <1>1, PTL

\* The two copies never touch the same byte of the ring (NoOverlap), for
\* every ring size.
THEOREM FmqNoOverlap == Spec => []NoOverlap
<1>1. ASSUME IInv PROVE NoOverlap
  <2> SUFFICES ASSUME pc["reader"] = "copy", pc["writer"] = "copy",
                      NEW i \in 0 .. want - 1, NEW j \in 0 .. Len(msg) - 1
               PROVE Offset(r + i) # Offset(w + j)
    BY DEF NoOverlap, Touches
  <2>1. want \in Nat /\ Len(msg) \in Nat /\ r \in Nat /\ w \in Nat
    BY <1>1, FmqAssumption DEF IInv, TypeOK
  <2>2. /\ r + i \in Nat /\ w + j \in Nat
        /\ r + i < w + j /\ w + j < r + i + Size
    BY <1>1, <2>1, FmqAssumption DEF IInv, Room
  <2> QED
    BY <2>2, OffsetDistinct
<1> QED
  BY AlwaysInv, <1>1, PTL

\* An end asleep although its call could succeed is about to be woken
\* (NoLostWake).
THEOREM FmqNoLostWake == Spec => []NoLostWake
<1>1. IInv => NoLostWake
  BY DEF IInv, Waking, NoLostWake
<1> QED
  BY AlwaysInv, <1>1, PTL

-----------------------------------------------------------------------------
(* Refinement                                                               *)

\* The n bytes of a ring f from position a on.
Span(f, a, n) == [i \in 1 .. n |-> f[Offset(a + i - 1)]]

\* A stretch of the ring is a sequence of bytes of its length.
LEMMA SpanType ==
    ASSUME NEW f \in [0 .. Size - 1 -> Byte], NEW a \in Nat, NEW n \in Nat
    PROVE  /\ Span(f, a, n) \in Seq(Byte)
           /\ Len(Span(f, a, n)) = n
           /\ \A i \in 1 .. n : Span(f, a, n)[i] = f[Offset(a + i - 1)]
<1>1. \A i \in 1 .. n : f[Offset(a + i - 1)] \in Byte
  <2> SUFFICES ASSUME NEW i \in 1 .. n PROVE f[Offset(a + i - 1)] \in Byte
    OBVIOUS
  <2>1. a + i - 1 \in Nat
    OBVIOUS
  <2>2. Offset(a + i - 1) \in 0 .. Size - 1
    BY <2>1, OffsetType
  <2> QED
    BY <2>2
<1> QED
  BY <1>1 DEF Span

\* A message that lies in the ring after a span extends it.
LEMMA SpanConcat ==
    ASSUME NEW f \in [0 .. Size - 1 -> Byte], NEW a \in Nat, NEW n \in Nat,
           NEW m \in Seq(Byte),
           \A j \in 1 .. Len(m) : f[Offset(a + n + j - 1)] = m[j]
    PROVE  Span(f, a, n + Len(m)) = Span(f, a, n) \o m
<1> DEFINE s == Span(f, a, n)
           t == Span(f, a, n + Len(m))
<1>0. Len(m) \in Nat /\ n + Len(m) \in Nat
  OBVIOUS
<1>1. s \in Seq(Byte) /\ Len(s) = n /\ \A i \in 1 .. n : s[i] = f[Offset(a + i - 1)]
  BY SpanType
<1>2. /\ t \in Seq(Byte) /\ Len(t) = n + Len(m)
      /\ \A i \in 1 .. n + Len(m) : t[i] = f[Offset(a + i - 1)]
  BY SpanType, <1>0
<1> HIDE DEF s, t
<1>3. /\ s \o m \in Seq(Byte) /\ Len(s \o m) = n + Len(m)
      /\ \A i \in 1 .. n + Len(m) : (s \o m)[i] = IF i <= n THEN s[i] ELSE m[i - n]
  BY <1>1, ConcatProperties
<1>4. ASSUME NEW i \in 1 .. n + Len(m) PROVE t[i] = (s \o m)[i]
  <2>1. CASE i <= n
    <3>1. i \in 1 .. n
      BY <1>0, <2>1
    <3> QED
      BY <1>1, <1>2, <1>3, <2>1, <3>1
  <2>2. CASE i > n
    <3> DEFINE j == i - n
    <3>1. j \in 1 .. Len(m) /\ a + n + j - 1 = a + i - 1
      BY <1>0, <2>2
    <3>2. f[Offset(a + i - 1)] = m[j]
      BY <3>1
    <3>3. (s \o m)[i] = m[j]
      BY <1>0, <1>3, <2>2
    <3> QED
      BY <1>2, <3>2, <3>3
  <2>3. i <= n \/ i > n
    BY <1>0
  <2> QED
    BY <2>1, <2>2, <2>3
<1>5. t = s \o m
  BY <1>2, <1>3, <1>4, SeqEqual
<1> QED
  BY <1>5 DEF s, t

\* The first k bytes of a span, and the rest of it, are spans.
LEMMA SpanSplit ==
    ASSUME NEW f \in [0 .. Size - 1 -> Byte], NEW a \in Nat, NEW n \in Nat,
           NEW k \in 0 .. n
    PROVE  /\ SubSeq(Span(f, a, n), 1, k) = Span(f, a, k)
           /\ SubSeq(Span(f, a, n), k + 1, n) = Span(f, a + k, n - k)
<1> DEFINE s == Span(f, a, n)
           t == Span(f, a, k)
           u == Span(f, a + k, n - k)
           first == SubSeq(s, 1, k)
           rest == SubSeq(s, k + 1, n)
<1>0. k \in Nat /\ n - k \in Nat /\ a + k \in Nat
  OBVIOUS
<1>1. s \in Seq(Byte) /\ Len(s) = n /\ \A i \in 1 .. n : s[i] = f[Offset(a + i - 1)]
  BY SpanType
<1>2. t \in Seq(Byte) /\ Len(t) = k /\ \A i \in 1 .. k : t[i] = f[Offset(a + i - 1)]
  BY SpanType, <1>0
<1>3. /\ u \in Seq(Byte) /\ Len(u) = n - k
      /\ \A i \in 1 .. n - k : u[i] = f[Offset(a + k + i - 1)]
  BY SpanType, <1>0
<1>4. \A i \in 1 .. n : s[i] \in Byte
  BY <1>1, ElementOfSeq
<1>5. /\ first \in Seq(Byte) /\ Len(first) = k
      /\ \A i \in 1 .. k : first[i] = s[1 + i - 1]
  <2> HIDE DEF s
  <2>1. \A i \in 1 .. k : s[i] \in Byte
    BY <1>4
  <2> QED
    BY <2>1, SubSeqProperties, <1>0
<1>6. /\ rest \in Seq(Byte) /\ Len(rest) = n - k
      /\ \A i \in 1 .. n - k : rest[i] = s[k + 1 + i - 1]
  <2> HIDE DEF s
  <2>1. \A i \in k + 1 .. n : s[i] \in Byte
    BY <1>4
  <2>2. k + 1 \in Int /\ n \in Int
    OBVIOUS
  <2> QED
    BY <2>1, <2>2, SubSeqProperties, <1>0
<1> HIDE DEF s, t, u, first, rest
<1>7. \A i \in 1 .. k : first[i] = t[i]
  BY <1>0, <1>1, <1>2, <1>5
<1>8. ASSUME NEW i \in 1 .. n - k PROVE rest[i] = u[i]
  <2>1. k + i \in 1 .. n /\ k + 1 + i - 1 = k + i /\ a + k + i - 1 = a + (k + i) - 1
    BY <1>0
  <2> QED
    BY <1>1, <1>3, <1>6, <2>1
<1>9. first = t /\ rest = u
  BY <1>2, <1>3, <1>5, <1>6, <1>7, <1>8, SeqEqual
<1> QED
  BY <1>9 DEF s, t, u, first, rest

\* Contents is a span, in this state and in the next.
LEMMA ContentsSpan ==
    /\ Contents = Span(ring, r, w - r)
    /\ Contents' = Span(ring', r', w' - r')
BY DEF Contents, Span, available_to_read

\* A byte copied into the ring is outside of Contents.
LEMMA CopyKeepsContents ==
    ASSUME IInv, WriteCopy PROVE UNCHANGED Contents
<1>1. /\ w - r \in Nat /\ r \in Nat /\ w \in Nat /\ done \in Nat
      /\ Len(msg) \in Nat /\ done < Len(msg) /\ Len(msg) <= Size - (w - r)
  BY FmqAssumption DEF IInv, TypeOK, Room, WriteCopy
<1>2. ASSUME NEW i \in 1 .. w - r
      PROVE ring'[Offset(r + i - 1)] = ring[Offset(r + i - 1)]
  <2>1. /\ r + i - 1 \in Nat /\ w + done \in Nat
        /\ r + i - 1 < w + done /\ w + done < r + i - 1 + Size
    BY <1>1, FmqAssumption
  <2>2. Offset(r + i - 1) # Offset(w + done)
    BY <2>1, OffsetDistinct
  <2>3. Offset(r + i - 1) \in 0 .. Size - 1
    BY <2>1, OffsetType
  <2> QED
    BY <2>2, <2>3 DEF IInv, TypeOK, WriteCopy
<1>3. r' = r /\ w' = w
  BY DEF WriteCopy
<1> QED
  BY <1>2, <1>3 DEF Contents, available_to_read

\* The store of the write counter appends the message in one step.
LEMMA StorePuts ==
    ASSUME IInv, WriteStore PROVE Fifo!Put
<1>1. /\ w - r \in Nat /\ r \in Nat /\ w \in Nat /\ ring \in [0 .. Size - 1 -> Byte]
      /\ msg \in Seq(Byte)
  <2>1. w - r \in Nat /\ r \in Nat /\ w \in Nat /\ ring \in [0 .. Size - 1 -> Byte]
    BY FmqAssumption DEF IInv, TypeOK
  <2>2. msg \in Messages \cup {<<>>}
    BY DEF IInv, TypeOK
  <2> QED
    BY <2>1, <2>2, FmqAssumption
<1>2. /\ Len(msg) <= Size - (w - r) /\ done = Len(msg)
      /\ \A j \in 1 .. done : ring[Offset(w + j - 1)] = msg[j]
  BY DEF IInv, Room, Copied, WriteStore
<1>3. w' = w + Len(msg) /\ r' = r /\ ring' = ring /\ msg' = <<>> /\ got' = got
  BY DEF WriteStore
<1>4. \A j \in 1 .. Len(msg) : ring[Offset(r + (w - r) + j - 1)] = msg[j]
  <2>1. r + (w - r) = w
    BY <1>1
  <2> QED
    BY <1>2, <2>1
<1>5. Span(ring, r, (w - r) + Len(msg)) = Span(ring, r, w - r) \o msg
  BY <1>1, <1>4, SpanConcat
<1>6. w' - r' = (w - r) + Len(msg)
  BY <1>1, <1>3
<1>7. Contents' = Contents \o msg
  BY <1>3, <1>5, <1>6, ContentsSpan
<1>8. Len(Contents) = w - r
  BY <1>1, ContentsSpan, SpanType
<1>9. Len(Contents) + Len(msg) <= Size
  BY <1>1, <1>2, <1>8, FmqAssumption
<1> QED
  BY <1>3, <1>7, <1>9 DEF Fifo!Put

\* The store of the read counter takes the bytes the reader copied.
LEMMA StoreGets ==
    ASSUME IInv, ReadStore PROVE \E n \in ReadLens : Fifo!Get(n)
<1>1. /\ w - r \in Nat /\ r \in Nat /\ w \in Nat /\ ring \in [0 .. Size - 1 -> Byte]
      /\ buf \in Seq(Byte) /\ want \in ReadLens /\ want \in Nat
  BY FmqAssumption DEF IInv, TypeOK, Fresh, ReadStore
<1>2. /\ want <= w - r /\ Len(buf) = want
      /\ \A i \in 1 .. want : buf[i] = ring[Offset(r + i - 1)]
  BY DEF IInv, Room, Copied, ReadStore
<1>3. r' = r + want /\ w' = w /\ ring' = ring /\ got' = buf /\ msg' = msg
  BY DEF ReadStore
<1>4. want \in 0 .. w - r /\ w' - r' = (w - r) - want
  BY <1>1, <1>2, <1>3
<1>5. buf = Span(ring, r, want)
  <2> DEFINE s == Span(ring, r, want)
  <2>1. /\ s \in Seq(Byte) /\ Len(s) = want
        /\ \A i \in 1 .. want : s[i] = ring[Offset(r + i - 1)]
    BY <1>1, SpanType
  <2> HIDE DEF s
  <2>2. buf = s
    BY <1>1, <1>2, <2>1, SeqEqual
  <2> QED
    BY <2>2 DEF s
<1>6. /\ SubSeq(Contents, 1, want) = buf
      /\ SubSeq(Contents, want + 1, w - r) = Contents'
  <2>1. /\ SubSeq(Span(ring, r, w - r), 1, want) = Span(ring, r, want)
        /\ SubSeq(Span(ring, r, w - r), want + 1, w - r)
              = Span(ring, r + want, (w - r) - want)
    BY <1>1, <1>4, SpanSplit
  <2>2. Contents' = Span(ring, r + want, (w - r) - want)
    BY <1>3, <1>4, ContentsSpan
  <2> QED
    BY <1>5, <2>1, <2>2, ContentsSpan
<1>7. Len(Contents) = w - r
  BY <1>1, ContentsSpan, SpanType
<1>8. Fifo!Get(want)
  BY <1>2, <1>3, <1>6, <1>7 DEF Fifo!Get
<1> QED
  BY <1>1, <1>8

(***************************************************************************)
(* The fast message queue implements the bounded first-in first-out queue  *)
(* (ImplementsFifo), for every ring size, every set of messages and every  *)
(* set of read lengths: the two stores of the counters are its steps, and  *)
(* every other access to the shared memory is a stutter.                   *)
(***************************************************************************)
THEOREM FmqImplementsFifo == Spec => ImplementsFifo
<1>1. Init => Fifo!Init
  <2> SUFFICES ASSUME Init PROVE Contents = <<>>
    BY DEF Init, Fifo!Init
  <2>1. w - r = 0
    BY DEF Init
  <2> QED
    BY <2>1 DEF Contents, available_to_read
<1>2. IInv /\ [Next]_vars => [Fifo!Next]_<<Contents, msg, got>>
  <2> SUFFICES ASSUME IInv, [Next]_vars
               PROVE [Fifo!Next]_<<Contents, msg, got>>
    OBVIOUS
  <2> USE DEF Contents, available_to_read
  <2>1. ASSUME NEW n \in ReadLens, ReadCall(n) PROVE UNCHANGED <<Contents, msg, got>>
    BY <2>1 DEF ReadCall
  <2>2. ASSUME NEW m \in Messages, WriteCall(m) PROVE Fifo!Offer(m)
    BY <2>2 DEF WriteCall, Fifo!Offer
  <2>3. CASE ReadCopy
    BY <2>3 DEF ReadCopy
  <2>4. CASE ReadStore
    BY <2>4, StoreGets DEF Fifo!Next
  <2>5. CASE WriteCopy
    <3>1. UNCHANGED Contents
      BY <2>5, CopyKeepsContents
    <3> QED
      BY <2>5, <3>1 DEF WriteCopy
  <2>6. CASE WriteStore
    BY <2>6, StorePuts DEF Fifo!Next
  <2>7. ASSUME NEW e \in End,
               \/ Check(e) \/ Wake(e) \/ FutexWake(e)
               \/ Wait(e) \/ Sleep(e) \/ Interrupted(e) \/ Fails(e)
        PROVE UNCHANGED <<Contents, msg, got>>
    BY <2>7 DEF Check, Wake, FutexWake, Wait, Sleep, Interrupted, Fails
  <2>8. CASE UNCHANGED vars
    BY <2>8 DEF vars
  <2> QED
    BY <2>1, <2>2, <2>3, <2>4, <2>5, <2>6, <2>7, <2>8 DEF Next, Fifo!Next
<1> QED
  BY <1>1, <1>2, AlwaysInv, PTL DEF Spec, ImplementsFifo, Fifo!Spec
=============================================================================
