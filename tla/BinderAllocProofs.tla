------------------------- MODULE BinderAllocProofs -------------------------
(***************************************************************************)
(* Theorems about BinderAlloc, for every mapping length, request and       *)
(* sender.                                                                 *)
(***************************************************************************)
EXTENDS BinderAlloc, TLAPS

\* A request takes at least the minimum of eight bytes (the max(8) in
\* allocate).
LEMMA BufferSizePositive ==
    ASSUME NEW r \in Requests
    PROVE  BufferSize(r[1], r[2], r[3]) \in Nat \ {0}
BY AllocAssumption DEF BufferSize, Align8

\* The types, the tiling and the coalescing of the free list are inductive
\* together: GiveBack merges the right ranges only because the ranges tile
\* the mapping, and TakeFront needs no merge only because no free ranges
\* touch.
Inv ==
    /\ TypeOK
    /\ Tiled
    /\ Coalesced
    /\ ~Mapped => free = EmptyMap /\ buffers = EmptyMap /\ last = NoCall

\* Before the mapping there is no buffer and nothing to tile.
LEMMA InitInv == Init => Inv
<1> SUFFICES ASSUME Init PROVE Inv
  OBVIOUS
<1>1. TypeOK
  BY DEF Init, TypeOK, EmptyMap, NoCall
<1>2. Tiled
  BY DEF Init, Tiled, Starts, End, EmptyMap
<1>3. Coalesced
  BY DEF Init, Coalesced, EmptyMap
<1> QED
  BY <1>1, <1>2, <1>3 DEF Inv, Init, Mapped

\* mmap leaves one free range that covers the mapping.
LEMMA MapInv ==
    ASSUME Inv, NEW len \in Lens, Map(len)
    PROVE  Inv'
<1> DEFINE s == IF len < MaxMapping THEN len ELSE MaxMapping
<1>1. s \in Nat \ {0}
  BY AllocAssumption
<1>2. s \div 2 \in Nat
  BY <1>1
<1>3. /\ size' = s
      /\ free' = [o \in {0} |-> s]
      /\ buffers' = EmptyMap
      /\ freeAsync' = s \div 2
      /\ spam' = spam /\ last' = last
  BY DEF Map, Inv
<1> HIDE DEF s
<1>4. TypeOK'
  BY <1>1, <1>2, <1>3 DEF Inv, TypeOK, EmptyMap
<1>5. DOMAIN free' = {0} /\ DOMAIN buffers' = {} /\ Starts' = {0} /\ End(0)' = s
  BY <1>1, <1>3 DEF EmptyMap, Starts, End
<1>6. Tiled'
  BY <1>1, <1>3, <1>5 DEF Tiled
<1>7. Coalesced'
  BY <1>1, <1>3, <1>5 DEF Coalesced
<1> QED
  BY <1>1, <1>3, <1>4, <1>6, <1>7 DEF Inv, Mapped

\* A refused allocation changes no buffer.
LEMMA RefuseInv ==
    ASSUME Inv, Mapped, NEW sz \in Nat, NEW async \in BOOLEAN,
           NEW errno \in {"EINVAL", "ENOSPC"}, Refuse(errno, sz, async)
    PROVE  Inv'
<1>1. TypeOK'
  BY DEF Inv, TypeOK, Refuse
<1>2. Tiled' /\ Coalesced' /\ Mapped'
  BY DEF Inv, Tiled, Coalesced, Starts, End, Mapped, Refuse
<1> QED
  BY <1>1, <1>2 DEF Inv

\* Cutting a buffer off the front of a free range.
LEMMA GrantInv ==
    ASSUME Inv, Mapped,
           NEW sz \in Nat \ {0}, NEW async \in BOOLEAN, NEW sender \in Senders,
           NEW o \in DOMAIN free, free[o] >= sz, ~(async /\ freeAsync < sz),
           Grant(o, sz, async, sender)
    PROVE  Inv'
<1> DEFINE rest == IF free[o] > sz THEN {o + sz} ELSE {}
<1> USE DEF Inv
<1>0. o \in Nat /\ free[o] \in Nat /\ o \in Starts /\ End(o) = o + free[o]
  BY DEF TypeOK, Starts, End
<1>1. /\ DOMAIN free' = (DOMAIN free \ {o}) \cup rest
      /\ \A q \in DOMAIN free' :
            free'[q] = IF q \in rest THEN free[o] - sz ELSE free[q]
      /\ free' = [q \in DOMAIN free' |-> free'[q]]
  BY DEF Grant, TakeFront
<1>2. /\ DOMAIN buffers' = DOMAIN buffers \cup {o}
      /\ \A q \in DOMAIN buffers' :
            buffers'[q] = IF q = o THEN [size |-> sz, is_async |-> async,
                                        sender_pid |-> sender]
                          ELSE buffers[q]
      /\ buffers' = [q \in DOMAIN buffers' |-> buffers'[q]]
  BY DEF Grant
<1>3. size' = size
  BY DEF Grant
<1>4. TypeOK'
  <2>1. free' \in [DOMAIN free' -> Nat] /\ DOMAIN free' \subseteq Nat
    <3>1. \A q \in DOMAIN free' : q \in Nat /\ free'[q] \in Nat
      BY <1>0, <1>1 DEF TypeOK
    <3> QED
      BY <3>1, <1>1
  <2>2. buffers' \in [DOMAIN buffers' -> Buffer] /\ DOMAIN buffers' \subseteq Nat
    <3>1. \A q \in DOMAIN buffers' : q \in Nat /\ buffers'[q] \in Buffer
      BY <1>0, <1>2 DEF TypeOK, Buffer
    <3> QED
      BY <3>1, <1>2
  <2>3. freeAsync' \in Nat
    BY DEF TypeOK, Grant
  <2>4. spam' \in BOOLEAN
    BY DEF TypeOK, Grant, LowAsyncSpace, Suspect
  <2>5. last' \in [res : {"none", "ok", "EINVAL", "ENOSPC"}, size : Nat,
                   is_async : BOOLEAN, suspect : BOOLEAN]
    BY DEF Grant, Suspect
  <2> QED
    BY <1>3, <2>1, <2>2, <2>3, <2>4, <2>5 DEF TypeOK
<1>5. o \notin DOMAIN buffers /\ rest \cap Starts = {}
  BY <1>0 DEF Tiled, Starts, End, TypeOK, Coalesced
<1>6. /\ Starts' = Starts \cup rest
      /\ End(o)' = o + sz
      /\ \A q \in Starts : q # o => End(q)' = End(q)
      /\ \A q \in rest : End(q)' = End(o)
  <2>1. Starts' = Starts \cup rest
    BY <1>1, <1>2, <1>0 DEF Starts
  <2>2. o \notin DOMAIN free' /\ o \in DOMAIN buffers'
    BY <1>0, <1>1, <1>2
  <2>3. End(o)' = o + sz
    BY <2>2, <1>2 DEF End
  <2>4. \A q \in rest : End(q)' = End(o)
    BY <1>0, <1>1 DEF End
  <2>5. ASSUME NEW q \in Starts, q # o PROVE End(q)' = End(q)
    BY <1>1, <1>2, <1>5, <2>5 DEF End, Starts
  <2> QED
    BY <2>1, <2>3, <2>4, <2>5
<1> HIDE DEF rest
<1>7. Starts \subseteq Nat /\ \A q \in Starts : End(q) \in Nat
  BY DEF Starts, End, TypeOK, Buffer
<1>8. \A q \in rest : q = o + sz /\ free[o] > sz
  BY DEF rest
<1>8a. rest = {} => free[o] = sz
  BY <1>0 DEF rest
<1>9. Tiled'
  <2>1. DOMAIN free' \cap DOMAIN buffers' = {}
    BY <1>0, <1>1, <1>2, <1>5, <1>8 DEF Tiled, Starts
  <2>2. ASSUME NEW q \in Starts' PROVE q < End(q)' /\ End(q)' <= size'
    BY <1>0, <1>3, <1>6, <1>7, <1>8 DEF Tiled, TypeOK
  <2>3. ASSUME NEW p \in Starts', NEW q \in Starts', p < q PROVE End(p)' <= q
    BY <2>3, <1>0, <1>6, <1>7, <1>8 DEF Tiled, TypeOK
  <2>4. ASSUME NEW x \in 0 .. size' - 1
        PROVE  \E q \in Starts' : q <= x /\ x < End(q)'
    <3>1. PICK p \in Starts : p <= x /\ x < End(p)
      BY <1>3 DEF Tiled
    <3>2. CASE p # o
      BY <3>1, <3>2, <1>6
    <3>3. CASE p = o /\ x < o + sz
      BY <3>1, <3>3, <1>6
    <3>4. CASE p = o /\ x >= o + sz
      <4>1. rest # {}
        BY <3>1, <3>4, <1>0, <1>8a
      <4>2. o + sz \in rest
        BY <4>1, <1>8
      <4> QED
        BY <4>2, <3>1, <3>4, <1>6
    <3> QED
      BY <3>2, <3>3, <3>4, <1>0, <1>3 DEF TypeOK
  <2> QED
    BY <2>1, <2>2, <2>3, <2>4 DEF Tiled
<1>10. Coalesced'
  <2> SUFFICES ASSUME NEW q \in DOMAIN free' PROVE q + free'[q] \notin DOMAIN free'
    BY DEF Coalesced
  <2>1. CASE q \in rest
    <3>1. q + free'[q] = o + free[o]
      BY <2>1, <1>0, <1>1, <1>8
    <3>2. q + free'[q] \notin DOMAIN free
      BY <3>1 DEF Coalesced
    <3>3. q + free'[q] \notin rest
      BY <3>1, <2>1, <1>0, <1>8
    <3> QED
      BY <3>2, <3>3, <1>1
  <2>2. CASE q \notin rest
    <3>1. q \in DOMAIN free /\ q # o /\ free'[q] = free[q]
      BY <2>2, <1>1
    <3>2. q + free[q] \notin DOMAIN free
      BY <3>1 DEF Coalesced
    <3>3. q + free[q] \notin rest
      BY <3>1, <1>0, <1>8, <1>7 DEF Tiled, Starts, End, TypeOK
    <3> QED
      BY <3>1, <3>2, <3>3, <1>1
  <2> QED
    BY <2>1, <2>2
<1> QED
  BY <1>3, <1>4, <1>9, <1>10 DEF Mapped

\* Giving a buffer back and merging it with the free ranges around it.
LEMMA FreeInv ==
    ASSUME Inv, NEW o \in DOMAIN buffers, Free(o)
    PROVE  Inv'
<1> DEFINE sz == buffers[o].size
           prev == PrevFree(o)
           next == NextFree(o + sz)
           start == IF prev = {} THEN o ELSE CHOOSE p \in prev : TRUE
           end == IF next = {} THEN o + sz ELSE o + sz + free[o + sz]
<1> USE DEF Inv
<1>0. /\ o \in Nat /\ sz \in Nat /\ o \in Starts /\ o \notin DOMAIN free
      /\ End(o) = o + sz /\ sz > 0
  BY DEF TypeOK, Starts, End, Tiled, Buffer
<1>1. Mapped /\ size' = size
  BY DEF Free, EmptyMap
<1>2. Starts \subseteq Nat /\ \A q \in Starts : End(q) \in Nat
  BY DEF Starts, End, TypeOK, Buffer
<1>3. \A p \in prev : p \in DOMAIN free /\ p < o /\ p + free[p] = o
  BY DEF PrevFree
<1>4. \A p, q \in prev : p = q
  BY <1>0 DEF PrevFree, TypeOK
<1>5. start \in Nat /\ start <= o /\ (prev = {} => start = o)
      /\ (prev # {} => prev = {start} /\ start \in DOMAIN free /\ start + free[start] = o)
  BY <1>0, <1>3, <1>4 DEF TypeOK
<1>6. end \in Nat /\ o + sz <= end /\ (next = {} => end = o + sz)
      /\ (next # {} => next = {o + sz} /\ o + sz \in DOMAIN free
                       /\ end = o + sz + free[o + sz])
  BY <1>0 DEF TypeOK, NextFree
<1>7. /\ DOMAIN free' = ((DOMAIN free \ prev) \ next) \cup {start}
      /\ \A q \in DOMAIN free' :
            free'[q] = IF q = start THEN end - start ELSE free[q]
      /\ free' = [q \in DOMAIN free' |-> free'[q]]
  BY DEF Free, GiveBack
<1>8. /\ DOMAIN buffers' = DOMAIN buffers \ {o}
      /\ \A q \in DOMAIN buffers' : buffers'[q] = buffers[q]
      /\ buffers' = [q \in DOMAIN buffers' |-> buffers'[q]]
  BY DEF Free
\* No free range other than the two merged ones touches the buffer.
<1>9. \A q \in DOMAIN free : q + free[q] = o => q \in prev
  <2> SUFFICES ASSUME NEW q \in DOMAIN free, q + free[q] = o
               PROVE  q \in prev
    OBVIOUS
  <2>1. q \in Starts /\ End(q) = o /\ q < o
    BY <1>2 DEF Starts, End, Tiled
  <2>2. ASSUME NEW p \in DOMAIN free, p < o PROVE p <= q
    BY <2>1, <2>2, <1>0, <1>2 DEF Tiled, Starts, End
  <2> QED
    BY <2>1, <2>2 DEF PrevFree
<1> HIDE DEF prev, next, start, end, sz
<1>10. TypeOK'
  <2>1. free' \in [DOMAIN free' -> Nat] /\ DOMAIN free' \subseteq Nat
    <3>1. \A q \in DOMAIN free' : q \in Nat /\ free'[q] \in Nat
      BY <1>0, <1>5, <1>6, <1>7 DEF TypeOK
    <3> QED
      BY <3>1, <1>7
  <2>2. buffers' \in [DOMAIN buffers' -> Buffer] /\ DOMAIN buffers' \subseteq Nat
    BY <1>8 DEF TypeOK
  <2>3. freeAsync' \in Nat /\ spam' \in BOOLEAN
        /\ last' \in [res : {"none", "ok", "EINVAL", "ENOSPC"}, size : Nat,
                      is_async : BOOLEAN, suspect : BOOLEAN]
    BY <1>0 DEF TypeOK, Free, NoCall, sz
  <2> QED
    BY <1>1, <2>1, <2>2, <2>3 DEF TypeOK
<1>11. /\ Starts' = (Starts \ ({o} \cup next)) \cup {start}
       /\ \A q : q = start => End(q)' = end
       /\ \A q \in Starts' : q # start => q \in Starts /\ End(q)' = End(q)
  <2>1. Starts' = (Starts \ ({o} \cup next)) \cup {start}
    BY <1>0, <1>5, <1>6, <1>7, <1>8 DEF Starts, Tiled
  <2>2. ASSUME NEW q, q = start PROVE End(q)' = end
    BY <2>2, <1>5, <1>6, <1>7 DEF End
  <2>3. ASSUME NEW q \in Starts', q # start PROVE q \in Starts /\ End(q)' = End(q)
    BY <2>1, <2>3, <1>5, <1>7, <1>8 DEF End, Starts, Tiled
  <2> QED
    BY <2>1, <2>2, <2>3
<1>12. Tiled'
  <2>1. DOMAIN free' \cap DOMAIN buffers' = {}
    BY <1>5, <1>7, <1>8 DEF Tiled
  <2>2. start < end /\ end <= size
    BY <1>0, <1>2, <1>5, <1>6 DEF Tiled, Starts, End, TypeOK
  <2>3. ASSUME NEW q \in Starts' PROVE q < End(q)' /\ End(q)' <= size'
    BY <2>2, <1>1, <1>2, <1>11 DEF Tiled
  \* Every other range lies below start or above end.
  <2>4. ASSUME NEW q \in Starts', q # start PROVE End(q) <= start \/ end <= q
    <3>1. q \in Starts /\ q # o /\ q \notin next /\ q \in Nat /\ End(q) \in Nat
      BY <2>4, <1>2, <1>11, <1>5
    <3>2. End(q) <= o \/ o + sz <= q
      BY <3>1, <1>0, <1>2 DEF Tiled
    <3>3. CASE End(q) <= o
      <4>1. CASE prev = {}
        BY <3>3, <4>1, <1>5
      <4>2. CASE prev # {}
        <5>1. start \in Starts /\ End(start) = o
          BY <4>2, <1>5 DEF Starts, End
        <5> QED
          BY <5>1, <3>1, <3>3, <2>4, <1>2, <1>5 DEF Tiled
      <4> QED
        BY <4>1, <4>2
    <3>4. CASE o + sz <= q
      <4>1. CASE next = {}
        BY <3>4, <4>1, <1>6
      <4>2. CASE next # {}
        <5>1. o + sz \in Starts /\ End(o + sz) = end /\ q # o + sz
          BY <4>2, <3>1, <1>6 DEF Starts, End
        <5> QED
          BY <5>1, <3>1, <3>4, <1>0, <1>2 DEF Tiled
      <4> QED
        BY <4>1, <4>2
    <3> QED
      BY <3>2, <3>3, <3>4
  <2>5. ASSUME NEW p \in Starts', NEW q \in Starts', p < q PROVE End(p)' <= q
    <3>0. p \in Nat /\ q \in Nat
      BY <1>2, <1>5, <1>11
    <3>1. CASE p # start /\ q # start
      BY <3>1, <2>5, <1>11 DEF Tiled
    <3>2. CASE p = start
      <4>1. q # start /\ q < End(q) /\ End(q) \in Nat
        BY <3>2, <2>5, <3>0, <1>2, <1>11 DEF Tiled
      <4> QED
        BY <4>1, <3>2, <2>4, <2>5, <3>0, <1>5, <1>6, <1>11
    <3>3. CASE q = start
      <4>1. p # start /\ End(p)' = End(p) /\ End(p) \in Nat
        BY <3>3, <2>5, <3>0, <1>2, <1>11
      <4> QED
        BY <4>1, <3>3, <2>2, <2>4, <2>5, <3>0, <1>5, <1>6
    <3> QED
      BY <3>1, <3>2, <3>3
  <2>6. ASSUME NEW x \in 0 .. size' - 1
        PROVE  \E q \in Starts' : q <= x /\ x < End(q)'
    <3>1. PICK p \in Starts : p <= x /\ x < End(p)
      BY <1>1 DEF Tiled
    <3>2. CASE p \in Starts' /\ p # start
      BY <3>1, <3>2, <1>11
    <3>3. CASE p = start \/ p = o \/ p \in next
      <4>1. start <= x /\ x < end
        <5>0. x \in Int /\ p \in Nat /\ End(p) \in Nat
          BY <1>1, <1>2 DEF TypeOK
        <5>1. CASE p = o
          BY <5>0, <5>1, <3>1, <1>0, <1>5, <1>6
        <5>2. CASE p \in next
          BY <5>0, <5>2, <3>1, <1>0, <1>5, <1>6 DEF End
        <5>3. CASE p = start
          BY <5>0, <5>3, <3>1, <1>0, <1>5, <1>6 DEF End
        <5> QED
          BY <3>3, <5>1, <5>2, <5>3
      <4>2. PICK q : q = start
        OBVIOUS
      <4> QED
        BY <4>1, <4>2, <1>11
    <3> QED
      BY <3>2, <3>3, <1>11
  <2> QED
    BY <2>1, <2>3, <2>5, <2>6 DEF Tiled
<1>13. Coalesced'
  <2> SUFFICES ASSUME NEW q \in DOMAIN free', q + free'[q] \in DOMAIN free'
               PROVE  FALSE
    BY DEF Coalesced
  <2>0. /\ q \in Nat /\ free'[q] \in Nat /\ q + free'[q] \in Nat
        /\ \A p \in DOMAIN free : p \in Nat /\ free[p] \in Nat /\ free[p] > 0
    BY <1>10, <1>2 DEF TypeOK, Tiled, Starts, End
  <2>1. CASE q = start
    <3>1. q + free'[q] = end
      BY <2>1, <1>5, <1>6, <1>7
    <3>2. end # start
      BY <1>0, <1>5, <1>6
    <3>3. end \in DOMAIN free /\ end \notin next
      BY <3>1, <3>2, <1>7
    <3>4. CASE next = {}
      BY <3>3, <3>4, <1>6 DEF next, NextFree
    <3>5. CASE next # {}
      BY <3>3, <3>5, <1>6 DEF Coalesced
    <3> QED
      BY <3>4, <3>5
  <2>2. CASE q # start
    <3>1. q \in DOMAIN free /\ q \notin prev /\ free'[q] = free[q]
      BY <2>2, <1>7
    <3>2. CASE q + free[q] = start
      <4>1. CASE prev = {}
        BY <3>1, <3>2, <4>1, <1>5, <1>9
      <4>2. CASE prev # {}
        BY <3>1, <3>2, <4>2, <1>5 DEF Coalesced
      <4> QED
        BY <4>1, <4>2
    <3>3. CASE q + free[q] # start
      BY <3>1, <3>3, <1>7 DEF Coalesced
    <3> QED
      BY <3>2, <3>3
  <2> QED
    BY <2>1, <2>2
<1> QED
  BY <1>1, <1>10, <1>12, <1>13 DEF Mapped

\* Every step of the allocator keeps the invariant.
LEMMA NextInv == Inv /\ [Next]_vars => Inv'
<1> SUFFICES ASSUME Inv, [Next]_vars PROVE Inv'
  OBVIOUS
<1>1. ASSUME NEW len \in Lens, Map(len) PROVE Inv'
  BY <1>1, MapInv
<1>2. ASSUME NEW r \in Requests, NEW async \in BOOLEAN, NEW sender \in Senders,
             Allocate(r[1], r[2], r[3], async, sender)
      PROVE  Inv'
  <2> DEFINE sz == BufferSize(r[1], r[2], r[3])
  <2>0. sz \in Nat \ {0}
    BY BufferSizePositive
  <2> HIDE DEF sz
  <2>1. CASE Refuse("EINVAL", 0, async)
    BY <1>2, <2>1, RefuseInv DEF Allocate
  <2>2. CASE Refuse("ENOSPC", sz, async)
    BY <1>2, <2>0, <2>2, RefuseInv DEF Allocate
  <2>3. ASSUME NEW o \in DOMAIN free, ~NoRoom(sz, async), BestFit(o, sz),
               Grant(o, sz, async, sender)
        PROVE  Inv'
    BY <1>2, <2>0, <2>3, GrantInv DEF Allocate, NoRoom, BestFit
  <2> QED
    BY <1>2, <2>1, <2>2, <2>3 DEF Allocate, sz
<1>3. ASSUME NEW o \in DOMAIN buffers, Free(o) PROVE Inv'
  BY <1>3, FreeInv
<1>4. CASE UNCHANGED vars
  BY <1>4 DEF vars, Inv, TypeOK, Tiled, Coalesced, Starts, End, Mapped
<1> QED
  BY <1>1, <1>2, <1>3, <1>4 DEF Next

\* The allocator's variables keep their types: no request, overflowing or
\* not, drives free_async_space below zero.
THEOREM TypeCorrect == Spec => []TypeOK
<1>1. Spec => []Inv
  BY InitInv, NextInv, PTL DEF Spec
<1>2. Inv => TypeOK
  BY DEF Inv
<1> QED
  BY <1>1, <1>2, PTL

\* For every mapping and every sequence of allocate and free, free ranges and
\* buffers tile the mapping.
THEOREM AlwaysTiled == Spec => []Tiled
<1>1. Spec => []Inv
  BY InitInv, NextInv, PTL DEF Spec
<1>2. Inv => Tiled
  BY DEF Inv
<1> QED
  BY <1>1, <1>2, PTL

\* free always leaves a free list in which no two ranges touch.
THEOREM AlwaysCoalesced == Spec => []Coalesced
<1>1. Spec => []Inv
  BY InitInv, NextInv, PTL DEF Spec
<1>2. Inv => Coalesced
  BY DEF Inv
<1> QED
  BY <1>1, <1>2, PTL

-----------------------------------------------------------------------------
(* ENOSPC is honest                                                         *)

\* A gap between buffers lies inside one free range: where the range ended
\* inside the gap, another free range would have to start.
LEMMA GapInFreeRange ==
    ASSUME Inv, NEW x \in 0 .. size, NEW len \in Nat \ {0}, Gap(x, len)
    PROVE  \E o \in DOMAIN free : free[o] >= len
<1> USE DEF Inv
<1>1. size \in Nat /\ x \in 0 .. size - 1
  BY DEF TypeOK, Gap
<1>2. PICK o \in Starts : o <= x /\ x < End(o)
  BY <1>1 DEF Tiled
<1>3. \A q \in Starts : q \in Nat /\ End(q) \in Nat
  BY DEF Starts, End, TypeOK, Buffer
\* A range that meets the gap is free.
<1>4. ASSUME NEW q \in Starts, NEW y \in x .. x + len - 1, q <= y, y < End(q)
      PROVE  q \in DOMAIN free
  BY <1>1, <1>3, <1>4 DEF Gap, Starts
<1>5. o \in DOMAIN free /\ End(o) = o + free[o]
  BY <1>1, <1>2, <1>4 DEF End
<1>6. End(o) >= x + len
  <2> SUFFICES ASSUME End(o) < x + len PROVE FALSE
    BY <1>1, <1>2, <1>3
  <2>1. End(o) \in 0 .. size - 1 /\ End(o) \in x .. x + len - 1
    BY <1>1, <1>2, <1>3 DEF Gap
  <2>2. PICK q \in Starts : q <= End(o) /\ End(o) < End(q)
    BY <2>1 DEF Tiled
  <2>3. q \in DOMAIN free
    BY <2>1, <2>2, <1>4
  <2>4. q = End(o)
    <3>1. q # o /\ ~(q < o)
      BY <1>2, <1>3, <2>2 DEF Tiled
    <3>2. End(o) <= q
      BY <3>1, <1>2, <1>3 DEF Tiled
    <3> QED
      BY <3>2, <2>2, <1>2, <1>3
  <2> QED
    BY <2>3, <2>4, <1>5 DEF Coalesced
<1>7. free[o] \in Nat
  BY <1>5 DEF TypeOK
<1> QED
  BY <1>1, <1>2, <1>3, <1>5, <1>6, <1>7

EnospcInv == Inv /\ EnospcIsHonest

\* A step keeps the invariant and the honesty of refusals.
LEMMA NextEnospc == EnospcInv /\ [Next]_vars => EnospcInv'
<1> SUFFICES ASSUME Inv, EnospcIsHonest, [Next]_vars PROVE EnospcInv'
  BY DEF EnospcInv
<1>0. Inv'
  BY NextInv
<1>1. ASSUME NEW len \in Lens, Map(len) PROVE EnospcIsHonest'
  BY <1>1 DEF Map, Inv, EnospcIsHonest, NoCall
<1>2. ASSUME NEW r \in Requests, NEW async \in BOOLEAN, NEW sender \in Senders,
             Allocate(r[1], r[2], r[3], async, sender)
      PROVE  EnospcIsHonest'
  <2> DEFINE sz == BufferSize(r[1], r[2], r[3])
  <2>0. sz \in Nat \ {0}
    BY BufferSizePositive
  <2> HIDE DEF sz
  <2>1. CASE Refuse("EINVAL", 0, async)
    BY <2>1 DEF Refuse, EnospcIsHonest
  <2>2. CASE NoRoom(sz, async) /\ Refuse("ENOSPC", sz, async)
    <3>1. /\ last'.is_async = async /\ last'.size = sz
          /\ size' = size /\ free' = free /\ buffers' = buffers
      BY <2>2 DEF Refuse
    <3>2. ASSUME ~async, NEW x \in 0 .. size PROVE ~Gap(x, sz)
      BY <2>0, <2>2, <3>2, GapInFreeRange DEF NoRoom
    <3>3. \A x : Gap(x, sz)' <=> Gap(x, sz)
      BY <3>1 DEF Gap, End
    <3> QED
      BY <3>1, <3>2, <3>3 DEF EnospcIsHonest, Gap, End
  <2>3. ASSUME NEW o \in DOMAIN free, Grant(o, sz, async, sender)
        PROVE  EnospcIsHonest'
    BY <2>3 DEF Grant, EnospcIsHonest
  <2> QED
    BY <1>2, <2>1, <2>2, <2>3 DEF Allocate, sz
<1>3. ASSUME NEW o \in DOMAIN buffers, Free(o) PROVE EnospcIsHonest'
  BY <1>3 DEF Free, EnospcIsHonest, NoCall
<1>4. CASE UNCHANGED vars
  BY <1>0, <1>4 DEF vars, EnospcInv, EnospcIsHonest, Gap, End
<1> QED
  BY <1>0, <1>1, <1>2, <1>3, <1>4 DEF Next, EnospcInv

\* Best fit over the coalesced free list is complete: a two-way transaction
\* or a reply is refused for lack of space only when no gap between the
\* buffers could hold it.
THEOREM EnospcAlwaysHonest == Spec => []EnospcIsHonest
<1>1. Init => EnospcInv
  BY InitInv DEF Init, EnospcInv, EnospcIsHonest, NoCall
<1>2. Spec => []EnospcInv
  BY <1>1, NextEnospc, PTL DEF Spec
<1>3. EnospcInv => EnospcIsHonest
  BY DEF EnospcInv
<1> QED
  BY <1>2, <1>3, PTL
=============================================================================
