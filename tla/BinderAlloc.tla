---------------------------- MODULE BinderAlloc ----------------------------
(***************************************************************************)
(* The receive-buffer allocator of one binder process                      *)
(* (aim-binder-driver, alloc.rs, and Driver::mmap which creates it): best  *)
(* fit over the mapping, half of the mapping for one-way transactions, and *)
(* the one-way spam heuristic.  Every operation runs under the driver      *)
(* lock, so each is one action.                                            *)
(*                                                                         *)
(* A buffer keeps what the allocator looks at: its size, whether it is for *)
(* a one-way transaction, and who sent it.  What a buffer holds (objects,  *)
(* target node) is modelled in BinderRefs and BinderTxn.                   *)
(***************************************************************************)
EXTENDS Integers, FiniteSets, FiniteSetsExt

CONSTANTS
    U64Max,      \* the largest u64; sizes above it overflow
    MaxMapping,  \* MAX_MAPPING, 4 MiB
    SpamCount,   \* buffers one sender may hold before it is suspected (50)
    Lens,        \* lengths a process may mmap
    Requests,    \* <<data, offsets, extra>> sizes a sender may ask for
    Senders,     \* sender pids
    MaxBuffers   \* bound: buffers allocated at once

ASSUME AllocAssumption ==
    /\ U64Max \in Nat
    /\ MaxMapping \in Nat \ {0}
    /\ SpamCount \in Nat
    /\ Lens \subseteq Nat \ {0}
    /\ Requests \subseteq Nat \X Nat \X Nat
    /\ MaxBuffers \in Nat

VARIABLES
    size,       \* Allocator.size, 0 while the process has no mapping
    free,       \* free: offset -> length
    buffers,    \* buffers: offset -> [size, is_async, sender_pid]
    freeAsync,  \* free_async_space
    spam,       \* oneway_spam_detected
    last        \* what the last allocate returned

vars == <<size, free, buffers, freeAsync, spam, last>>

Buffer == [size : Nat, is_async : BOOLEAN, sender_pid : Senders]

NoCall == [res |-> "none", size |-> 0, is_async |-> FALSE, suspect |-> FALSE]

EmptyMap == [o \in {} |-> 0]

Mapped == size > 0

-----------------------------------------------------------------------------
(* Sizes                                                                    *)

Align8(v) == v + 7 - ((v + 7) % 8)

\* One of the checked_add of align8 and allocate overflows.
Overflows(data, offsets, extra) ==
    \/ \E v \in {data, offsets, extra} : v + 7 > U64Max
    \/ Align8(data) + Align8(offsets) + Align8(extra) > U64Max

BufferSize(data, offsets, extra) ==
    LET total == Align8(data) + Align8(offsets) + Align8(extra)
    IN  IF total > 8 THEN total ELSE 8

-----------------------------------------------------------------------------
(* The free list                                                            *)

\* allocate returns ENOSPC.
NoRoom(sz, async) ==
    \/ async /\ freeAsync < sz
    \/ ~\E o \in DOMAIN free : free[o] >= sz

\* The range min_by_key picks: the shortest that is long enough, the first
\* of those.
BestFit(o, sz) ==
    /\ o \in DOMAIN free
    /\ free[o] >= sz
    /\ \A q \in DOMAIN free :
          free[q] >= sz => free[o] < free[q] \/ (free[o] = free[q] /\ o <= q)

\* A variant that gives the remainder the length of the whole range.
TakeFrontWhole(o, sz) ==
    LET rest == IF free[o] > sz THEN {o + sz} ELSE {}
    IN  [q \in (DOMAIN free \ {o}) \cup rest |->
            IF q \in rest THEN free[o] ELSE free[q]]

TakeFront(o, sz) ==
    LET rest == IF free[o] > sz THEN {o + sz} ELSE {}
    IN  [q \in (DOMAIN free \ {o}) \cup rest |->
            IF q \in rest THEN free[o] - sz ELSE free[q]]

\* The free range that ends at o, if any (the range below o is the only
\* candidate the code looks at).
PrevFree(o) ==
    {p \in DOMAIN free :
        /\ p < o
        /\ \A q \in DOMAIN free : q < o => q <= p
        /\ p + free[p] = o}

\* A variant that never coalesces with the range above.
NextFreeNever(e) == {}

NextFree(e) == {e} \cap DOMAIN free

\* The free list with [o, o + sz) given back and its neighbours coalesced.
GiveBack(o, sz) ==
    LET prev  == PrevFree(o)
        next  == NextFree(o + sz)
        start == IF prev = {} THEN o ELSE CHOOSE p \in prev : TRUE
        end   == IF next = {} THEN o + sz ELSE o + sz + free[o + sz]
    IN  [q \in ((DOMAIN free \ prev) \ next) \cup {start} |->
            IF q = start THEN end - start ELSE free[q]]

-----------------------------------------------------------------------------
(* The one-way spam heuristic                                               *)

HeldBy(sender) ==
    {o \in DOMAIN buffers :
        buffers[o].is_async /\ buffers[o].sender_pid = sender}

Bytes(S) == MapThenSumSet(LAMBDA o : buffers[o].size, S)

\* low_async_space's answer, space being the async space that is left.
Suspect(sender, space) ==
    /\ space < size \div 10
    /\ \/ Cardinality(HeldBy(sender)) + 1 > SpamCount
       \/ Bytes(HeldBy(sender)) > size \div 4
    /\ ~spam

LowAsyncSpace(sender, space) ==
    spam' = IF space >= size \div 10 THEN FALSE
            ELSE spam \/ Suspect(sender, space)

-----------------------------------------------------------------------------
(* Operations                                                               *)

Init ==
    /\ size = 0
    /\ free = EmptyMap
    /\ buffers = EmptyMap
    /\ freeAsync = 0
    /\ spam = FALSE
    /\ last = NoCall

\* Driver::mmap; a second mapping fails with EBUSY and changes nothing.
Map(len) ==
    /\ ~Mapped
    /\ LET s == IF len < MaxMapping THEN len ELSE MaxMapping
       IN  /\ size' = s
           /\ free' = [o \in {0} |-> s]
           /\ freeAsync' = s \div 2
    /\ UNCHANGED <<buffers, spam, last>>

Refuse(errno, sz, async) ==
    /\ last' = [res |-> errno, size |-> sz, is_async |-> async,
                suspect |-> FALSE]
    /\ UNCHANGED <<size, free, buffers, freeAsync, spam>>

Grant(o, sz, async, sender) ==
    /\ free' = TakeFront(o, sz)
    /\ buffers' = [q \in DOMAIN buffers \cup {o} |->
                      IF q = o THEN [size |-> sz, is_async |-> async,
                                     sender_pid |-> sender]
                      ELSE buffers[q]]
    /\ IF async
       THEN /\ freeAsync' = freeAsync - sz
            /\ LowAsyncSpace(sender, freeAsync - sz)
       ELSE UNCHANGED <<freeAsync, spam>>
    /\ last' = [res |-> "ok", size |-> sz, is_async |-> async,
                suspect |-> async /\ Suspect(sender, freeAsync - sz)]
    /\ UNCHANGED size

Allocate(data, offsets, extra, async, sender) ==
    /\ Mapped
    /\ LET sz == BufferSize(data, offsets, extra)
       IN  \/ /\ Overflows(data, offsets, extra)
              /\ Refuse("EINVAL", 0, async)
           \/ /\ ~Overflows(data, offsets, extra)
              /\ NoRoom(sz, async)
              /\ Refuse("ENOSPC", sz, async)
           \/ /\ ~Overflows(data, offsets, extra)
              /\ ~NoRoom(sz, async)
              /\ \E o \in DOMAIN free :
                    BestFit(o, sz) /\ Grant(o, sz, async, sender)

\* A variant that forgets to return one-way space.
FreeKeepsAsync(o) ==
    /\ o \in DOMAIN buffers
    /\ buffers' = [q \in DOMAIN buffers \ {o} |-> buffers[q]]
    /\ free' = GiveBack(o, buffers[o].size)
    /\ last' = NoCall
    /\ UNCHANGED <<size, spam, freeAsync>>

\* Allocator::free of an allocated buffer (free_buffer looks it up first).
Free(o) ==
    /\ o \in DOMAIN buffers
    /\ buffers' = [q \in DOMAIN buffers \ {o} |-> buffers[q]]
    /\ freeAsync' = IF buffers[o].is_async THEN freeAsync + buffers[o].size
                    ELSE freeAsync
    /\ free' = GiveBack(o, buffers[o].size)
    /\ last' = NoCall
    /\ UNCHANGED <<size, spam>>

Next ==
    \/ \E len \in Lens : Map(len)
    \/ /\ Cardinality(DOMAIN buffers) < MaxBuffers
       /\ \E r \in Requests, async \in BOOLEAN, sender \in Senders :
             Allocate(r[1], r[2], r[3], async, sender)
    \/ \E o \in DOMAIN buffers : Free(o)

Spec == Init /\ [][Next]_vars

-----------------------------------------------------------------------------
(* Properties                                                               *)

\* Every variable has its type (Allocator's fields); in particular the
\* subtraction from free_async_space in allocate cannot underflow.
TypeOK ==
    /\ size \in Nat
    /\ free \in [DOMAIN free -> Nat]
    /\ DOMAIN free \subseteq Nat
    /\ buffers \in [DOMAIN buffers -> Buffer]
    /\ DOMAIN buffers \subseteq Nat
    /\ freeAsync \in Nat
    /\ spam \in BOOLEAN
    /\ last \in [res : {"none", "ok", "EINVAL", "ENOSPC"}, size : Nat,
                 is_async : BOOLEAN, suspect : BOOLEAN]

Starts == DOMAIN free \cup DOMAIN buffers

End(o) == IF o \in DOMAIN free THEN o + free[o] ELSE o + buffers[o].size

\* Free ranges and buffers tile the mapping: allocate and free never lose a
\* byte, never hand one out twice and never leave the mapping.
Tiled ==
    /\ DOMAIN free \cap DOMAIN buffers = {}
    /\ \A o \in Starts : o < End(o) /\ End(o) <= size
    /\ \A o, q \in Starts : o < q => End(o) <= q
    /\ \A x \in 0 .. size - 1 : \E o \in Starts : o <= x /\ x < End(o)

\* free coalesces with both neighbours, so no two free ranges touch.
Coalesced == \A o \in DOMAIN free : o + free[o] \notin DOMAIN free

\* free_async_space is exactly the half of the mapping that one-way buffers
\* do not use, whatever was refused, freed or freed out of order.
AsyncAccounting ==
    freeAsync + Bytes({o \in DOMAIN buffers : buffers[o].is_async})
        = size \div 2

\* A range of the mapping no buffer lies in.
Gap(x, len) ==
    /\ x + len <= size
    /\ \A o \in DOMAIN buffers : End(o) <= x \/ x + len <= o

\* allocate fails with ENOSPC for a two-way transaction or a reply only when
\* no gap between the buffers is long enough, however the mapping was
\* fragmented and coalesced before.
EnospcIsHonest ==
    last.res = "ENOSPC" /\ ~last.is_async
        => \A x \in 0 .. size : ~Gap(x, last.size)

=============================================================================
