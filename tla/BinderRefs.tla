----------------------------- MODULE BinderRefs -----------------------------
(***************************************************************************)
(* Nodes, handles and reference counts of the binder driver                *)
(* (aim-binder-driver: the "nodes" and "refs" halves of state.rs, object   *)
(* translation in transaction.rs, node work in read.rs, the reference      *)
(* commands of write.rs, thread exit and process release in release.rs,    *)
(* the context manager in driver.rs).  Every operation runs under the      *)
(* driver lock, so each is one action.                                     *)
(*                                                                         *)
(* Here a transaction is its effect on references: the local strong        *)
(* reference its buffer keeps on the target node, and the objects          *)
(* translated into the buffer.  Who waits for whom is in BinderTxn, death  *)
(* notifications are in BinderDeath.                                       *)
(*                                                                         *)
(* A process is a ProcId: behaviours begin with the device opened, which   *)
(* touches nothing else here, and a process is released at most once.      *)
(* A work queue is abstracted to where a node's work is queued             *)
(* (Node.work_queued): None, the process's list, or a thread's.            *)
(* Operators for methods that go through several states return the set of  *)
(* their one outcome, so that each state in between has a name.            *)
(***************************************************************************)
EXTENDS Integers, Sequences, FiniteSets

CONSTANTS
    Proc,       \* processes
    Tid,        \* thread ids within a process
    Ptr,        \* user pointers of a process's own objects
    NodeId,     \* node ids; an id is used once
    BufId,      \* receive buffers; bound on those allocated at once
    Euid,       \* Euid[p]: the effective uid of process p
    Parcels,    \* the pairs of objects a sender may put in a parcel (at most two)
    MaxStrong, MaxWeak, \* bounds: references a process takes on one handle
    ProcList,   \* the process's todo list, as a value of work_queued
    None

ASSUME RefsAssumption ==
    /\ IsFiniteSet(Proc) /\ IsFiniteSet(BufId) /\ IsFiniteSet(NodeId)
    /\ None \notin Proc \cup Tid \cup NodeId \cup {ProcList}
    /\ ProcList \notin Tid
    /\ MaxStrong \in Nat /\ MaxWeak \in Nat

VARIABLES
    proc,     \* per process: "open" or "released"
    node,     \* NodeId -> Node
    ref,      \* Proc -> NodeId -> Ref: a process has at most one per node
    buf,      \* BufId -> Buffer
    mgr,      \* Context.mgr_node
    mgrUid,   \* Context.mgr_uid
    lost      \* nodes whose queued work went away with its thread

vars == <<proc, node, ref, buf, mgr, mgrUid, lost>>

Unused == [st |-> "unused", proc |-> None, ptr |-> None, internal |-> 0,
           lstrong |-> 0, lweak |-> 0, refs |-> {}, has_strong |-> FALSE,
           pend_strong |-> FALSE, has_weak |-> FALSE, pend_weak |-> FALSE,
           work |-> None]

\* What a removed node leaves: its id is not used again.
Gone == [Unused EXCEPT !.st = "gone"]

NewNode(p, ptr) == [Unused EXCEPT !.st = "live", !.proc = p, !.ptr = ptr]

NoRef == [desc |-> -1, strong |-> 0, weak |-> 0]

\* A BufferRecord: Binder {node, strong} or Handle {desc, strong}.
NoRecord == [kind |-> "none", node |-> None, desc |-> -1, strong |-> FALSE]

Binder(n, strong) == [kind |-> "binder", node |-> n, desc |-> -1, strong |-> strong]

Handle(d, strong) == [kind |-> "handle", node |-> None, desc |-> d, strong |-> strong]

NoBuffer == [owner |-> None, target |-> None, objects |-> <<NoRecord, NoRecord>>]

\* The part of the driver's state the operators below compute on.
State == [node |-> node, ref |-> ref]

Holds(S, p, n) == S.ref[p][n].desc # -1

Live(S, n) == S.node[n].st = "live"

-----------------------------------------------------------------------------
(* Node counts: inc_node and dec_node, as functions of one node             *)

\* inc_node refuses the first internal strong reference of a node when no
\* thread can be told to acquire it.
IncNodeRefused(nd, strong, internal, t, isMgr) ==
    /\ strong /\ internal /\ t = None
    /\ nd.internal = 0
    /\ ~(nd.proc # None /\ isMgr /\ nd.has_strong)

\* Mutant: a thread is told of a first strong reference only when the owner
\* has no weak one either.
IncNodeQuiet(nd, strong, internal, t) ==
    [nd EXCEPT
        !.internal = IF strong /\ internal THEN @ + 1 ELSE @,
        !.lstrong  = IF strong /\ ~internal THEN @ + 1 ELSE @,
        !.lweak    = IF ~strong /\ ~internal THEN @ + 1 ELSE @,
        !.work     = IF t # None /\ ~nd.has_weak /\ nd.work = None THEN t ELSE @]

IncNode(nd, strong, internal, t) ==
    [nd EXCEPT
        !.internal = IF strong /\ internal THEN @ + 1 ELSE @,
        !.lstrong  = IF strong /\ ~internal THEN @ + 1 ELSE @,
        !.lweak    = IF ~strong /\ ~internal THEN @ + 1 ELSE @,
        !.work     = IF /\ t # None
                        /\ IF strong THEN ~nd.has_strong
                           ELSE ~nd.has_weak /\ nd.work = None
                     THEN t ELSE @]

SaturatingDec(k) == IF k > 0 THEN k - 1 ELSE 0

\* Mutant: only a strong reference of the owner holds the node.
SettleStrongOnly(nd) ==
    IF nd.proc # None /\ nd.has_strong
    THEN [nd EXCEPT !.work = IF @ = None THEN ProcList ELSE @]
    ELSE IF nd.refs = {} /\ nd.lstrong = 0 /\ nd.lweak = 0 THEN Gone ELSE nd

\* Mutant: local references do not keep a node.
SettleRefsOnly(nd) ==
    IF nd.proc # None /\ (nd.has_strong \/ nd.has_weak)
    THEN [nd EXCEPT !.work = IF @ = None THEN ProcList ELSE @]
    ELSE IF nd.refs = {} THEN Gone ELSE nd

\* The owner is told of a count that dropped to zero if it holds the node;
\* a node nobody refers to is removed.
Settle(nd) ==
    IF nd.proc # None /\ (nd.has_strong \/ nd.has_weak)
    THEN [nd EXCEPT !.work = IF @ = None THEN ProcList ELSE @]
    ELSE IF nd.refs = {} /\ nd.lstrong = 0 /\ nd.lweak = 0 THEN Gone ELSE nd

Lowered(nd, strong, internal) ==
    [nd EXCEPT !.internal = IF strong /\ internal THEN SaturatingDec(@) ELSE @,
               !.lstrong  = IF strong /\ ~internal THEN SaturatingDec(@) ELSE @,
               !.lweak    = IF ~strong /\ ~internal THEN SaturatingDec(@) ELSE @]

\* Whether dec_node goes on after lowering a count.
AtZero(nd, strong) ==
    /\ nd.st = "live"
    /\ IF strong THEN nd.lstrong = 0 /\ nd.internal = 0 ELSE nd.lweak = 0 /\ nd.refs = {}

\* dec_node, as the set of its one outcome.
DecNode(nd, strong, internal) ==
    {IF AtZero(d, strong) THEN Settle(d) ELSE d : d \in {Lowered(nd, strong, internal)}}

-----------------------------------------------------------------------------
(* Handles                                                                  *)

\* get_ref
HasRef(S, p, d, needStrong, n) ==
    Holds(S, p, n) /\ S.ref[p][n].desc = d /\ (needStrong => S.ref[p][n].strong # 0)

Descs(S, p) == {S.ref[p][n].desc : n \in {m \in NodeId : Holds(S, p, m)}}

\* Mutant: the descriptor after the number of handles.
LowestFreeCount(S, p, n) ==
    (IF mgr = n THEN 0 ELSE 1) + Cardinality(Descs(S, p) \ {0})

\* The lowest free descriptor; only the context manager may get 0.
LowestFree(S, p, n) ==
    LET first == IF mgr = n THEN 0 ELSE 1
    IN  CHOOSE d \in first .. first + Cardinality(NodeId) :
            /\ d \notin Descs(S, p)
            /\ \A e \in first .. d - 1 : e \in Descs(S, p)

CleanupRef(S, p, n) ==
    LET nds == IF S.ref[p][n].strong # 0 THEN DecNode(S.node[n], TRUE, TRUE)
               ELSE {S.node[n]}
    IN  UNION {{[S EXCEPT !.ref[p][n] = NoRef, !.node[n] = nd1] :
                   nd1 \in DecNode([nd EXCEPT !.refs = @ \ {p}], FALSE, TRUE)} : nd \in nds}

\* inc_ref_for_node makes the handle if there is none.
WithRef(S, p, n) ==
    IF Holds(S, p, n) THEN S
    ELSE [S EXCEPT !.ref[p][n] = [desc |-> LowestFree(S, p, n), strong |-> 0, weak |-> 0],
                   !.node[n].refs = @ \cup {p}]

Count(r, strong) == IF strong THEN r.strong ELSE r.weak

\* inc_ref, which tells the node of a first reference of its kind.
IncRef(S, p, n, strong, t) ==
    [S EXCEPT !.node[n] = IF Count(S.ref[p][n], strong) = 0 THEN IncNode(@, strong, TRUE, t)
                          ELSE @,
              !.ref[p][n] = IF strong THEN [@ EXCEPT !.strong = @ + 1]
                            ELSE [@ EXCEPT !.weak = @ + 1]]

\* inc_ref_for_node; ok is FALSE when inc_node refuses, and then a handle just
\* made is cleaned up.
IncRefForNode(S0, p, n, strong, t) ==
    UNION {IF /\ Count(S.ref[p][n], strong) = 0
              /\ IncNodeRefused(S.node[n], strong, TRUE, t, mgr = n)
           THEN [ok : {FALSE}, S : IF Holds(S0, p, n) THEN {S} ELSE CleanupRef(S, p, n)]
           ELSE {[ok |-> TRUE, S |-> IncRef(S, p, n, strong, t)]} : S \in {WithRef(S0, p, n)}}

\* dec_ref lowers a count of the handle and, with the last strong one, the
\* node's.
Less(S, p, n, strong) ==
    {[S EXCEPT !.ref[p][n] = IF strong THEN [@ EXCEPT !.strong = @ - 1]
                             ELSE [@ EXCEPT !.weak = @ - 1],
               !.node[n] = nd] :
        nd \in IF strong /\ S.ref[p][n].strong = 1 THEN DecNode(S.node[n], TRUE, TRUE)
               ELSE {S.node[n]}}

\* dec_ref of the handle p holds for n; the handle goes when both counts do.
DecRef(S, p, n, strong) ==
    IF Count(S.ref[p][n], strong) = 0 THEN {S}
    ELSE UNION {IF S1.ref[p][n].strong = 0 /\ S1.ref[p][n].weak = 0
                THEN CleanupRef(S1, p, n)
                ELSE {S1} : S1 \in Less(S, p, n, strong)}

\* dec_ref by descriptor, on whatever node the descriptor now stands for.
DecDesc(S, p, d, strong) ==
    LET at == {n \in NodeId : HasRef(S, p, d, FALSE, n)}
    IN  IF at = {} THEN {S} ELSE UNION {DecRef(S, p, n, strong) : n \in at}

-----------------------------------------------------------------------------
(* Objects of a parcel                                                      *)

\* new_node: the node of p at ptr, or an unused id that becomes it.
NodeAt(S, p, ptr) ==
    LET at == {n \in NodeId : Live(S, n) /\ S.node[n].proc = p /\ S.node[n].ptr = ptr}
    IN  IF at # {} THEN CHOOSE n \in at : TRUE
        ELSE CHOOSE n \in NodeId : S.node[n].st = "unused"

WithNode(S, p, ptr) ==
    LET n == NodeAt(S, p, ptr)
    IN  IF Live(S, n) THEN S ELSE [S EXCEPT !.node[n] = NewNode(p, ptr)]

\* The receiver q gets a handle for n.
AsHandle(S, q, n, strong, t) ==
    {[ok |-> inc.ok, S |-> inc.S,
      rec |-> IF inc.ok THEN Handle(inc.S.ref[q][n].desc, strong) ELSE NoRecord] :
        inc \in IncRefForNode(S, q, n, strong, t)}

\* An own object becomes a handle of the receiver q.
TranslateBinder(S, p, t, q, o) ==
    UNION {AsHandle(S1, q, NodeAt(S, p, o.ptr), o.strong, t) : S1 \in {WithNode(S, p, o.ptr)}}

\* A handle becomes the owner's object when it goes home, otherwise a handle
\* of the receiver q for the same node.
TranslateHandle(S, p, q, o) ==
    LET at == {n \in NodeId : HasRef(S, p, o.desc, o.strong, n)}
    IN  IF at = {} THEN {[ok |-> FALSE, S |-> S, rec |-> NoRecord]}
        ELSE UNION {IF S.node[n].proc = q
                    THEN {[ok |-> TRUE, rec |-> Binder(n, o.strong),
                           S |-> [S EXCEPT !.node[n] = IncNode(@, o.strong, FALSE, None)]]}
                    ELSE AsHandle(S, q, n, o.strong, None) : n \in at}

Translate(S, p, t, q, o) ==
    CASE o.kind = "binder" -> TranslateBinder(S, p, t, q, o)
      [] o.kind = "handle" -> TranslateHandle(S, p, q, o)
      [] o.kind = "none"   -> {[ok |-> TRUE, S |-> S, rec |-> NoRecord]}

\* The object loop of copy_transaction: it stops at the first object it
\* cannot translate and leaves what was translated before in the buffer.
CopyObjects(S, p, t, q, os) ==
    UNION {IF ~one.ok
           THEN {[ok |-> FALSE, S |-> one.S, objects |-> <<NoRecord, NoRecord>>]}
           ELSE {[ok |-> two.ok, S |-> two.S, objects |-> <<one.rec, two.rec>>] :
                    two \in Translate(one.S, p, t, q, os[2])} :
              one \in Translate(S, p, t, q, os[1])}

\* Bound: new_node always succeeds, so a parcel is sent only while enough ids
\* are unused.
IdsSuffice(p, os) ==
    LET ptrs == {os[i].ptr : i \in {j \in 1..2 : os[j].kind = "binder"}}
        new == {a \in ptrs : ~\E n \in NodeId : node[n].st = "live" /\ node[n].proc = p
                                                /\ node[n].ptr = a}
    IN  Cardinality(new) <= Cardinality({n \in NodeId : node[n].st = "unused"})

\* A local reference on n is given back.
Unpin(S, n, strong) == {[S EXCEPT !.node[n] = nd] : nd \in DecNode(S.node[n], strong, FALSE)}

ReleaseObject(S, q, r) ==
    CASE r.kind = "binder" -> Unpin(S, r.node, r.strong)
      [] r.kind = "handle" -> DecDesc(S, q, r.desc, r.strong)
      [] r.kind = "none"   -> {S}

\* Mutant: the objects of the buffer are not released.
ReleaseBufferTarget(S, q, target, objects) ==
    IF target = None THEN {S} ELSE Unpin(S, target, TRUE)

\* The reference half of free_buffer.
ReleaseBuffer(S, q, target, objects) ==
    UNION {UNION {ReleaseObject(S2, q, objects[2]) : S2 \in ReleaseObject(S1, q, objects[1])} :
              S1 \in IF target = None THEN {S} ELSE Unpin(S, target, TRUE)}

-----------------------------------------------------------------------------
(* The operations                                                           *)

Become(S) == node' = S.node /\ ref' = S.ref

\* set_context_manager: EBUSY while there is one; EPERM for another uid than
\* the first that succeeded in claiming the role.
SetContextManager(p, ptr) ==
    LET S == WithNode(State, p, ptr)
        n == NodeAt(State, p, ptr)
    IN  /\ proc[p] = "open"
        /\ mgr = None
        /\ mgrUid \in {None, Euid[p]}
        /\ IdsSuffice(p, <<[kind |-> "binder", ptr |-> ptr], [kind |-> "none"]>>)
        /\ mgrUid' = Euid[p]
        /\ mgr' = n
        /\ Become([S EXCEPT !.node[n].lweak = @ + 1, !.node[n].lstrong = @ + 1,
                            !.node[n].has_strong = TRUE, !.node[n].has_weak = TRUE])
        /\ UNCHANGED <<proc, buf, lost>>

\* The node a transaction to handle d goes to.
Target(p, d, n) == IF d = 0 THEN mgr = n ELSE HasRef(State, p, d, TRUE, n)

\* BC_TRANSACTION to handle d that ends before its objects are looked at: it
\* is addressed to the sender itself, or the receiver's allocator refuses.
RefusedTransaction(p, d) ==
    /\ proc[p] = "open"
    /\ \E n \in NodeId :
          /\ Target(p, d, n)
          /\ node[n].proc # None
          /\ \E nd \in DecNode(IncNode(node[n], TRUE, FALSE, None), TRUE, FALSE) :
                node' = [node EXCEPT ![n] = nd]
    /\ UNCHANGED <<proc, ref, buf, mgr, mgrUid, lost>>

\* copy_transaction into a buffer of q, which either receives the copy or is
\* freed again; the copy may also fail after its objects were translated
\* (user memory, files, fixups: `torn`).
Copy(S, p, t, q, n, os, torn) ==
    /\ \E b \in BufId : buf[b].owner = None
    /\ IdsSuffice(p, os)
    /\ \E copy \in CopyObjects(S, p, t, q, os) :
          \/ /\ copy.ok /\ ~torn
             /\ Become(copy.S)
             /\ \E b \in BufId :
                   /\ buf[b].owner = None
                   /\ buf' = [buf EXCEPT ![b] = [owner |-> q, target |-> n,
                                                 objects |-> copy.objects]]
          \/ /\ ~copy.ok \/ torn
             /\ \E S1 \in ReleaseBuffer(copy.S, q, n, copy.objects) : Become(S1)
             /\ UNCHANGED buf
    /\ UNCHANGED <<proc, mgr, mgrUid, lost>>

\* BC_TRANSACTION to handle d carrying the objects os.
Transaction(p, t, d, os, torn) ==
    /\ proc[p] = "open"
    /\ \E n \in NodeId :
          /\ Target(p, d, n)
          /\ node[n].proc \notin {None, p}
          /\ \E S \in {[State EXCEPT !.node[n] = IncNode(@, TRUE, FALSE, None)]} :
                Copy(S, p, t, node[n].proc, n, os, torn)

\* BC_REPLY to a thread of q, which called p: like a transaction, without a
\* target node.  Which calls p may answer is BinderTxn's matter.
Reply(p, t, q, os, torn) ==
    /\ proc[p] = "open" /\ proc[q] = "open" /\ p # q
    /\ Copy(State, p, t, q, None, os, torn)

\* free_buffer: BC_FREE_BUFFER, or the driver giving up a delivery.
FreeBuffer(b) ==
    /\ buf[b].owner # None
    /\ \E S \in ReleaseBuffer(State, buf[b].owner, buf[b].target, buf[b].objects) : Become(S)
    /\ buf' = [buf EXCEPT ![b] = NoBuffer]
    /\ UNCHANGED <<proc, mgr, mgrUid, lost>>

\* BC_INCREFS and BC_ACQUIRE.  Handle 0 means the current context manager,
\* whether or not p has a handle for it.
IncHandle(p, d, strong) ==
    LET toMgr == d = 0 /\ mgr # None
        Room(n) == Count(ref[p][n], strong) < IF strong THEN MaxStrong ELSE MaxWeak
    IN  /\ proc[p] = "open"
        /\ toMgr => node[mgr].proc # p
        /\ \E inc \in IF toMgr THEN IncRefForNode(State, p, mgr, strong, None)
                      ELSE {[ok |-> FALSE, S |-> State]} :
              IF inc.ok THEN Room(mgr) /\ Become(inc.S)
              ELSE \E n \in NodeId :
                      /\ HasRef(inc.S, p, d, strong, n)
                      /\ Room(n)
                      /\ \E again \in IncRefForNode(inc.S, p, n, strong, None) : Become(again.S)
        /\ UNCHANGED <<proc, buf, mgr, mgrUid, lost>>

\* BC_RELEASE and BC_DECREFS.
DecHandle(p, d, strong) ==
    /\ proc[p] = "open"
    /\ \E n \in NodeId : /\ HasRef(State, p, d, strong, n)
                         /\ \E S \in DecRef(State, p, n, strong) : Become(S)
    /\ UNCHANGED <<proc, buf, mgr, mgrUid, lost>>

\* BC_INCREFS_DONE and BC_ACQUIRE_DONE.
Done(n, strong) ==
    /\ node[n].st = "live" /\ node[n].proc # None
    /\ IF strong THEN node[n].pend_strong ELSE node[n].pend_weak
    /\ \E nd \in DecNode(IF strong THEN [node[n] EXCEPT !.pend_strong = FALSE]
                         ELSE [node[n] EXCEPT !.pend_weak = FALSE], strong, FALSE) :
          node' = [node EXCEPT ![n] = nd]
    /\ UNCHANGED <<proc, ref, buf, mgr, mgrUid, lost>>

\* Mutant: local strong references are forgotten.
NodeWorkInternalOnly(nd) ==
    LET strong == nd.internal # 0
        weak   == nd.refs # {} \/ nd.lweak # 0 \/ strong
        tellS  == strong /\ ~nd.has_strong
        tellW  == weak /\ ~nd.has_weak
    IN  IF ~weak THEN Gone
        ELSE [nd EXCEPT !.work = None,
                        !.has_strong = strong,
                        !.has_weak = weak,
                        !.pend_strong = @ \/ tellS,
                        !.pend_weak = @ \/ tellW,
                        !.lstrong = IF tellS THEN @ + 1 ELSE @,
                        !.lweak = IF tellW THEN @ + 1 ELSE @]

\* node_work: BR_INCREFS, BR_ACQUIRE, BR_RELEASE, BR_DECREFS as needed.
NodeWork(nd) ==
    LET strong == nd.internal # 0 \/ nd.lstrong # 0
        weak   == nd.refs # {} \/ nd.lweak # 0 \/ strong
        tellS  == strong /\ ~nd.has_strong
        tellW  == weak /\ ~nd.has_weak
    IN  IF ~weak THEN Gone
        ELSE [nd EXCEPT !.work = None,
                        !.has_strong = strong,
                        !.has_weak = weak,
                        !.pend_strong = @ \/ tellS,
                        !.pend_weak = @ \/ tellW,
                        !.lstrong = IF tellS THEN @ + 1 ELSE @,
                        !.lweak = IF tellW THEN @ + 1 ELSE @]

\* A thread of the owner reads the node's work from its own list or from the
\* process's.
ReadNode(n) ==
    /\ node[n].st = "live" /\ node[n].work # None
    /\ node' = [node EXCEPT ![n] = NodeWork(@)]
    /\ lost' = lost \ {n}
    /\ UNCHANGED <<proc, ref, buf, mgr, mgrUid>>

\* thread_release: the node work queued on the thread goes with it.
ThreadExit(p, t) ==
    LET dropped == {n \in NodeId : node[n].proc = p /\ node[n].work = t}
    IN  /\ dropped # {}
        /\ node' = [n \in NodeId |-> IF n \in dropped THEN [node[n] EXCEPT !.work = None]
                                     ELSE node[n]]
        /\ lost' = lost \cup dropped
        /\ UNCHANGED <<proc, ref, buf, mgr, mgrUid>>

\* node_release: the owner is gone; holders keep the node as a dead node.
NodeRelease(nd) ==
    IF nd.refs = {} THEN Gone
    ELSE [nd EXCEPT !.proc = None, !.work = None, !.lstrong = 0, !.lweak = 0]

\* release_proc: the manager role, the threads, the nodes, then the handles;
\* the buffers go with the process.
ReleaseProc(p) ==
    LET own == {n \in NodeId : node[n].proc = p}
        dead == [n \in NodeId |-> IF n \in own THEN NodeRelease(node[n]) ELSE node[n]]
    IN  /\ proc[p] = "open"
        /\ proc' = [proc EXCEPT ![p] = "released"]
        /\ mgr' = IF mgr \in own THEN None ELSE mgr
        /\ \E S \in {[node |-> dead, ref |-> ref]} :
              node' = [n \in NodeId |->
                          IF Holds(S, p, n) THEN (CHOOSE S1 \in CleanupRef(S, p, n) : TRUE).node[n]
                          ELSE S.node[n]]
        /\ ref' = [ref EXCEPT ![p] = [n \in NodeId |-> NoRef]]
        /\ buf' = [b \in BufId |-> IF buf[b].owner = p THEN NoBuffer ELSE buf[b]]
        /\ lost' = lost \ own
        /\ UNCHANGED mgrUid

Init ==
    /\ proc = [p \in Proc |-> "open"]
    /\ node = [n \in NodeId |-> Unused]
    /\ ref = [p \in Proc |-> [n \in NodeId |-> NoRef]]
    /\ buf = [b \in BufId |-> NoBuffer]
    /\ mgr = None /\ mgrUid = None
    /\ lost = {}

Desc == 0 .. Cardinality(NodeId)

Next ==
    \/ \E p \in Proc : ReleaseProc(p)
    \/ \E p \in Proc, a \in Ptr : SetContextManager(p, a)
    \/ \E p \in Proc, t \in Tid : ThreadExit(p, t)
    \/ \E p \in Proc, t \in Tid, os \in Parcels, torn \in BOOLEAN :
          \/ \E d \in Desc : Transaction(p, t, d, os, torn)
          \/ \E q \in Proc : Reply(p, t, q, os, torn)
    \/ \E p \in Proc, d \in Desc : RefusedTransaction(p, d)
    \/ \E b \in BufId : FreeBuffer(b)
    \/ \E p \in Proc, d \in Desc, strong \in BOOLEAN :
          IncHandle(p, d, strong) \/ DecHandle(p, d, strong)
    \/ \E n \in NodeId, strong \in BOOLEAN : Done(n, strong)
    \/ \E n \in NodeId : ReadNode(n)

Spec == Init /\ [][Next]_vars

-----------------------------------------------------------------------------
(* Properties                                                               *)

Record == [kind : {"none", "binder", "handle"}, node : NodeId \cup {None},
           desc : Nat \cup {-1}, strong : BOOLEAN]

\* The type invariant.
TypeOK ==
    /\ proc \in [Proc -> {"open", "released"}]
    /\ node \in [NodeId ->
          [st : {"unused", "live", "gone"}, proc : Proc \cup {None}, ptr : Ptr \cup {None},
           internal : Nat, lstrong : Nat, lweak : Nat, refs : SUBSET Proc,
           has_strong : BOOLEAN, pend_strong : BOOLEAN, has_weak : BOOLEAN,
           pend_weak : BOOLEAN, work : Tid \cup {None, ProcList}]]
    /\ ref \in [Proc -> [NodeId -> [desc : Nat \cup {-1}, strong : Nat, weak : Nat]]]
    /\ buf \in [BufId -> [owner : Proc \cup {None}, target : NodeId \cup {None},
                          objects : Record \X Record]]
    /\ mgr \in NodeId \cup {None}
    /\ mgrUid \in {Euid[p] : p \in Proc} \cup {None}
    /\ lost \subseteq NodeId

\* The two tables agree.  The node a handle names exists: the driver indexes
\* nodes with it.  A node's `refs` are exactly the processes with a handle for
\* it, each handle counts something, no descriptor of a process names two
\* nodes, and no process holds a handle to its own object.
HandlesNameNodes ==
    \A p \in Proc, n \in NodeId :
        /\ p \in node[n].refs <=> Holds(State, p, n)
        /\ Holds(State, p, n) =>
              /\ proc[p] = "open"
              /\ node[n].st = "live" /\ node[n].proc # p
              /\ ref[p][n].strong + ref[p][n].weak > 0
              /\ \A m \in NodeId : HasRef(State, p, ref[p][n].desc, FALSE, m) => m = n

\* The node a buffer was addressed to, and the objects it brought home, exist
\* until the buffer is freed and belong to the buffer's owner; so does the
\* context manager's node.  (A transaction whose node is gone would be read as
\* a reply: deliver_transaction.)
BuffersPinNodes ==
    /\ \A b \in BufId, n \in NodeId :
          (buf[b].target = n \/ \E i \in 1..2 : buf[b].objects[i].node = n) =>
              node[n].st = "live" /\ node[n].proc = buf[b].owner
    /\ mgr # None => node[mgr].st = "live" /\ node[mgr].proc # None

One(c) == IF c THEN 1 ELSE 0

Slots(n, strong) ==
    {s \in BufId \X (1..2) : LET r == buf[s[1]].objects[s[2]]
                             IN  r.kind = "binder" /\ r.node = n /\ r.strong = strong}

\* Every count is what it counts: internal strong references are the processes
\* with a strong handle, local ones the buffers, the unacknowledged BR_ACQUIRE
\* or BR_INCREFS, and the context manager's own.  In particular no
\* saturating_sub of dec_node ever saturates.
CountsExact ==
    /\ TypeOK
    /\ \A n \in NodeId :
        /\ node[n].internal = Cardinality({p \in Proc : ref[p][n].strong > 0})
        /\ node[n].proc # None =>
              /\ node[n].lstrong = Cardinality({b \in BufId : buf[b].target = n})
                                   + Cardinality(Slots(n, TRUE))
                                   + One(node[n].pend_strong) + One(mgr = n)
              /\ node[n].lweak = Cardinality(Slots(n, FALSE))
                                 + One(node[n].pend_weak) + One(mgr = n)

Strong(n) == node[n].internal + node[n].lstrong > 0

Weak(n) == node[n].refs # {} \/ node[n].lweak > 0 \/ Strong(n)

\* The owner learns what it must: while what it was told (has_strong_ref,
\* has_weak_ref) differs from what is so, node work is queued.  The exception
\* is work lost with the thread it was queued on.
OwnerTold ==
    \A n \in NodeId :
        node[n].proc # None /\ n \notin lost =>
            \/ node[n].work # None
            \/ node[n].has_strong = Strong(n) /\ node[n].has_weak = Weak(n)

\* BR_RELEASE is sound: when a living owner is told nobody holds its object
\* strongly, no process has a strong handle and no buffer of the owner is
\* addressed to it or carries it.
ReleaseIsSound ==
    [][\A n \in NodeId :
          node[n].has_strong /\ ~node'[n].has_strong /\ node[n].proc # None
          /\ proc'[node[n].proc] = "open" =>
             /\ \A p \in Proc : ref[p][n].strong = 0
             /\ \A b \in BufId : buf[b].target # n
             /\ Slots(n, TRUE) = {}]_vars

\* A node goes silently only if its owner never heard of it: a node the owner
\* was told to keep goes only in answer to the node work that also tells the
\* owner to let go, or with the owner.
NoSilentRemoval ==
    [][\A n \in NodeId :
          node[n].st = "live" /\ node'[n].st = "gone" /\ node[n].proc # None
          /\ (node[n].has_strong \/ node[n].has_weak) =>
             \/ proc'[node[n].proc] = "released"
             \/ node[n].work # None /\ ~Weak(n)]_vars
=============================================================================
