------------------------------ MODULE BinderTxn ------------------------------
(***************************************************************************)
(* Transactions of the binder driver (aim-binder-driver: transaction.rs,   *)
(* deliver_transaction of read.rs, thread and process release of           *)
(* release.rs, reject_delivery of driver.rs): transaction stacks, nested   *)
(* calls, replies and failed replies, one-way queues, receive buffers.     *)
(*                                                                         *)
(* Every operation runs under the driver lock and is one action.  A read   *)
(* pass may end after any item (the read buffer is full), so one item read *)
(* is one action.  Each process owns one object, named by the process, and *)
(* every process can call it: who holds handles is BinderRefs' matter.     *)
(* Which idle thread select_thread takes, or none, is left open here;      *)
(* BinderWait models waiting_threads and the wakes.                        *)
(***************************************************************************)
EXTENDS Integers, Sequences, FiniteSets, SequencesExt

CONSTANTS
    Proc,       \* processes, each with one node
    Thread,     \* threads (guest tids) ...
    ProcOf,     \* ... and their processes
    TxnId,      \* 1..n: transaction ids; an id is reused once nothing has it
    BufId,      \* 1..n: the receive buffers that may be allocated at once
    Calls,      \* <<thread, process>>: the synchronous calls threads make
    OneWays,    \* <<thread, process, torn>>: the one-way calls they make
    Fails,      \* the threads whose commands and deliveries may fail
    MaxTodo,    \* bound: items a thread leaves unread before it writes again
    None

ASSUME TxnAssumption ==
    /\ ProcOf \in [Thread -> Proc]
    /\ TxnId \subseteq Nat /\ BufId \subseteq Nat /\ MaxTodo \in Nat
    /\ None \notin Proc \cup Thread \cup TxnId \cup BufId

VARIABLES
    alive,   \* the processes that have the device open
    thr,     \* Thread -> its transaction_stack, todo and error slots
    txn,     \* TxnId -> Txn, or NoTxn
    buf,     \* BufId -> Buffer, or NoBuf
    ptodo,   \* Proc -> the process's todo list
    async,   \* Proc -> has_async_transaction and async_todo of its node
    out,     \* Proc -> outstanding_txns
    stuck    \* nodes whose running one-way call went away with its thread

vars == <<alive, thr, txn, buf, ptodo, async, out, stuck>>

NoThread == [up |-> FALSE, stack |-> None, todo |-> <<>>,
             return_error |-> FALSE, reply_error |-> FALSE]

NoTxn == [live |-> FALSE, from |-> None, from_parent |-> None, to_proc |-> None,
          to_thread |-> None, to_parent |-> None, node |-> None, oneway |-> FALSE,
          buffer |-> None]

NoBuf == [owner |-> None, node |-> None, async |-> FALSE, txn |-> None,
          user_free |-> FALSE, delivery |-> None]

\* Work items: a transaction, BR_TRANSACTION_COMPLETE, an error in a slot.
Txn(id) == [k |-> "txn", id |-> id]

Complete == [k |-> "complete", id |-> None]

Error(slot) == [k |-> slot, id |-> None]

\* The state the operators below compute on.
State == [thr |-> thr, txn |-> txn, buf |-> buf, ptodo |-> ptodo, async |-> async,
          out |-> out]

Become(S) ==
    /\ thr' = S.thr /\ txn' = S.txn /\ buf' = S.buf
    /\ ptodo' = S.ptodo /\ async' = S.async /\ out' = S.out

Up(S, t) == t # None /\ S.thr[t].up

EnqueueThread(S, t, w) ==
    IF Up(S, t) THEN [S EXCEPT !.thr[t].todo = Append(@, w)] ELSE S

-----------------------------------------------------------------------------
(* Transactions                                                             *)

\* Mutant: the buffer is not told.
FreeTransactionsOnly(S, ids) ==
    LET live == {i \in ids : S.txn[i].live}
        To(p) == {i \in live : S.txn[i].to_proc = p}
    IN  [S EXCEPT
          !.txn = [i \in TxnId |-> IF i \in live THEN NoTxn ELSE @[i]],
          !.out = [p \in Proc |-> IF @[p] > Cardinality(To(p))
                                  THEN @[p] - Cardinality(To(p)) ELSE 0]]

\* free_transaction, of each of the transactions ids.
FreeTransactions(S, ids) ==
    LET live == {i \in ids : S.txn[i].live}
        To(p) == {i \in live : S.txn[i].to_proc = p}
    IN  [S EXCEPT
          !.txn = [i \in TxnId |-> IF i \in live THEN NoTxn ELSE @[i]],
          !.out = [p \in Proc |-> IF @[p] > Cardinality(To(p))
                                  THEN @[p] - Cardinality(To(p)) ELSE 0],
          !.buf = [b \in BufId |->
                     IF \E i \in live : S.txn[i].buffer = b /\ S.txn[i].to_proc # None
                     THEN [@[b] EXCEPT !.txn = None, !.delivery = None] ELSE @[b]]]

FreeTransaction(S, id) == FreeTransactions(S, {id})

PopTransaction(S, t, id) ==
    [S EXCEPT !.thr[t].stack = IF @ = id THEN S.txn[id].from_parent ELSE @,
              !.txn[id].from = None]

\* What is reached from the ids in `start` by applying Follow again and again.
Reach(start, Follow(_)) ==
    LET at[k \in 0 .. Cardinality(TxnId)] ==
            IF k = 0 THEN start \ {None}
            ELSE UNION {{i, Follow(i)} \ {None} : i \in at[k - 1]}
    IN  at[Cardinality(TxnId)]

\* Where send_failed_reply goes from i: up the callers' chain, unless i is gone
\* or its caller still exists.
NextFailed(S, i) ==
    IF ~S.txn[i].live \/ Up(S, S.txn[i].from) THEN None ELSE S.txn[i].from_parent

FailedChain(S, id) == Reach({id}, LAMBDA i : NextFailed(S, i))

\* Mutant: the failed call stays on the caller's stack.
TellCallerNoPop(S, i) ==
    LET t == S.txn[i].from
    IN  IF ~Up(S, t) THEN S
        ELSE [S EXCEPT
                !.thr[t].reply_error = TRUE,
                !.thr[t].todo = IF S.thr[t].reply_error THEN @ ELSE Append(@, Error("reply"))]

\* The caller of i, if there is one, is told once: a reply error already
\* pending stands for this one.
TellCaller(S, i) ==
    LET t == S.txn[i].from
    IN  IF ~Up(S, t) THEN S
        ELSE [S EXCEPT
                !.thr[t].stack = IF @ = i THEN S.txn[i].from_parent ELSE @,
                !.thr[t].reply_error = TRUE,
                !.thr[t].todo = IF S.thr[t].reply_error THEN @ ELSE Append(@, Error("reply"))]

\* Mutant: the failure goes no further than the call itself.
SendFailedReplyNoClimb(S, id) == FreeTransactions(TellCaller(S, id), {id})

SendFailedReply(S, id) ==
    LET last == CHOOSE i \in FailedChain(S, id) : NextFailed(S, i) = None
    IN  FreeTransactions(TellCaller(S, last), FailedChain(S, id))

CleanupTransaction(S, id) ==
    IF ~S.txn[id].live THEN S
    ELSE IF S.txn[id].node # None /\ ~S.txn[id].oneway THEN SendFailedReply(S, id)
         ELSE FreeTransaction(S, id)

\* release_work, of which only transactions matter here.
ReleaseWork(S, todo) ==
    FoldLeft(LAMBDA R, w : CleanupTransaction(R, w.id), S,
             SelectSeq(todo, LAMBDA w : w.k = "txn"))

\* Mutant: the node is free again, its queue is not looked at.
FreeBufNoNext(S, b) ==
    LET x == S.buf[b]
    IN  [S EXCEPT
          !.buf[b] = NoBuf,
          !.txn = IF x.txn = None THEN @ ELSE [@ EXCEPT ![x.txn].buffer = None],
          !.async = IF ~x.async \/ x.node = None THEN @
                    ELSE [@ EXCEPT ![x.node].busy = FALSE]]

\* free_buffer: the transaction loses the buffer, the node's next one-way
\* transaction is started.
FreeBuf(S, b) ==
    LET x == S.buf[b]
        q == x.owner
    IN  [S EXCEPT
          !.buf[b] = NoBuf,
          !.txn = IF x.txn = None THEN @ ELSE [@ EXCEPT ![x.txn].buffer = None],
          !.async = IF ~x.async \/ x.node = None THEN @
                    ELSE [@ EXCEPT ![x.node] =
                            IF @.todo = <<>> THEN [@ EXCEPT !.busy = FALSE]
                            ELSE [@ EXCEPT !.todo = Tail(@)]],
          !.ptodo[q] = IF x.async /\ x.node # None /\ S.async[x.node].todo # <<>>
                       THEN Append(@, Txn(Head(S.async[x.node].todo))) ELSE @]

\* The ids and buffers a new transaction may take.
Mentioned ==
    {i \in TxnId :
        \/ txn[i].live
        \/ \E t \in Thread : thr[t].stack = i \/ Txn(i) \in Range(thr[t].todo)
        \/ \E p \in Proc : Txn(i) \in Range(ptodo[p]) \/ i \in Range(async[p].todo)
        \/ \E j \in TxnId : txn[j].from_parent = i \/ txn[j].to_parent = i
        \/ \E b \in BufId : buf[b].txn = i
               \/ (buf[b].delivery # None /\ buf[b].delivery[2] = i)}

Fresh(used, all) == CHOOSE i \in all \ used : \A j \in all \ used : i <= j

FreshTxn == Fresh(Mentioned, TxnId)

FreshBuf == Fresh({b \in BufId : buf[b] # NoBuf}, BufId)

Room == \E b \in BufId : buf[b] = NoBuf

\* A transaction of thread t with the buffer it fills, before it is queued.
Allocate(S, id, b, t, q, n, oneway, reply, target) ==
    [S EXCEPT !.txn[id] =
                 [live |-> TRUE, from |-> IF reply \/ oneway THEN None ELSE t,
                  from_parent |-> None, to_proc |-> q, to_thread |-> target,
                  to_parent |-> None, node |-> n, oneway |-> oneway, buffer |-> b],
              !.buf[b] =
                 [owner |-> q, node |-> n, async |-> oneway, txn |-> id,
                  user_free |-> FALSE, delivery |-> None]]

\* abort_transaction: the record goes, then the buffer.
Abort(S, id, b) ==
    FreeBuf([S EXCEPT !.txn[id] = NoTxn], b)

-----------------------------------------------------------------------------
(* Commands a thread writes                                                 *)

\* The write stream stops while a return error is pending.  MaxTodo bounds
\* what a thread leaves unread.
CanWrite(t) == thr[t].up /\ ~thr[t].return_error /\ Len(thr[t].todo) < MaxTodo

\* A failed command: the error is the thread's next return.
Fail(S, t) == EnqueueThread([S EXCEPT !.thr[t].return_error = TRUE], t, Error("return"))

\* select_thread: an idle thread of q that waits for process work, or none.
Selectable(q) ==
    {None} \cup {t \in Thread : /\ ProcOf[t] = q /\ thr[t].up
                                /\ thr[t].stack = None /\ thr[t].todo = <<>>}

Queue(S, id, q, to) ==
    LET S1 == [S EXCEPT !.out[q] = @ + 1]
    IN  IF to # None THEN EnqueueThread(S1, to, Txn(id))
        ELSE [S1 EXCEPT !.ptodo[q] = Append(@, Txn(id))]

\* The thread of q that waits in the call chain t serves, for a nested call.
Nested(t, q) ==
    LET Mine(i) == txn[i].from # None /\ ProcOf[txn[i].from] = q
        chain == Reach({thr[t].stack}, LAMBDA i : IF Mine(i) THEN None ELSE txn[i].from_parent)
    IN  IF \E i \in chain : Mine(i) THEN txn[CHOOSE i \in chain : Mine(i)].from ELSE None

\* Mutant: a thread may call again while it waits for an answer.
CallWhileWaiting(t, q) ==
    /\ CanWrite(t)
    /\ \/ t \in Fails /\ Become(Fail(State, t))
       \/ /\ q \in alive /\ q # ProcOf[t]
          /\ Room /\ Cardinality(TxnId \ Mentioned) > 1
          /\ \E id \in {FreshTxn}, b \in {FreshBuf}, target \in {Nested(t, q)} :
             \E S \in {[Allocate(State, id, b, t, q, q, FALSE, FALSE, target) EXCEPT
                           !.thr[t].todo = Append(@, Complete),
                           !.thr[t].stack = id,
                           !.txn[id].from_parent = thr[t].stack]} :
             \E to \in IF target # None THEN {target} ELSE Selectable(q) :
                Become(IF to = None \/ thr[to].up THEN Queue(S, id, q, to) ELSE Fail(State, t))
    /\ UNCHANGED <<alive, stuck>>

\* BC_TRANSACTION, synchronous, to the node of q.  It can also fail for want
\* of room or in the copy, which leaves nothing but the error.  Bound: a call
\* leaves an id for its reply.
Call(t, q) ==
    /\ CanWrite(t)
    /\ \/ t \in Fails /\ Become(Fail(State, t))
       \/ /\ q \in alive /\ q # ProcOf[t]
          /\ thr[t].todo # <<>> => Head(thr[t].todo).k # "txn"
          /\ thr[t].stack # None => txn[thr[t].stack].to_thread = t
          /\ Room /\ Cardinality(TxnId \ Mentioned) > 1
          /\ \E id \in {FreshTxn}, b \in {FreshBuf}, target \in {Nested(t, q)} :
             \E S \in {[Allocate(State, id, b, t, q, q, FALSE, FALSE, target) EXCEPT
                           !.thr[t].todo = Append(@, Complete),
                           !.thr[t].stack = id,
                           !.txn[id].from_parent = thr[t].stack]} :
             \E to \in IF target # None THEN {target} ELSE Selectable(q) :
                Become(IF to = None \/ thr[to].up THEN Queue(S, id, q, to) ELSE Fail(State, t))
    /\ UNCHANGED <<alive, stuck>>

\* Mutant: the node's running call is not waited for.
OneWayAtOnce(t, q, torn) ==
    /\ CanWrite(t)
    /\ q \in alive /\ q # ProcOf[t]
    /\ Room /\ Mentioned # TxnId
    /\ \E id \in {FreshTxn}, b \in {FreshBuf} :
       \E S \in {Allocate(State, id, b, t, q, q, TRUE, FALSE, None)} :
       \E S1 \in {[S EXCEPT !.async[q].busy = TRUE, !.thr[t].todo = Append(@, Complete)]} :
       \E to \in Selectable(q) : Become(Queue(S1, id, q, to))
    /\ UNCHANGED <<alive, stuck>>

\* BC_TRANSACTION with TF_ONE_WAY.  One call per node is out at a time; the
\* others wait in the node's queue.  A copy that fails (`torn`) frees its
\* buffer as any other buffer is freed.
OneWay(t, q, torn) ==
    /\ CanWrite(t)
    /\ q \in alive /\ q # ProcOf[t]
    /\ Room /\ Mentioned # TxnId
    /\ \E id \in {FreshTxn}, b \in {FreshBuf} :
       \E S \in {Allocate(State, id, b, t, q, q, TRUE, FALSE, None)} :
       \E S1 \in {[S EXCEPT !.async[q].busy = TRUE, !.thr[t].todo = Append(@, Complete)]} :
          IF torn THEN Become(Fail(Abort(S, id, b), t))
          ELSE IF async[q].busy
               THEN Become([S1 EXCEPT !.async[q].todo = Append(@, id), !.out[q] = @ + 1])
               ELSE \E to \in Selectable(q) : Become(Queue(S1, id, q, to))
    /\ UNCHANGED <<alive, stuck>>

\* BC_REPLY to the call the thread serves.  If the caller is gone or the reply
\* cannot be sent, whoever waits up the chain is told.
Reply(t, torn) ==
    LET orig == thr[t].stack
        f == txn[orig].from
    IN  /\ CanWrite(t)
        /\ IF orig = None \/ txn[orig].to_thread # t
           THEN t \in Fails /\ Become(Fail(State, t))
           ELSE \E S \in {[State EXCEPT !.thr[t].stack = txn[orig].to_parent]} :
                  \/ /\ IF Up(S, f) THEN thr[f].stack = orig /\ (~Room \/ (torn /\ t \in Fails))
                        ELSE TRUE
                     /\ \E S1 \in {Fail(S, t)} : Become(SendFailedReply(S1, orig))
                  \/ /\ Up(S, f) /\ thr[f].stack # orig
                     /\ Become(Fail(S, t))
                  \/ /\ Up(S, f) /\ thr[f].stack = orig /\ ~torn
                     /\ Room /\ Mentioned # TxnId
                     /\ \E id \in {FreshTxn}, b \in {FreshBuf} :
                        \E S1 \in {Allocate(EnqueueThread(S, t, Complete), id, b, t,
                                            ProcOf[f], None, FALSE, TRUE, f)} :
                        \E S2 \in {Queue(PopTransaction(S1, f, orig), id, ProcOf[f], f)} :
                           Become(FreeTransaction(S2, orig))
        /\ UNCHANGED <<alive, stuck>>

\* BC_FREE_BUFFER, by any thread of the owner.
FreeBuffer(b) ==
    /\ buf[b].user_free
    /\ Become(FreeBuf(State, b))
    /\ UNCHANGED <<alive, stuck>>

-----------------------------------------------------------------------------
(* Reading                                                                  *)

\* deliver_transaction to thread t.  The buffer remembers the delivery (a
\* transaction that is over by then as None).  If its files cannot be installed
\* (`refused`) the caller is told and the buffer freed.
Deliver(S, t, id, refused) ==
    LET x == S.txn[id]
        b == x.buffer
        Seen(R, i) == [R EXCEPT !.buf[b].user_free = TRUE, !.buf[b].delivery = <<t, i>>]
    IN  IF ~x.live THEN S
        ELSE IF b = None THEN CleanupTransaction(S, id)
        ELSE IF refused
             THEN FreeBuf(CleanupTransaction([S EXCEPT !.buf[b].txn = None], id), b)
        ELSE IF x.node # None /\ ~x.oneway
             THEN Seen([S EXCEPT !.txn[id].to_parent = S.thr[t].stack,
                                 !.txn[id].to_thread = t,
                                 !.thr[t].stack = id], id)
             ELSE Seen(FreeTransaction(S, id), None)

\* One item of the thread's own list.
ReadThread(t, refused) ==
    LET w == Head(thr[t].todo)
        S == [State EXCEPT !.thr[t].todo = Tail(@)]
    IN  /\ thr[t].up /\ thr[t].todo # <<>>
        /\ CASE w.k = "txn"      -> Become(Deliver(S, t, w.id, refused))
             [] w.k = "return"   -> Become([S EXCEPT !.thr[t].return_error = FALSE])
             [] w.k = "reply"    -> Become([S EXCEPT !.thr[t].reply_error = FALSE])
             [] w.k = "complete" -> Become(S)
        /\ UNCHANGED <<alive, stuck>>

\* One item of the process's list, by a thread that serves nothing and waits
\* for nothing.
ReadProc(t, refused) ==
    LET p == ProcOf[t]
    IN  /\ thr[t].up /\ thr[t].stack = None /\ thr[t].todo = <<>>
        /\ ptodo[p] # <<>>
        /\ Become(Deliver([State EXCEPT !.ptodo[p] = Tail(@)], t, Head(ptodo[p]).id, refused))
        /\ UNCHANGED <<alive, stuck>>

\* reject_delivery: the host takes back a delivery the guest has not seen.
RejectDelivery(t, b) ==
    /\ buf[b].delivery # None /\ buf[b].delivery[1] = t
    /\ buf[b].user_free
    /\ LET id == buf[b].delivery[2]
       IN  IF id = None \/ ~txn[id].live THEN Become(FreeBuf(State, b))
           ELSE /\ txn[id].to_thread = t /\ txn[id].buffer = b /\ thr[t].stack = id
                /\ \E S \in {[State EXCEPT !.thr[t].stack = txn[id].to_parent,
                                           !.buf[b].txn = None]} :
                   \E S1 \in {CleanupTransaction(S, id)} : Become(FreeBuf(S1, b))
    /\ UNCHANGED <<alive, stuck>>

-----------------------------------------------------------------------------
(* Threads and processes come and go                                        *)

\* thread_or_create, by a thread's first ioctl.
Enter(t) ==
    /\ ProcOf[t] \in alive /\ ~thr[t].up
    /\ thr' = [thr EXCEPT ![t].up = TRUE]
    /\ UNCHANGED <<alive, txn, buf, ptodo, async, out, stuck>>

\* The item below i on the stack of t.
Below(S, t, i) ==
    IF S.txn[i].to_thread = t THEN S.txn[i].to_parent
    ELSE IF S.txn[i].from = t THEN S.txn[i].from_parent ELSE None

StackOf(S, t) == Reach({S.thr[t].stack}, LAMBDA i : Below(S, t, i))

\* Mutant: the count keeps the calls the thread served.
UnwindKeepsCount(S, t, stack) ==
    LET served == {i \in stack : S.txn[i].to_thread = t}
    IN  [S EXCEPT
          !.thr[t] = NoThread,
          !.txn = [i \in TxnId |->
                      IF i \in served
                      THEN [@[i] EXCEPT !.to_proc = None, !.to_thread = None, !.buffer = None]
                      ELSE IF i \in stack /\ @[i].from = t
                           THEN [@[i] EXCEPT !.from = None] ELSE @[i]],
          !.buf = [b \in BufId |-> IF @[b].txn \in served
                                   THEN [@[b] EXCEPT !.txn = None] ELSE @[b]]]

\* The stack half of thread_release: calls t served lose their server, calls
\* it made lose their caller.
Unwind(S, t, stack) ==
    LET served == {i \in stack : S.txn[i].to_thread = t}
    IN  [S EXCEPT
          !.thr[t] = NoThread,
          !.txn = [i \in TxnId |->
                      IF i \in served
                      THEN [@[i] EXCEPT !.to_proc = None, !.to_thread = None, !.buffer = None]
                      ELSE IF i \in stack /\ @[i].from = t
                           THEN [@[i] EXCEPT !.from = None] ELSE @[i]],
          !.out[ProcOf[t]] = IF @ > Cardinality(served) THEN @ - Cardinality(served) ELSE 0,
          !.buf = [b \in BufId |-> IF @[b].txn \in served
                                   THEN [@[b] EXCEPT !.txn = None] ELSE @[b]]]

\* Mutant: nobody is told of the call the thread was serving.
ThreadReleasesSilent(S, t) ==
    {ReleaseWork(S1, S.thr[t].todo) : S1 \in {Unwind(S, t, StackOf(S, t))}}

\* thread_release: the caller of the call it was serving, if that is on top of
\* the stack, is told; then its work is released.
ThreadReleases(S, t) ==
    {ReleaseWork(S2, S.thr[t].todo) :
        S2 \in {IF S.thr[t].stack # None /\ S.txn[S.thr[t].stack].to_thread = t
                THEN SendFailedReply(S1, S.thr[t].stack) ELSE S1 :
                   S1 \in {Unwind(S, t, StackOf(S, t))}}}

\* The node whose one-way call t was about to read: nobody will free its buffer.
Orphaned(t) ==
    {txn[i].node : i \in {j \in TxnId : txn[j].oneway /\ Txn(j) \in Range(thr[t].todo)}}

ThreadExit(t) ==
    /\ thr[t].up
    /\ \E S \in ThreadReleases(State, t) : Become(S)
    /\ stuck' = stuck \cup Orphaned(t)
    /\ UNCHANGED alive

\* The rest of release_proc: the node's queue, the process's list, the buffers.
DropProc(S, p) ==
    LET queued == [k \in DOMAIN S.async[p].todo |-> Txn(S.async[p].todo[k])]
        S1 == ReleaseWork([S EXCEPT !.async[p] = [busy |-> FALSE, todo |-> <<>>],
                                    !.ptodo[p] = <<>>],
                          queued \o S.ptodo[p])
    IN  {[R EXCEPT
            !.buf = [b \in BufId |-> IF @[b].owner = p THEN NoBuf ELSE @[b]],
            !.txn = [i \in TxnId |-> IF \E b \in BufId : R.buf[b].owner = p /\ R.buf[b].txn = i
                                     THEN [@[i] EXCEPT !.buffer = None] ELSE @[i]],
            !.out[p] = 0] : R \in {S1}}

\* release_proc: the threads, in any order, then the rest.
ReleaseProc(p) ==
    /\ p \in alive
    /\ alive' = alive \ {p}
    /\ \E order \in SetToSeqs({t \in Thread : ProcOf[t] = p /\ thr[t].up}) :
       \E S \in FoldLeft(LAMBDA Rs, t : UNION {ThreadReleases(R, t) : R \in Rs},
                         {State}, order) :
       \E S1 \in DropProc(S, p) : Become(S1)
    /\ stuck' = stuck \ {p}

Init ==
    /\ alive = Proc
    /\ thr = [t \in Thread |-> NoThread]
    /\ txn = [i \in TxnId |-> NoTxn]
    /\ buf = [b \in BufId |-> NoBuf]
    /\ ptodo = [p \in Proc |-> <<>>]
    /\ async = [p \in Proc |-> [busy |-> FALSE, todo |-> <<>>]]
    /\ out = [p \in Proc |-> 0]
    /\ stuck = {}

Next ==
    \/ \E t \in Thread : Enter(t) \/ ThreadExit(t)
    \/ \E c \in Calls : Call(c[1], c[2])
    \/ \E c \in OneWays : OneWay(c[1], c[2], c[3])
    \/ \E t \in Thread, torn \in BOOLEAN : Reply(t, torn)
    \/ \E t \in Thread : \E refused \in {FALSE, (t \in Fails)} :
          ReadThread(t, refused) \/ ReadProc(t, refused)
    \/ \E b \in BufId : FreeBuffer(b)
    \/ \E t \in Fails, b \in BufId : RejectDelivery(t, b)
    \/ \E p \in Proc : ReleaseProc(p)

Spec == Init /\ [][Next]_vars

\* What the processes owe each other: threads come, read what is queued, answer
\* what they serve and free the buffers they were given, as libbinder's loops
\* do however other threads' steps fall in between.
Fairness ==
    /\ \A t \in Thread : WF_vars(Enter(t))
    /\ \A t \in Thread : SF_vars(ReadThread(t, FALSE)) /\ SF_vars(ReadProc(t, FALSE))
    /\ \A t \in Thread : SF_vars(Reply(t, FALSE))
    /\ \A b \in BufId : WF_vars(FreeBuffer(b))

FairSpec == Spec /\ Fairness

-----------------------------------------------------------------------------
(* Properties                                                               *)

Work == [k : {"txn"}, id : TxnId] \cup [k : {"complete", "return", "reply"}, id : {None}]

\* The type invariant.
TypeOK ==
    /\ alive \subseteq Proc /\ stuck \subseteq Proc
    /\ thr \in [Thread -> [up : BOOLEAN, stack : TxnId \cup {None}, todo : Seq(Work),
                           return_error : BOOLEAN, reply_error : BOOLEAN]]
    /\ txn \in [TxnId -> [live : BOOLEAN, from : Thread \cup {None},
                          from_parent : TxnId \cup {None}, to_proc : Proc \cup {None},
                          to_thread : Thread \cup {None}, to_parent : TxnId \cup {None},
                          node : Proc \cup {None}, oneway : BOOLEAN,
                          buffer : BufId \cup {None}]]
    /\ buf \in [BufId -> [owner : Proc \cup {None}, node : Proc \cup {None},
                          async : BOOLEAN, txn : TxnId \cup {None}, user_free : BOOLEAN,
                          delivery : (Thread \X (TxnId \cup {None})) \cup {None}]]
    /\ ptodo \in [Proc -> Seq([k : {"txn"}, id : TxnId])]
    /\ async \in [Proc -> [busy : BOOLEAN, todo : Seq(TxnId)]]
    /\ out \in [Proc -> Nat]

\* A transaction stack only holds transactions that exist (the driver indexes
\* txns with them), each one made or served by the thread; and a transaction
\* that names its caller is on the caller's stack.
StacksSound ==
    /\ TypeOK
    /\ \A t \in Thread :
        thr[t].up =>
            LET stack == StackOf(State, t)
            IN  /\ stack # {} => \E i \in stack : Below(State, t, i) = None
                /\ \A i \in stack : txn[i].live /\ t \in {txn[i].from, txn[i].to_thread}
                /\ \A i \in TxnId : txn[i].live /\ txn[i].from = t => i \in stack

\* A reply always finds its caller waiting for it: when a thread may answer a
\* call whose caller it knows, that caller exists and the call is on top of the
\* caller's stack.  (transaction_inner fails the reply otherwise, after taking
\* the call off the server's stack.)
ReplyFindsCaller ==
    \A t \in Thread :
        LET i == thr[t].stack
        IN  thr[t].up /\ i # None /\ txn[i].to_thread = t /\ txn[i].from # None =>
                thr[txn[i].from].up /\ thr[txn[i].from].stack = i

Queued(i) ==
    \/ \E t \in Thread : thr[t].up /\ Txn(i) \in Range(thr[t].todo)
    \/ \E p \in alive : Txn(i) \in Range(ptodo[p])

Served(i) ==
    \E t \in Thread : thr[t].up /\ txn[i].to_thread = t /\ i \in StackOf(State, t)

\* No caller waits for nothing: the thread exists, and some transaction that a
\* thread still has to read or to answer ends, if its caller is gone, in a
\* failed reply that reaches this one.
CallerIsOwedAnswer ==
    \A i \in TxnId :
        txn[i].live /\ txn[i].from # None =>
            /\ thr[txn[i].from].up
            /\ \E j \in TxnId : /\ txn[j].live
                                /\ Queued(j) \/ Served(j)
                                /\ i \in FailedChain(State, j)

\* outstanding_txns is the number of transactions addressed to the process.
OutstandingExact ==
    \A p \in alive : out[p] = Cardinality({i \in TxnId : txn[i].live /\ txn[i].to_proc = p})

\* A transaction and its buffer know each other, and the buffer is the
\* receiver's.
BuffersAgree ==
    /\ \A i \in TxnId : txn[i].live /\ txn[i].buffer # None =>
          /\ buf[txn[i].buffer].txn = i
          /\ buf[txn[i].buffer].owner = txn[i].to_proc
    /\ \A b \in BufId : buf[b].txn # None =>
          txn[buf[b].txn].live /\ txn[buf[b].txn].buffer = b

\* The buffers of one-way calls to p's node that are out: not in its queue.
Running(p) ==
    {b \in BufId : buf[b].async /\ buf[b].node = p /\ buf[b].txn \notin Range(async[p].todo)}

\* One-way calls to a node go out one at a time: until the buffer of one is
\* freed, the next is not queued to any thread.
OneWaySerial == \A p \in alive : Cardinality(Running(p)) <= 1

\* A queued one-way call is not forgotten: while the node's queue is not
\* empty, one is out whose buffer the receiver can still free.  The exception
\* is a call that went away with the thread it was queued on.
OneWayProgress ==
    \A p \in alive \ stuck :
        async[p].todo # <<>> =>
            \E b \in Running(p) : buf[b].user_free \/ (buf[b].txn # None /\ Queued(buf[b].txn))

Waits(t) == thr[t].up /\ thr[t].stack # None /\ txn[thr[t].stack].from = t

\* The threads of W wait for each other: each for a call that one of them is
\* serving, or that is queued to a process all of whose threads are in W.  A
\* thread that waits for an answer takes no work of its process.
Circle(W) ==
    \A u \in W :
        /\ Waits(u)
        /\ LET i == thr[u].stack
               v == txn[i].to_thread
           IN  \/ v \in W /\ i \in StackOf(State, v)
               \/ \E q \in Proc : /\ Txn(i) \in Range(ptodo[q])
                                  /\ {x \in Thread : ProcOf[x] = q} \subseteq W

Deadlocked(t) == \E W \in SUBSET Thread : t \in W /\ Circle(W)

\* Every call ends: a thread that waits for an answer gets one (a reply, or the
\* failure of the call), or is itself called back, or goes away, unless the
\* programs have called each other in a circle.  The driver, as Linux's, lets
\* processes do that when they have no thread left to serve a call; it has no
\* other way to leave a caller waiting.
CallsEnd == \A t \in Thread : Waits(t) ~> (~Waits(t) \/ Deadlocked(t))
=============================================================================
