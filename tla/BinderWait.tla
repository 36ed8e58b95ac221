----------------------------- MODULE BinderWait -----------------------------
(***************************************************************************)
(* How threads wait for binder work and are woken (aim-binder-driver:      *)
(* thread_read, ioctl_parking, flush, interrupt and release of driver.rs,  *)
(* read_pass of read.rs, the work queues and wakes of state.rs) and how    *)
(* the daemon resumes a read that would have blocked (aim-binder-host,     *)
(* Call::run of server.rs).                                                *)
(*                                                                         *)
(* One process.  A local thread sleeps on its condition variable; the call *)
(* of a hosted thread parks, and whoever brings work resumes it.  What     *)
(* happens under the driver lock is one action.  Wakes are collected under *)
(* the lock and delivered, one at a time, by the actor that collected them *)
(* after it has released it.                                               *)
(*                                                                         *)
(* Work is a kind of item: "txn" (a call to serve), "reply", "complete",   *)
(* "error", "node".  Node work and the completion of a synchronous call    *)
(* are deferred: they do not make a thread return by themselves, and node  *)
(* work can be taken off a list by any other thread (dequeue_node_work).   *)
(* Who calls whom is BinderTxn's matter.                                   *)
(***************************************************************************)
EXTENDS Integers, Sequences, FiniteSets, SequencesExt

CONSTANTS
    Thread,       \* guest tids of the process
    Hosted,       \* those served by the daemon; the others are local
    Item,         \* process work; bounds what is queued at once
    MaxTodo,      \* bound: items on a thread's list when it writes or is sent more
    MaxStack,     \* bound: transactions on a thread's stack
    Writes,       \* what threads write: a subset of AllWrites
    Events,       \* what else happens: a subset of AllEvents
    Ext           \* an actor that is no thread of the process

AllWrites == {"none", "call", "reply", "send", "fail"}

AllEvents == {"direct", "queue", "node", "flush", "interrupt", "exit", "release", "nofds",
              "lazy"}

AllWork == {"txn", "reply", "complete", "error", "node"}

ASSUME WaitAssumption ==
    /\ Hosted \subseteq Thread /\ Ext \notin Thread
    /\ Item \cap AllWork = {} /\ MaxTodo \in Nat /\ MaxStack \in Nat
    /\ Writes \subseteq AllWrites /\ Events \subseteq AllEvents

VARIABLES
    open,     \* the process has the device open
    thr,      \* Thread -> Thread of state.rs, with where its ioctl is
    ptodo,    \* Proc.todo
    waiting,  \* Proc.waiting_threads
    out       \* actor -> wakes it has collected and not delivered

vars == <<open, thr, ptodo, waiting, out>>

Actor == Thread \cup {Ext}

\* exists .. parked are fields of Thread; a new one returns from its first read
\* even without work.  slot is the Slot of the hosted call, avail the
\* wait_for_proc_work the read computed, pc where the ioctl is: "user" (none),
\* "again" (in the wait loop, without the lock), "blocked", "woken" (notified,
\* without the lock), "storing" (parked, the call not stored yet), "parked",
\* "call" (to be issued again), "leaving".
NoThread == [exists |-> FALSE, todo |-> <<>>, process_todo |-> FALSE,
             need_return |-> TRUE, interrupted |-> FALSE, stack |-> <<>>,
             parked |-> FALSE, slot |-> "running", avail |-> FALSE, pc |-> "user"]

State == [thr |-> thr, ptodo |-> ptodo, waiting |-> waiting, out |-> out]

Become(S) == thr' = S.thr /\ ptodo' = S.ptodo /\ waiting' = S.waiting /\ out' = S.out

Notify(t) == <<"notify", t>>

Resume(t) == <<"resume", t>>

\* A wake of another process's thread, or a call of the notifier.
Other == <<"other", Ext>>

-----------------------------------------------------------------------------
(* Queues and wakes, collected by actor a                                   *)

\* Mutant: a parked thread stays in waiting_threads.
WakeWaiterStays(S, a, t) ==
    IF ~S.thr[t].exists THEN S
    ELSE IF S.thr[t].parked
         THEN [S EXCEPT !.thr[t].parked = FALSE, !.out[a] = @ \cup {Resume(t)}]
         ELSE [S EXCEPT !.out[a] = @ \cup {Notify(t)}]

\* Mutant: the resume is run but not taken.
WakeWaiterKeeps(S, a, t) ==
    IF ~S.thr[t].exists THEN S
    ELSE IF S.thr[t].parked
         THEN [S EXCEPT !.waiting = SelectSeq(@, LAMBDA w : w # t),
                        !.out[a] = @ \cup {Resume(t)}]
         ELSE [S EXCEPT !.out[a] = @ \cup {Notify(t)}]

WakeWaiter(S, a, t) ==
    IF ~S.thr[t].exists THEN S
    ELSE IF S.thr[t].parked
         THEN [S EXCEPT !.thr[t].parked = FALSE,
                        !.waiting = SelectSeq(@, LAMBDA w : w # t),
                        !.out[a] = @ \cup {Resume(t)}]
         ELSE [S EXCEPT !.out[a] = @ \cup {Notify(t)}]

\* enqueue_deferred_thread_work
Defer(S, t, x) == [S EXCEPT !.thr[t].todo = Append(@, x)]

\* Mutant: the thread is not woken by another.
EnqueueQuiet(S, a, t, x) ==
    LET S1 == [Defer(S, t, x) EXCEPT !.thr[t].process_todo = TRUE]
    IN  IF a = t THEN WakeWaiter(S1, a, t) ELSE S1

\* enqueue_thread_work
Enqueue(S, a, t, x) ==
    WakeWaiter([Defer(S, t, x) EXCEPT !.thr[t].process_todo = TRUE], a, t)

\* wakeup_proc: the longest-waiting thread, or the notifier.
WakeupProc(S, a) ==
    IF S.waiting = <<>> THEN [S EXCEPT !.out[a] = @ \cup {Other}]
    ELSE WakeWaiter([S EXCEPT !.waiting = Tail(@)], a, Head(S.waiting))

-----------------------------------------------------------------------------
(* Reading                                                                  *)

\* available_for_proc_work
Available(S, t) == S.thr[t].stack = <<>> /\ S.thr[t].todo = <<>>

\* Mutant: process work is not looked at.
HasWorkOwn(S, t) == S.thr[t].process_todo \/ S.thr[t].need_return

HasWork(S, t) ==
    \/ S.thr[t].process_todo \/ S.thr[t].need_return
    \/ S.thr[t].avail /\ S.ptodo # <<>>

\* Mutant: the ioctl ends without looking at what is left.
EndIoctlQuiet(S, t, pc) == [S EXCEPT !.thr[t].need_return = FALSE, !.thr[t].pc = pc]

\* The end of write_read and ioctl_parking: what is left on the process's list
\* is passed on to another thread.
EndIoctl(S, t, pc) ==
    LET S1 == IF S.ptodo = <<>> THEN S ELSE WakeupProc(S, t)
    IN  [S1 EXCEPT !.thr[t].need_return = FALSE, !.thr[t].pc = pc]

Leave(S, t) == EndIoctl(S, t, "leaving")

\* No work: EINTR; or deliver the wakes and look again; or sleep, or park.
Sleep(S, t) ==
    LET S1 == [S EXCEPT !.waiting = IF S.thr[t].avail THEN Append(@, t) ELSE @]
    IN  IF S.thr[t].interrupted THEN Leave([S EXCEPT !.thr[t].interrupted = FALSE], t)
        ELSE IF S.out[t] # {} THEN [S EXCEPT !.thr[t].pc = "again"]
        ELSE IF t \in Hosted
             THEN EndIoctl([S1 EXCEPT !.thr[t].parked = TRUE, !.thr[t].slot = "running"],
                           t, "storing")
             ELSE [S1 EXCEPT !.thr[t].pc = "blocked"]

\* Mutant: the last item leaves process_todo set.
TakenStillTodo(S, t, n, m, last) ==
    [S EXCEPT !.thr[t].todo = SubSeq(@, n + 1, Len(@)),
              !.thr[t].stack = IF last = "txn" THEN Append(@, "serve") ELSE @,
              !.ptodo = SubSeq(@, m + 1, Len(@))]

\* read_pass takes n items off the thread's list and m off the process's.  It
\* ends with the transaction it delivers (`last`), when the read buffer is full
\* or the reader has no room for its files, or with both lists read; a
\* transaction that is over, or node work with nothing to say, leaves no return.
Taken(S, t, n, m, last) ==
    LET rest == SubSeq(S.thr[t].todo, n + 1, Len(S.thr[t].todo))
    IN  [S EXCEPT !.thr[t].todo = rest,
                  !.thr[t].process_todo = @ /\ rest # <<>>,
                  !.thr[t].stack = IF last = "txn" THEN Append(@, "serve") ELSE @,
                  !.ptodo = SubSeq(@, m + 1, Len(@))]

Serves(x) == x = "txn" \/ x \in Item

\* What a pass can reach: the thread's list, then the process's if the read
\* may take from it.
Queue(S, t) == S.thr[t].todo \o (IF S.thr[t].avail THEN S.ptodo ELSE <<>>)

\* The state with the first k items of the queue read.
After(S, t, k, last) ==
    LET own == Len(S.thr[t].todo)
    IN  Taken(S, t, IF k < own THEN k ELSE own, IF k < own THEN 0 ELSE k - own, last)

Shows(all, k, kinds) == \E i \in 1..k : all[i] \in kinds

\* The ways a pass ends the read (Pass::Done).
Passes(S, t) ==
    LET all == Queue(S, t)
        Reached == {k \in 0 .. Len(all) : \A i \in 1 .. k - 1 : all[i] # "reply"}
    IN     \* a call to serve is delivered
           {Leave(After(S, t, k, "txn"), t) : k \in {j \in Reached \ {0} : Serves(all[j])}}
      \cup \* a reply, a one-way call or a death is
           {Leave(After(S, t, k, "reply"), t) :
                k \in {j \in Reached \ {0} : Serves(all[j]) \/ all[j] = "reply"}}
      \cup \* the read buffer is full
           {Leave(After(S, t, k, "none"), t) : k \in {j \in Reached : /\ j < Len(all)
                /\ ~Shows(all, j, {"reply"}) /\ Shows(all, j, {"complete", "error", "node"})}}
      \cup \* no room for the files of the first transaction
           (IF "nofds" \in Events /\ all # <<>> /\ Serves(all[1]) THEN {Leave(S, t)} ELSE {})
      \cup \* both lists are read, with a return to show for it
           (IF /\ ~Shows(all, Len(all), {"reply"})
               /\ S.thr[t].need_return \/ Shows(all, Len(all), {"complete", "error", "node"})
            THEN {Leave(After(S, t, Len(all), "none"), t)} ELSE {})

\* A pass that reads both lists and has nothing to return (Pass::Retry).
Retries(S, t) ==
    LET all == Queue(S, t)
    IN  IF HasWork(S, t) /\ ~S.thr[t].need_return
           /\ ~Shows(all, Len(all), {"reply", "complete", "error"})
        THEN {After(S, t, Len(all), "none")} ELSE {}

\* The wait loop, given the wait_for_proc_work the read computed.
Waits(S, t) == IF HasWork(S, t) THEN Passes(S, t) ELSE {Sleep(S, t)}

Start(S, t) == [S EXCEPT !.thr[t].avail = Available(S, t)]

\* The read loop from inside the wait loop: a retry finds the thread's list
\* empty, and a second one the process's list as well.
Continues(S, t) ==
    LET second == {Start(R, t) : R \in Retries(S, t)}
        third  == {Start(R, t) : R \in UNION {Retries(S2, t) : S2 \in second}}
    IN  Waits(S, t) \cup UNION {Waits(S2, t) : S2 \in second} \cup {Sleep(S3, t) : S3 \in third}

\* The same from its start.
Reads(S, t) == UNION {Continues(S1, t) : S1 \in {Start(S, t)}}

-----------------------------------------------------------------------------
(* What a thread does                                                       *)

Top(t) == IF thr[t].stack = <<>> THEN "none" ELSE Last(thr[t].stack)

\* The commands of one ioctl.  An object sent along queues node work on the
\* sender, always before the completion or the error of the command.
Written(S, t, w) ==
    CASE w = "none"  -> S
      [] w = "call"  -> [Defer(Defer(S, t, "node"), t, "complete") EXCEPT
                            !.thr[t].stack = Append(@, "call"), !.out[t] = @ \cup {Other}]
      [] w = "reply" -> Enqueue([S EXCEPT !.thr[t].stack = Front(@), !.out[t] = @ \cup {Other}],
                                t, t, "complete")
      [] w = "send"  -> Enqueue([Defer(S, t, "node") EXCEPT !.out[t] = @ \cup {Other}],
                                t, t, "complete")
      [] w = "fail"  -> Enqueue(Defer(S, t, "node"), t, t, "error")

\* A thread with a call to serve replies before it reads again, unless "lazy".
CanWrite(t, w, reads) ==
    /\ w = "none" /\ reads /\ Top(t) = "serve" => "lazy" \in Events
    /\ w = "call" => /\ Top(t) # "call" /\ Len(thr[t].stack) < MaxStack
                     /\ thr[t].todo # <<>> => Head(thr[t].todo) \notin {"txn", "reply"}
    /\ w = "reply" => Top(t) = "serve"
    /\ w # "none" => Len(thr[t].todo) < MaxTodo

\* BINDER_WRITE_READ: the commands, and the read if there is one.
Ioctl(t, w, reads) ==
    /\ thr[t].pc = "user" /\ open
    /\ CanWrite(t, w, reads)
    /\ \E S \in {Written([State EXCEPT !.thr[t].exists = TRUE], t, w)} :
       \E S1 \in IF reads THEN Reads(S, t)
                 ELSE {[S EXCEPT !.thr[t].need_return = FALSE, !.thr[t].pc = "leaving"]} :
          Become(S1)
    /\ UNCHANGED open

\* The thread takes the lock again, after delivering its wakes or because its
\* condition variable was notified.
Again(t) ==
    /\ thr[t].pc \in {"again", "woken"} /\ out[t] = {}
    /\ \E S \in IF thr[t].exists
                THEN Continues([State EXCEPT !.waiting = SelectSeq(@, LAMBDA w : w # t)], t)
                ELSE {[State EXCEPT !.thr[t].pc = "leaving"]} : Become(S)
    /\ UNCHANGED open

\* The condition variable may also wake a thread for nothing.
Spurious(t) ==
    /\ thr[t].pc = "blocked"
    /\ thr' = [thr EXCEPT ![t].pc = "woken"]
    /\ UNCHANGED <<open, ptodo, waiting, out>>

\* Mutant: the call is stored whatever happened meanwhile.
StoreAlways(t) ==
    /\ thr[t].pc = "storing" /\ out[t] = {}
    /\ Become([State EXCEPT !.thr[t].slot = "parked", !.thr[t].pc = "parked"])
    /\ UNCHANGED open

\* Call::run stores a parked call, unless it was resumed already.
Store(t) ==
    /\ thr[t].pc = "storing" /\ out[t] = {}
    /\ Become(IF thr[t].slot = "woken" THEN [State EXCEPT !.thr[t].pc = "call"]
              ELSE [State EXCEPT !.thr[t].slot = "parked", !.thr[t].pc = "parked"])
    /\ UNCHANGED open

\* The call is issued again: its writes are consumed.  EBADF if the process is
\* gone.
Reissue(t) ==
    /\ thr[t].pc = "call"
    /\ \E S \in IF open THEN Reads([State EXCEPT !.thr[t].exists = TRUE], t)
                ELSE {[State EXCEPT !.thr[t].pc = "leaving"]} : Become(S)
    /\ UNCHANGED open

Return(t) ==
    /\ thr[t].pc = "leaving" /\ out[t] = {}
    /\ thr' = [thr EXCEPT ![t].pc = "user", ![t].avail = FALSE, ![t].slot = "running"]
    /\ UNCHANGED <<open, ptodo, waiting, out>>

\* PendingWakes::deliver, one wake.  A notification reaches a thread that
\* sleeps; a resumed call is issued again by the actor that resumes it.  An
\* actor delivers its resumes first; Ext stands for any number of actors.
Deliver(a, wake) ==
    LET t == wake[2]
        S == [State EXCEPT !.out[a] = @ \ {wake}]
    IN  /\ wake \in out[a]
        /\ wake[1] # "resume" /\ a # Ext => ~\E u \in Thread : Resume(u) \in out[a]
        /\ Become(CASE wake[1] = "notify" /\ thr[t].pc = "blocked" ->
                          [S EXCEPT !.thr[t].pc = "woken"]
                    [] wake[1] = "resume" ->
                          [S EXCEPT !.thr[t].slot = "woken",
                                    !.thr[t].pc = IF thr[t].slot = "parked" THEN "call" ELSE @]
                    [] OTHER -> S)
        /\ UNCHANGED open

-----------------------------------------------------------------------------
(* What others do                                                           *)

FreshItems == Item \ Range(ptodo)

\* proc_transaction: a waiting thread gets the transaction on its own list,
\* else the process does.
Arrive ==
    /\ open
    /\ IF waiting # <<>>
       THEN /\ Len(thr[Head(waiting)].todo) < MaxTodo
            /\ Become(Enqueue([State EXCEPT !.waiting = Tail(@)], Ext, Head(waiting), "txn"))
       ELSE /\ FreshItems # {}
            /\ Become([State EXCEPT !.ptodo = Append(@, CHOOSE i \in FreshItems : TRUE),
                                    !.out[Ext] = @ \cup {Other}])
    /\ UNCHANGED open

\* Work queued to the process (a death, node work, the next one-way call).
QueueProc ==
    /\ "queue" \in Events /\ open /\ FreshItems # {}
    /\ Become(WakeupProc([State EXCEPT !.ptodo = Append(@, CHOOSE i \in FreshItems : TRUE)], Ext))
    /\ UNCHANGED open

\* The reply to the thread's call, or a nested call to it.
Answer(t) ==
    /\ thr[t].exists /\ Top(t) = "call" /\ Len(thr[t].todo) <= MaxTodo
    /\ Become(Enqueue([State EXCEPT !.thr[t].stack = Front(@)], Ext, t, "reply"))
    /\ UNCHANGED open

Nested(t) ==
    /\ "direct" \in Events
    /\ thr[t].exists /\ Top(t) = "call"
    /\ Len(thr[t].stack) < MaxStack /\ ~Contains(thr[t].todo, "txn")
    /\ Become(Enqueue(State, Ext, t, "txn"))
    /\ UNCHANGED open

\* dequeue_node_work: the node is gone, or another thread gets its work.
DropNode(t, k) ==
    /\ "node" \in Events
    /\ k \in DOMAIN thr[t].todo /\ thr[t].todo[k] = "node"
    /\ thr' = [thr EXCEPT ![t].todo = RemoveAt(@, k)]
    /\ UNCHANGED <<open, ptodo, waiting, out>>

\* Driver::flush, by the thread that closes a descriptor.
Flush ==
    /\ "flush" \in Events /\ open
    /\ Become(FoldSet(LAMBDA t, S : IF ~S.thr[t].exists THEN S
                                    ELSE WakeWaiter([S EXCEPT !.thr[t].need_return = TRUE], Ext, t),
                      State, Thread))
    /\ UNCHANGED open

Interrupt(t) ==
    /\ "interrupt" \in Events /\ thr[t].exists
    /\ Become(WakeWaiter([State EXCEPT !.thr[t].interrupted = TRUE], Ext, t))
    /\ UNCHANGED open

\* BINDER_THREAD_EXIT
ThreadExit(t) ==
    /\ "exit" \in Events
    /\ thr[t].exists /\ thr[t].pc = "user"
    /\ thr' = [thr EXCEPT ![t] = NoThread]
    /\ UNCHANGED <<open, ptodo, waiting, out>>

\* Driver::release: every waiter is woken, then its thread is gone.
Release ==
    LET S == FoldSet(LAMBDA t, R : WakeWaiter(R, Ext, t), State, Thread)
    IN  /\ "release" \in Events /\ open
        /\ open' = FALSE
        /\ Become([S EXCEPT
                     !.thr = [t \in Thread |->
                                [NoThread EXCEPT !.pc = S.thr[t].pc, !.slot = S.thr[t].slot]],
                     !.ptodo = <<>>, !.waiting = <<>>])

Init ==
    /\ open = TRUE
    /\ thr = [t \in Thread |-> NoThread]
    /\ ptodo = <<>> /\ waiting = <<>>
    /\ out = [a \in Actor |-> {}]

Next ==
    \/ \E t \in Thread :
          \/ \E w \in Writes, reads \in BOOLEAN : Ioctl(t, w, reads)
          \/ Again(t) \/ Spurious(t) \/ Store(t) \/ Reissue(t) \/ Return(t)
          \/ Answer(t) \/ Nested(t) \/ Interrupt(t) \/ ThreadExit(t)
          \/ \E k \in DOMAIN thr[t].todo : DropNode(t, k)
    \/ \E a \in Actor : \E wake \in out[a] : Deliver(a, wake)
    \/ Arrive \/ QueueProc \/ Flush \/ Release

Spec == Init /\ [][Next]_vars

-----------------------------------------------------------------------------
(* Properties                                                               *)

\* Every variable has its type.
TypeOK ==
    /\ open \in BOOLEAN
    /\ \A t \in Thread :
          /\ thr[t].todo \in Seq(AllWork) /\ thr[t].stack \in Seq({"call", "serve"})
          /\ \A f \in {"exists", "process_todo", "need_return", "interrupted", "parked", "avail"} :
                thr[t][f] \in BOOLEAN
          /\ thr[t].slot \in {"running", "woken", "parked"}
          /\ thr[t].pc \in {"user", "again", "blocked", "woken", "storing", "parked", "call",
                            "leaving"}
    /\ ptodo \in Seq(Item) /\ IsInjective(ptodo)
    /\ waiting \in Seq(Thread) /\ IsInjective(waiting)
    /\ out \in [Actor -> SUBSET ({"notify", "resume"} \X Thread \cup {Other})]

Collected(wake) == \E a \in Actor : wake \in out[a]

\* The thread's ioctl waits, and nothing is on its way that ends the wait.
Asleep(t) ==
    \/ thr[t].pc = "blocked" /\ ~Collected(Notify(t))
    \/ thr[t].pc \in {"storing", "parked"} /\ thr[t].slot # "woken" /\ ~Collected(Resume(t))

\* No wake-up is lost: a thread does not stay asleep when it has work of its
\* own, when it was told to return, interrupted, or when its process is gone.
NoLostWake ==
    \A t \in Thread : Asleep(t) =>
        /\ thr[t].exists /\ ~thr[t].process_todo
        /\ ~thr[t].need_return /\ ~thr[t].interrupted

\* A thread on its way to read, or to pass on, the work of its process.
Comes(t) ==
    /\ thr[t].stack = <<>> \/ thr[t].process_todo \/ thr[t].need_return
    /\ \/ thr[t].pc \in {"again", "woken", "call"}
       \/ thr[t].pc \in {"blocked", "storing", "parked"} /\ ~Asleep(t)

\* Process work never waits while a thread that could take it sleeps: if a
\* thread is in waiting_threads, one is on its way.
WorkFindsThread == ptodo # <<>> /\ waiting # <<>> => \E t \in Thread : Comes(t)

\* waiting_threads holds only threads whose ioctl waits (select_thread gives a
\* transaction to one without looking), and every sleeping thread with no
\* transaction on its stack is in it.
WaitingExact ==
    /\ TypeOK
    /\ \A t \in Range(waiting) : thr[t].exists /\ thr[t].stack = <<>>
                                 /\ thr[t].pc \in {"blocked", "woken", "storing", "parked"}
    /\ \A t \in Thread : Asleep(t) /\ thr[t].stack = <<>> => t \in Range(waiting)

\* A parked call is resumed once: as long as it is parked either the driver
\* holds its resume or one actor is about to run it, and no resume is left over
\* for a call that is over.
ResumedOnce ==
    \A t \in Thread :
        LET holders == {a \in Actor : Resume(t) \in out[a]}
        IN  /\ thr[t].parked \/ holders # {} => thr[t].pc \in {"storing", "parked"}
            /\ thr[t].pc = "parked" => thr[t].parked \/ holders # {}
            /\ Cardinality(holders) + (IF thr[t].parked THEN 1 ELSE 0) <= 1

\* has_work never says yes for an empty list: the read loop would go round for
\* ever under the driver lock.
NoSpin == \A t \in Thread : thr[t].process_todo => thr[t].todo # <<>>

\* Threads come back to read and to reply, and an actor delivers the wakes it
\* has collected.
Fairness ==
    /\ \A t \in Thread :
          /\ WF_vars(Again(t) \/ Store(t) \/ Reissue(t) \/ Return(t))
          /\ SF_vars(Ioctl(t, "none", TRUE)) /\ SF_vars(Ioctl(t, "reply", TRUE))
    /\ \A a \in Actor : \A wake \in {"notify", "resume"} \X Thread \cup {Other} :
          WF_vars(Deliver(a, wake))

FairSpec == Spec /\ Fairness

\* Work queued to the process is read, if its threads serve: one that makes a
\* call of its own whenever it comes reads only what is queued to itself.
WorkIsRead == \A i \in Item : i \in Range(ptodo) ~> i \notin Range(ptodo)
=============================================================================
