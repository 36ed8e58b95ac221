----------------------------- MODULE BinderDeath -----------------------------
(***************************************************************************)
(* Death notifications of the binder driver (aim-binder-driver:            *)
(* death_command and BC_DEAD_BINDER_DONE of write.rs, Work::Death of       *)
(* read.rs, node_release, release_work, thread and process release of      *)
(* release.rs, cleanup_ref and the death queue of state.rs).               *)
(*                                                                         *)
(* A registration hangs on a handle.  It is told to the process once the   *)
(* node's owner is gone, acknowledged with BC_DEAD_BINDER_DONE, and can be *)
(* cleared at any point of that.  Handles are held or not (BinderRefs      *)
(* counts them), and the only work on a list is death work.  Every         *)
(* operation runs under the driver lock and is one action.                 *)
(***************************************************************************)
EXTENDS Integers, Sequences, FiniteSets, SequencesExt

CONSTANTS
    Proc,      \* processes
    Thread,    \* threads ...
    ProcOf,    \* ... and their processes
    Node,      \* nodes ...
    Owner,     \* ... and the processes that own them
    Cookie,    \* cookies a process registers with
    DeathId,   \* 1..n: death ids; an id is reused once nothing has it
    None

ASSUME DeathAssumption ==
    /\ ProcOf \in [Thread -> Proc] /\ Owner \in [Node -> Proc]
    /\ DeathId \subseteq Nat
    /\ None \notin Proc \cup Thread \cup Node \cup DeathId

VARIABLES
    alive,      \* processes that have the device open
    looper,     \* Thread -> "none" (no thread), "up", "looper" (entered)
    held,       \* <<p, n>>: p has a handle for n
    on,         \* Proc -> Node -> Ref.death
    death,      \* DeathId -> Death, or NoDeath
    todo,       \* Thread -> its todo list
    ptodo,      \* Proc -> its todo list
    delivered   \* Proc -> delivered_death

vars == <<alive, looper, held, on, death, todo, ptodo, delivered>>

\* The code keeps the first four fields.  The others are for the properties: the
\* node, how often BR_DEAD_BINDER was sent, and whether it was acknowledged.
NoDeath == [proc |-> None, cookie |-> None, state |-> "none", location |-> None,
            node |-> None, told |-> 0, acked |-> FALSE]

NewDeath(p, c, n, state) ==
    [NoDeath EXCEPT !.proc = p, !.cookie = c, !.node = n, !.state = state]

\* Locations: None, Delivered, the process's list, a thread's.
Delivered == [list |-> "delivered", tid |-> None]

OnProc == [list |-> "proc", tid |-> None]

OnThread(t) == [list |-> "thread", tid |-> t]

State == [on |-> on, death |-> death, todo |-> todo, ptodo |-> ptodo,
          delivered |-> delivered]

Become(S) ==
    /\ on' = S.on /\ death' = S.death /\ todo' = S.todo
    /\ ptodo' = S.ptodo /\ delivered' = S.delivered

Dead(n) == Owner[n] \notin alive

-----------------------------------------------------------------------------
(* The death queue                                                          *)

QueueOnProc(S, d, p) ==
    [S EXCEPT !.death[d].location = OnProc, !.ptodo[p] = Append(@, d)]

\* queue_death_for_thread_or_proc
QueueDeath(S, d, p, t) ==
    IF looper[t] = "looper"
    THEN [S EXCEPT !.death[d].location = OnThread(t), !.todo[t] = Append(@, d)]
    ELSE QueueOnProc(S, d, p)

\* Mutant: a delivered death stays on the list of delivered ones.
DequeueDeathQueued(S, d) ==
    LET x == S.death[d]
        S1 == [S EXCEPT !.death[d].location = None]
    IN  CASE x.location = OnProc -> [S1 EXCEPT !.ptodo[x.proc] = Remove(@, d)]
          [] x.location \in {None, Delivered} -> S1
          [] OTHER -> [S1 EXCEPT !.todo[x.location.tid] = Remove(@, d)]

\* dequeue_death_work
DequeueDeath(S, d) ==
    LET x == S.death[d]
        S1 == [S EXCEPT !.death[d].location = None]
    IN  CASE x.location = None -> S1
          [] x.location = OnProc -> [S1 EXCEPT !.ptodo[x.proc] = Remove(@, d)]
          [] x.location = Delivered ->
                [S1 EXCEPT !.delivered[x.proc] = SelectSeq(@, LAMBDA e : e # d)]
          [] OTHER -> [S1 EXCEPT !.todo[x.location.tid] = Remove(@, d)]

\* The death half of cleanup_ref.
CleanupRef(S, p, n) ==
    LET d == S.on[p][n]
    IN  IF d = None THEN S
        ELSE [DequeueDeath(S, d) EXCEPT !.on[p][n] = None, !.death[d] = NoDeath]

\* release_work: a cleared registration goes, an uncleared one is taken off
\* the list.
ReleaseWork(S, list) ==
    LET gone == {d \in Range(list) : S.death[d].state \in {"clear", "dead_and_clear"}}
    IN  [S EXCEPT !.death = [d \in DeathId |->
            IF d \in gone THEN NoDeath
            ELSE IF d \in Range(list) /\ @[d] # NoDeath THEN [@[d] EXCEPT !.location = None]
            ELSE @[d]]]

-----------------------------------------------------------------------------
(* Commands                                                                 *)

\* An id nothing has; the code counts up.
Mentioned ==
    {d \in DeathId :
        \/ death[d] # NoDeath
        \/ \E t \in Thread : d \in Range(todo[t])
        \/ \E p \in Proc : d \in Range(ptodo[p]) \/ d \in Range(delivered[p])
        \/ \E p \in Proc, n \in Node : on[p][n] = d}

Fresh == CHOOSE d \in DeathId \ Mentioned : \A e \in DeathId \ Mentioned : d <= e

\* Mutant: registering for a node that is already dead only arms it.
RequestArmsOnly(p, n, c) ==
    /\ \E t \in Thread : ProcOf[t] = p /\ looper[t] # "none"
    /\ <<p, n>> \in held /\ on[p][n] = None /\ Mentioned # DeathId
    /\ \E d \in {Fresh} :
          Become([State EXCEPT !.on[p][n] = d, !.death[d] = NewDeath(p, c, n, "armed")])
    /\ UNCHANGED <<alive, looper, held>>

\* BC_REQUEST_DEATH_NOTIFICATION; a second registration on a handle is ignored.
Request(p, n, c) ==
    /\ \E t \in Thread : ProcOf[t] = p /\ looper[t] # "none"
    /\ <<p, n>> \in held /\ on[p][n] = None /\ Mentioned # DeathId
    /\ \E d \in {Fresh} :
       \E S \in {[State EXCEPT !.on[p][n] = d,
                               !.death[d] = NewDeath(p, c, n, IF Dead(n) THEN "dead" ELSE "armed")]} :
          Become(IF Dead(n) THEN QueueOnProc(S, d, p) ELSE S)
    /\ UNCHANGED <<alive, looper, held>>

\* BC_CLEAR_DEATH_NOTIFICATION by thread t; ignored with another cookie.
Clear(p, t, n, c) ==
    LET d == on[p][n]
        S == [State EXCEPT !.on[p][n] = None]
    IN  /\ looper[t] # "none" /\ ProcOf[t] = p
        /\ <<p, n>> \in held /\ d # None
        /\ death[d].cookie = c
        /\ Become(IF death[d].location = None
                  THEN QueueDeath([S EXCEPT !.death[d].state = "clear"], d, p, t)
                  ELSE [S EXCEPT !.death[d].state = "dead_and_clear"])
        /\ UNCHANGED <<alive, looper, held>>

\* Mutant: the acknowledgement does not complete a pending clear.
DeadBinderDoneOnly(p, t, c) ==
    LET k == SelectInSeq(delivered[p], LAMBDA d : death[d].cookie = c)
    IN  /\ looper[t] # "none" /\ ProcOf[t] = p
        /\ k # 0
        /\ LET d == delivered[p][k]
           IN  Become(DequeueDeath([State EXCEPT !.death[d].acked = TRUE], d))
        /\ UNCHANGED <<alive, looper, held>>

\* BC_DEAD_BINDER_DONE by thread t: the first delivered death with the cookie.
DeadBinderDone(p, t, c) ==
    LET k == SelectInSeq(delivered[p], LAMBDA d : death[d].cookie = c)
    IN  /\ looper[t] # "none" /\ ProcOf[t] = p
        /\ k # 0
        /\ LET d == delivered[p][k]
               S == DequeueDeath([State EXCEPT !.death[d].acked = TRUE], d)
           IN  Become(IF death[d].state = "dead_and_clear"
                      THEN QueueDeath([S EXCEPT !.death[d].state = "clear"], d, p, t)
                      ELSE S)
        /\ UNCHANGED <<alive, looper, held>>

-----------------------------------------------------------------------------
(* Reading                                                                  *)

\* Work::Death: BR_CLEAR_DEATH_NOTIFICATION_DONE ends the registration,
\* BR_DEAD_BINDER waits for its acknowledgement.
Deliver(S, p, d) ==
    IF S.death[d].state \in {"none", "clear"} THEN [S EXCEPT !.death[d] = NoDeath]
    ELSE [S EXCEPT !.death[d] = [@ EXCEPT !.location = Delivered, !.told = @ + 1,
                                          !.acked = FALSE],
                   !.delivered[p] = Append(@, d)]

\* One item of the thread's own list; of the process's, by a thread with
\* nothing of its own.
ReadThread(t) ==
    /\ looper[t] # "none" /\ todo[t] # <<>>
    /\ Become(Deliver([State EXCEPT !.todo[t] = Tail(@)], ProcOf[t], Head(todo[t])))
    /\ UNCHANGED <<alive, looper, held>>

ReadProc(t) ==
    LET p == ProcOf[t]
    IN  /\ looper[t] # "none" /\ todo[t] = <<>> /\ ptodo[p] # <<>>
        /\ Become(Deliver([State EXCEPT !.ptodo[p] = Tail(@)], p, Head(ptodo[p])))
        /\ UNCHANGED <<alive, looper, held>>

-----------------------------------------------------------------------------
(* Handles, threads and processes come and go                               *)

\* A process gets a handle for a node of a living process.
Take(p, n) ==
    /\ p \in alive /\ ~Dead(n) /\ Owner[n] # p /\ <<p, n>> \notin held
    /\ held' = held \cup {<<p, n>>}
    /\ UNCHANGED <<alive, looper, on, death, todo, ptodo, delivered>>

\* cleanup_ref: the last reference of the handle is dropped.
Drop(p, n) ==
    /\ <<p, n>> \in held
    /\ held' = held \ {<<p, n>>}
    /\ Become(CleanupRef(State, p, n))
    /\ UNCHANGED <<alive, looper>>

\* thread_or_create, and BC_ENTER_LOOPER or BC_REGISTER_LOOPER.
Enter(t) ==
    /\ ProcOf[t] \in alive
    /\ looper' = [looper EXCEPT ![t] = IF @ = "none" THEN "up" ELSE "looper"]
    /\ UNCHANGED <<alive, held, on, death, todo, ptodo, delivered>>

\* thread_release
ThreadRelease(S, t) == ReleaseWork([S EXCEPT !.todo[t] = <<>>], S.todo[t])

ThreadExit(t) ==
    /\ looper[t] # "none"
    /\ looper' = [looper EXCEPT ![t] = "none"]
    /\ Become(ThreadRelease(State, t))
    /\ UNCHANGED <<alive, held>>

\* The registrations on the nodes of p.
Registered(S, p) ==
    {d \in DeathId : \E q \in Proc, n \in Node : Owner[n] = p /\ S.on[q][n] = d}

\* Mutant: the registration is marked, nothing is queued.
FireQuietly(S, d) == [S EXCEPT !.death[d].state = "dead"]

Fire(S, d) == QueueOnProc([S EXCEPT !.death[d].state = "dead"], d, S.death[d].proc)

\* node_release of the nodes of p: every registration on them fires, in any
\* order.
NodesReleases(S, p) ==
    {FoldLeft(Fire, S, order) : order \in SetToSeqs(Registered(S, p))}

\* release_proc: the threads, the nodes, the handles, then what is on the
\* process's lists.
ReleaseProc(p) ==
    /\ p \in alive
    /\ alive' = alive \ {p}
    /\ looper' = [t \in Thread |-> IF ProcOf[t] = p THEN "none" ELSE looper[t]]
    /\ held' = {h \in held : h[1] # p}
    /\ \E S1 \in {FoldSet(LAMBDA t, R : ThreadRelease(R, t), State,
                          {t \in Thread : ProcOf[t] = p})} :
       \E S2 \in NodesReleases(S1, p) :
       \E S3 \in {FoldSet(LAMBDA n, R : CleanupRef(R, p, n), S2, Node)} :
          Become(ReleaseWork(ReleaseWork([S3 EXCEPT !.ptodo[p] = <<>>, !.delivered[p] = <<>>],
                                         S3.ptodo[p]), S3.delivered[p]))

Init ==
    /\ alive = Proc
    /\ looper = [t \in Thread |-> "none"]
    /\ held = {}
    /\ on = [p \in Proc |-> [n \in Node |-> None]]
    /\ death = [d \in DeathId |-> NoDeath]
    /\ todo = [t \in Thread |-> <<>>]
    /\ ptodo = [p \in Proc |-> <<>>]
    /\ delivered = [p \in Proc |-> <<>>]

Next ==
    \/ \E t \in Thread : Enter(t) \/ ThreadExit(t) \/ ReadThread(t) \/ ReadProc(t)
    \/ \E p \in Proc : ReleaseProc(p)
    \/ \E p \in Proc, n \in Node : Take(p, n) \/ Drop(p, n)
    \/ \E p \in Proc, n \in Node, c \in Cookie : Request(p, n, c)
    \/ \E t \in Thread, c \in Cookie :
          \/ \E n \in Node : Clear(ProcOf[t], t, n, c)
          \/ DeadBinderDone(ProcOf[t], t, c)

Spec == Init /\ [][Next]_vars

\* A thread of p is in the driver and has nothing of its own to read.
Idle(p) == \E t \in Thread : ProcOf[t] = p /\ looper[t] # "none" /\ todo[t] = <<>>

\* What the processes owe the driver.  Threads read what is queued to them, and
\* a process acknowledges what it is told.  Now and then one of its threads has
\* nothing of its own and reads the process's list: a thread that cleared a
\* registration in every ioctl would never get to it.
Fairness ==
    /\ \A t \in Thread : SF_vars(ReadThread(t))
    /\ \A p \in Proc :
          /\ []<>(p \in alive => Idle(p))
          /\ SF_vars(\E t \in Thread : ProcOf[t] = p /\ ReadProc(t))
          /\ \A c \in Cookie :
                SF_vars(\E t \in Thread : ProcOf[t] = p /\ DeadBinderDone(p, t, c))

FairSpec == Spec /\ Fairness

-----------------------------------------------------------------------------
(* Properties                                                               *)

Location == {None, Delivered, OnProc} \cup {OnThread(t) : t \in Thread}

\* The type invariant.
TypeOK ==
    /\ alive \subseteq Proc
    /\ looper \in [Thread -> {"none", "up", "looper"}]
    /\ held \subseteq Proc \X Node
    /\ on \in [Proc -> [Node -> DeathId \cup {None}]]
    /\ \A d \in DeathId : death[d] = NoDeath \/
          /\ death[d].proc \in Proc /\ death[d].cookie \in Cookie /\ death[d].node \in Node
          /\ death[d].state \in {"armed", "dead", "dead_and_clear", "clear"}
          /\ death[d].location \in Location
          /\ death[d].told \in Nat /\ death[d].acked \in BOOLEAN
    /\ todo \in [Thread -> Seq(DeathId)]
    /\ ptodo \in [Proc -> Seq(DeathId)] /\ delivered \in [Proc -> Seq(DeathId)]

Times(d, list) == Cardinality({k \in DOMAIN list : list[k] = d})

One(c) == IF c THEN 1 ELSE 0

\* A registration is exactly where it says it is, once: the location decides
\* where cleanup_ref and BC_DEAD_BINDER_DONE take it off.  And a list holds
\* nothing that is gone: BC_DEAD_BINDER_DONE indexes deaths with what
\* delivered_death holds.
LocationsExact ==
    /\ TypeOK
    /\ \A d \in DeathId :
        /\ \A t \in Thread : Times(d, todo[t]) = One(death[d].location = OnThread(t))
        /\ \A p \in Proc :
              LET mine == death[d].proc = p
              IN  /\ Times(d, ptodo[p]) = One(mine /\ death[d].location = OnProc)
                  /\ Times(d, delivered[p]) = One(mine /\ death[d].location = Delivered)

\* Handles and registrations agree.  A handle's registration is the process's
\* own, armed exactly while the node's owner lives and then on no list, so
\* node_release may queue it without looking; one that no handle has is
\* being cleared and is still on a list, so nothing is left behind, not even
\* by a process that is gone.
HandlesAgree ==
    /\ \A p \in Proc, n \in Node : on[p][n] # None =>
          LET x == death[on[p][n]]
          IN  /\ <<p, n>> \in held /\ x.proc = p /\ x.node = n
              /\ x.state = IF Dead(n) THEN "dead" ELSE "armed"
              /\ x.state = "armed" => x.location = None
    /\ \A d \in DeathId : death[d] # NoDeath =>
          /\ death[d].proc \in alive
          /\ \/ on[death[d].proc][death[d].node] = d
             \/ death[d].state \in {"clear", "dead_and_clear"} /\ death[d].location # None

\* What a process is told, and in which order.  A death is told once and never
\* missed: a registration for a node whose owner is gone was told to the
\* process, or is on its list; one for a node whose owner lives was not told.
\* And BR_CLEAR_DEATH_NOTIFICATION_DONE is the last word: when it is sent the
\* process has cleared the registration and has acknowledged the BR_DEAD_BINDER
\* it was sent, if any.
ToldInOrder ==
    \A d \in DeathId :
        /\ death[d].state \in {"armed", "dead"} =>
              death[d].told = IF Dead(death[d].node) /\ death[d].location # OnProc THEN 1 ELSE 0
        /\ death[d].state = "clear" =>
              /\ \A p \in Proc, n \in Node : on[p][n] # d
              /\ death[d].told = 1 => death[d].acked
              /\ death[d].told <= 1

\* Every death is told: a process with a registration for a node whose owner
\* goes away reads BR_DEAD_BINDER, unless it clears the registration or drops
\* the handle or goes away itself.
DeathsTold ==
    \A n \in Node : \A p \in Proc \ {Owner[n]} :
        (on[p][n] # None /\ Dead(n)) ~> (on[p][n] = None \/ death[on[p][n]].told = 1)

\* Every clear is completed: a cleared registration ends.
ClearsEnd == \A d \in DeathId :
    (death[d].state \in {"clear", "dead_and_clear"}) ~> (death[d].state \in {"none", "armed", "dead"})

\* Whoever registered hears of it: of the death, and of the end of a clear.
NoticesEnd == DeathsTold /\ ClearsEnd
=============================================================================
