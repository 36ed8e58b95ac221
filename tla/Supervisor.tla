------------------------------ MODULE Supervisor ------------------------------
(***************************************************************************)
(* init's services: the flags of every service record                      *)
(* (aim-guest-init's supervisor.rs), the commands and control messages     *)
(* that change them (executor.rs), the action queue that a blocking exec   *)
(* holds up (aim-android-init's engine), and init's shutdown (boot.rs).    *)
(*                                                                         *)
(* All of it runs on init's one main thread; what interleaves is the order *)
(* of requests, of process exits and of the restarts that fall due.  The   *)
(* supervisor queues its events and the owner drains them at the end of    *)
(* every handler: `init.svc.*` and ExecFinished are applied here with the  *)
(* handler that queues them, the commands of `onrestart` are `pending` and *)
(* run before anything else.  The time at which a restart is due, whether  *)
(* a launch succeeds and how a process exits are not determined.           *)
(***************************************************************************)
EXTENDS Integers, Sequences, FiniteSets

CONSTANTS
  Service,      \* the services the scripts declare
  Temp,         \* places for the temporary services of `exec`
  Defined,      \* Defined[s]: the flags of s's definition (ServiceRecord::new)
  Updatable,    \* services that wait for the default linker configuration
  Reboots,      \* services with reboot_on_failure
  Timed,        \* services with a timeout_period
  Late,         \* shutdown critical and debugging services
  OnRestart,    \* OnRestart[s]: the commands of s's onrestart
  Requests,     \* the commands that are asked for
  CrashLimit    \* CRITICAL_CRASH_LIMIT

Flag == {"DISABLED", "ONESHOT", "RUNNING", "RESTARTING", "CRITICAL", "RESET",
         "RC_DISABLED", "RESTART", "DISABLED_START", "EXEC", "TEMPORARY",
         "GENTLE_KILL"}
Record == Service \cup Temp
Command ==
  [op : {"start", "class_start", "stop", "reset", "restart", "enable",
         "oneshot_on", "oneshot_off", "exec_start"}, s : Service]
  \cup [op : {"exec", "exec_background"}]

ASSUME SupervisorAssumption ==
  /\ IsFiniteSet(Service) /\ Service \cap Temp = {}
  /\ Defined \in [Service -> SUBSET {"DISABLED", "RC_DISABLED", "ONESHOT",
                                     "CRITICAL", "GENTLE_KILL"}]
  /\ \A s \in Service : "DISABLED" \in Defined[s] <=> "RC_DISABLED" \in Defined[s]
  /\ Updatable \subseteq Service /\ Reboots \subseteq Service
  /\ Timed \subseteq Service /\ Late \subseteq Service
  /\ OnRestart \in [Service -> Seq(Command)]
  /\ Requests \subseteq Command
  /\ CrashLimit \in Nat

VARIABLES
  flags,        \* ServiceRecord::flags; a temporary service not there has none
  live,         \* the records with a pid: their process is not reaped yet
  killed,       \* those whose process was sent SIGKILL
  svc,          \* the value of init.svc.<name>
  started,      \* the services with a start_order
  delayed,      \* Supervisor::delayed
  ready,        \* the default linker configuration is there
  crashes,      \* ServiceRecord::crash_count
  window,       \* services whose time_crashed is less than their window ago
  booted,       \* sys.boot_completed is 1
  pending,      \* commands the drain of the supervisor's events still runs
  exec_running, \* ActionManager::exec_running
  halt,         \* executor.fatal or executor.shutdown is set
  phase,        \* where init is: its main loop, or a part of finish
  asked         \* what the last request for a service wants (not in the code)

vars == <<flags, live, killed, svc, started, delayed, ready, crashes, window,
          booted, pending, exec_running, halt, phase, asked>>

Init ==
  /\ flags = [r \in Record |-> IF r \in Service THEN Defined[r] ELSE {}]
  /\ live = {} /\ killed = {} /\ started = {} /\ delayed = {}
  /\ svc = [s \in Service |-> "unset"]
  /\ crashes = [s \in Service |-> 0] /\ window = {} /\ booted = FALSE
  /\ ready = (Updatable = {})
  /\ pending = <<>>
  /\ exec_running = FALSE
  /\ halt = FALSE
  /\ phase = "run"
  /\ asked = [s \in Service |-> "none"]

-----------------------------------------------------------------------------
(* What a command does to one record.  f is the record's flags when start is *)
(* called: exec_start adds two of its own first.                             *)

Cleared == {"DISABLED", "RESTARTING", "RESET", "RESTART", "DISABLED_START"}

NotReady(s) == s \in Updatable /\ ~ready

\* Mutant: the flags are cleared only on the way to a launch.
AlreadyRunningKeeps(s, f) ==
  /\ ~NotReady(s) /\ "RUNNING" \in f
  /\ flags' = [flags EXCEPT ![s] = f]
  /\ asked' = [asked EXCEPT ![s] = IF @ = "stop" THEN "restart" ELSE @]
  /\ UNCHANGED <<live, killed, svc, started, delayed>>

\* The service is known, may start and has a process: only its flags change.
\* A oneshot service on its way out is marked to start again.
AlreadyRunning(s, f) ==
  /\ ~NotReady(s)
  /\ "RUNNING" \in f
  /\ flags' = [flags EXCEPT ![s] = (f \ Cleared) \cup
                 {x \in {"RESTART"} : "ONESHOT" \in f /\ f \cap {"DISABLED", "RESET"} # {}}]
  /\ asked' = [asked EXCEPT ![s] = IF @ = "stop" THEN "restart" ELSE @]
  /\ UNCHANGED <<live, killed, svc, started, delayed>>

\* It has none and launch gives it one.
Launches(s, f) ==
  /\ ~NotReady(s)
  /\ "RUNNING" \notin f
  /\ flags' = [flags EXCEPT ![s] = (f \ Cleared) \cup {"RUNNING"}]
  /\ live' = live \cup {s}
  /\ killed' = killed \ {s}
  /\ svc' = [svc EXCEPT ![s] = "running"]
  /\ started' = started \cup {s}
  /\ asked' = [asked EXCEPT ![s] = "none"]
  /\ UNCHANGED delayed

\* plan or launch fails (exec_start then takes its flag back).
LaunchFails(s, f) ==
  /\ ~NotReady(s)
  /\ "RUNNING" \notin f
  /\ flags' = [flags EXCEPT ![s] = ((f \ Cleared) \cup {"DISABLED"}) \ {"EXEC"}]
  /\ asked' = [asked EXCEPT ![s] = "none"]
  /\ UNCHANGED <<live, killed, svc, started, delayed>>

\* Too early for an updatable service: remembered, and nothing else.
Delays(s, f) ==
  /\ NotReady(s)
  /\ delayed' = delayed \cup {s}
  /\ flags' = [flags EXCEPT ![s] = f]
  /\ asked' = [asked EXCEPT ![s] = "none"]
  /\ UNCHANGED <<live, killed, svc, started>>

\* Supervisor::start
Start(s, f) ==
  \/ AlreadyRunning(s, f)
  \/ Launches(s, f)
  \/ LaunchFails(s, f)
  \/ Delays(s, f)

\* Supervisor::start_if_not_disabled, for class_start.
StartIfNotDisabled(s) ==
  \/ "DISABLED" \notin flags[s] /\ Start(s, flags[s])
  \/ /\ "DISABLED" \in flags[s]
     /\ flags' = [flags EXCEPT ![s] = @ \cup {"DISABLED_START"}]
     /\ UNCHANGED <<live, killed, svc, started, delayed, asked>>

\* Supervisor::enable
Enable(s) ==
  LET f == flags[s] \ {"DISABLED", "RC_DISABLED"} IN
  \/ "DISABLED_START" \in f /\ Start(s, f)
  \/ /\ "DISABLED_START" \notin f
     /\ flags' = [flags EXCEPT ![s] = f]
     /\ asked' = [asked EXCEPT ![s] = IF @ = "stop" THEN "none" ELSE @]
     /\ UNCHANGED <<live, killed, svc, started, delayed>>

\* Mutant: a restart that is due stays due.
DownKeepsDue(s, how) == (flags[s] \ {"DISABLED_START"}) \cup {how}

\* The flags of a service that is stopped, reset or restarted.
Down(s, how) ==
  (flags[s] \ {"RESTARTING", "DISABLED_START"}) \cup
  {IF how = "RESET" /\ "RC_DISABLED" \in flags[s] THEN "DISABLED" ELSE how}

\* Mutant: the process counts as gone once it is signalled.
StopStateAtOnce(s) == "stopped"

\* What stop_or_reset publishes.
StopState(s) == IF s \in live THEN "stopping" ELSE "stopped"

\* Supervisor::stop_or_reset
StopOrReset(s, how) ==
  /\ flags' = [flags EXCEPT ![s] = Down(s, how)]
  /\ killed' = IF s \in live /\ "GENTLE_KILL" \notin flags[s] THEN killed \cup {s} ELSE killed
  /\ svc' = [svc EXCEPT ![s] = StopState(s)]
  /\ asked' = [asked EXCEPT ![s] =
       IF how # "RESTART" THEN "stop"
       ELSE IF flags[s] \cap {"DISABLED", "RESET"} = {} THEN "restart" ELSE @]
  /\ UNCHANGED <<live, started, delayed>>

\* Supervisor::restart
Restart(s) ==
  \/ "RUNNING" \in flags[s] /\ StopOrReset(s, "RESTART")
  \/ flags[s] \cap {"RUNNING", "RESTARTING"} = {} /\ Start(s, flags[s])
  \/ /\ flags[s] \cap {"RUNNING", "RESTARTING"} = {"RESTARTING"}
     /\ UNCHANGED <<flags, live, killed, svc, started, delayed, asked>>

\* Supervisor::set_oneshot.  A service that becomes oneshot need not start again.
SetOneshot(s, on) ==
  /\ flags' = [flags EXCEPT ![s] = IF on THEN @ \cup {"ONESHOT"} ELSE @ \ {"ONESHOT"}]
  /\ asked' = [asked EXCEPT ![s] = IF on /\ @ = "restart" THEN "none" ELSE @]
  /\ UNCHANGED <<live, killed, svc, started, delayed>>

\* Mutant: a service that did not start holds the queue up as well.
ExecStartAnyway(s, queue) ==
  LET f == flags[s] \cup {"ONESHOT", "EXEC"} IN
  /\ AlreadyRunning(s, f) \/ Launches(s, f) \/ LaunchFails(s, f)
  /\ exec_running' = (queue \/ exec_running)

\* Supervisor::exec_start of a declared service; refused before it is ready.
\* Run by the action queue, it holds the queue up.
ExecStart(s, queue) ==
  LET f == flags[s] \cup {"ONESHOT", "EXEC"} IN
  \/ (AlreadyRunning(s, f) \/ Launches(s, f)) /\ exec_running' = (queue \/ exec_running)
  \/ LaunchFails(s, f) /\ UNCHANGED exec_running
  \/ /\ NotReady(s)
     /\ UNCHANGED <<flags, live, killed, svc, started, delayed, asked, exec_running>>

\* exec and exec_background: add_exec_service, then exec_start or start of the
\* temporary service, which publishes nothing and goes if it does not start.
\* Temp bounds how many of them there are at a time.
Exec(blocking, queue) ==
  \/ \E e \in Temp :
       /\ flags[e] = {}
       /\ flags' = [flags EXCEPT ![e] = {"TEMPORARY", "ONESHOT", "RUNNING"} \cup
                                        {x \in {"EXEC"} : blocking}]
       /\ live' = live \cup {e}
       /\ killed' = killed \ {e}
       /\ exec_running' = ((blocking /\ queue) \/ exec_running)
       /\ UNCHANGED <<svc, started, delayed, asked>>
  \/ UNCHANGED <<flags, live, killed, svc, started, delayed, asked, exec_running>>

\* GuestExecutor::run_command; queue says whether the action queue runs it.
RunCommand(c, queue) ==
  \/ c.op = "exec_start" /\ ExecStart(c.s, queue)
  \/ c.op = "exec" /\ Exec(TRUE, queue)
  \/ c.op = "exec_background" /\ Exec(FALSE, queue)
  \/ /\ \/ c.op = "start" /\ Start(c.s, flags[c.s])
        \/ c.op = "class_start" /\ StartIfNotDisabled(c.s)
        \/ c.op = "stop" /\ StopOrReset(c.s, "DISABLED")
        \/ c.op = "reset" /\ StopOrReset(c.s, "RESET")
        \/ c.op = "restart" /\ Restart(c.s)
        \/ c.op = "enable" /\ Enable(c.s)
        \/ c.op = "oneshot_on" /\ SetOneshot(c.s, TRUE)
        \/ c.op = "oneshot_off" /\ SetOneshot(c.s, FALSE)
     /\ UNCHANGED exec_running

-----------------------------------------------------------------------------
(* The main thread.  Nothing runs while commands are pending.                *)

Idle(phases) == pending = <<>> /\ phase \in phases

\* The action queue runs a command, unless an exec service holds it up.
QueueCommand(c) ==
  /\ Idle({"run"}) /\ ~halt /\ ~exec_running
  /\ c.op \notin {"oneshot_on", "oneshot_off"}
  /\ RunCommand(c, TRUE)
  /\ UNCHANGED <<ready, crashes, window, booted, pending, halt, phase>>

\* handle_set_request of a control message, which the main loop and the wait
\* of the shutdown take.
Control(c) ==
  /\ Idle({"run", "wait"}) /\ ~(halt /\ phase = "run")
  /\ c.op \in {"start", "stop", "restart", "oneshot_on", "oneshot_off"}
  /\ RunCommand(c, FALSE)
  /\ UNCHANGED <<ready, crashes, window, booted, pending, halt, phase>>

\* run_onrestart, and the starts of delayed services, one command.
RunPending ==
  /\ pending # <<>>
  /\ pending' = Tail(pending)
  /\ RunCommand(Head(pending), FALSE)
  /\ UNCHANGED <<ready, crashes, window, booted, halt, phase>>

\* perform_apex_config, as far as services go: the default linker configuration
\* is there, and delayed services start, in some order.
LinkerReady ==
  /\ Idle({"run"}) /\ ~halt /\ ~exec_running /\ ~ready
  /\ ready' = TRUE
  /\ delayed' = {}
  /\ \E order \in {q \in [1..Cardinality(delayed) -> delayed] :
                     \A s \in delayed : \E i \in DOMAIN q : q[i] = s} :
       pending' = [i \in DOMAIN order |-> [op |-> "start", s |-> order[i]]]
  /\ UNCHANGED <<flags, live, killed, svc, started, crashes, window, booted,
                 exec_running, halt, phase, asked>>

\* A failed exit of a critical service nobody asked to stop: more than
\* CRITICAL_CRASH_LIMIT of them in a window, or before the boot is complete,
\* end the boot.
Crash(s) ==
  IF s \in window \/ ~booted
  THEN /\ crashes' = [crashes EXCEPT ![s] = IF @ > CrashLimit THEN @ ELSE @ + 1]
       /\ window' = window
  ELSE /\ crashes' = [crashes EXCEPT ![s] = 1]
       /\ window' = window \cup {s}

\* The part of reap after the record lost its process; f is its flags.
Settle(s, ok, f) ==
  IF f \cap {"DISABLED", "RESET"} # {}
  THEN /\ flags' = [flags EXCEPT ![s] = f]
       /\ svc' = [svc EXCEPT ![s] = "stopped"]
       /\ halt' = (halt \/ (~ok /\ s \in Reboots))
       /\ UNCHANGED <<pending, crashes, window>>
  ELSE /\ IF "CRITICAL" \in f /\ "RESTART" \notin f /\ ~ok
          THEN Crash(s)
          ELSE UNCHANGED <<crashes, window>>
       /\ flags' = [flags EXCEPT ![s] = (f \ {"RESTART"}) \cup {"RESTARTING"}]
       /\ svc' = [svc EXCEPT ![s] = "restarting"]
       /\ pending' = OnRestart[s]
       /\ halt' = (halt \/ (~ok /\ s \in Reboots) \/ crashes'[s] > CrashLimit)

\* Supervisor::reap of the process of r, and the drain of its events.
Reap(r, ok) ==
  /\ Idle({"run", "wait", "reap"})
  /\ r \in live
  /\ live' = live \ {r}
  /\ killed' = killed \ {r}
  /\ exec_running' = (exec_running /\ "EXEC" \notin flags[r])
  /\ IF "TEMPORARY" \in flags[r]
     THEN /\ flags' = [flags EXCEPT ![r] = {}]
          /\ UNCHANGED <<svc, asked, pending, crashes, window, halt>>
     ELSE /\ Settle(r, ok, (flags[r] \ {"EXEC", "RUNNING"}) \cup
                  {x \in {"DISABLED"} : "ONESHOT" \in flags[r] /\ flags[r] \cap {"RESTART", "RESET"} = {}})
          /\ asked' = [asked EXCEPT ![r] = IF @ = "restart" THEN "none" ELSE @]
  /\ UNCHANGED <<started, delayed, ready, booted, phase>>

\* process_actions: a restart falls due, or a process outlives its timeout.
RestartDue(s) ==
  /\ Idle({"run", "wait"})
  /\ "RESTARTING" \in flags[s]
  /\ Start(s, flags[s])
  /\ UNCHANGED <<ready, crashes, window, booted, pending, exec_running, halt, phase>>
TimeoutKill(s) ==
  /\ Idle({"run", "wait"})
  /\ s \in Timed \ killed /\ "RUNNING" \in flags[s] /\ s \in live
  /\ killed' = killed \cup {s}
  /\ UNCHANGED <<flags, live, svc, started, delayed, ready, crashes, window, booted,
                 pending, exec_running, halt, phase, asked>>

\* The boot completes; a crash window ends.
BootCompletes ==
  /\ ~booted
  /\ booted' = TRUE
  /\ UNCHANGED <<flags, live, killed, svc, started, delayed, ready, crashes, window,
                 pending, exec_running, halt, phase, asked>>
WindowEnds(s) ==
  /\ s \in window
  /\ window' = window \ {s}
  /\ UNCHANGED <<flags, live, killed, svc, started, delayed, ready, crashes, booted,
                 pending, exec_running, halt, phase, asked>>

\* Supervisor::stop_for_shutdown of the services shutdown_stop_first names.
StopForShutdown ==
  LET stop == started \ Late IN
  /\ flags' = [r \in Record |->
       IF r \in stop THEN (flags[r] \ {"RESTARTING", "DISABLED_START"}) \cup {"DISABLED"}
                     ELSE flags[r]]
  /\ svc' = [s \in Service |-> IF s \in stop \cap live THEN "stopping" ELSE svc[s]]
  /\ asked' = [s \in Service |-> IF s \in stop THEN "stop" ELSE asked[s]]

\* finish: the services get SIGTERM and time to exit, ...
Shutdown ==
  /\ Idle({"run"})
  /\ phase' = "wait"
  /\ StopForShutdown
  /\ UNCHANGED <<live, killed, started, delayed, ready, crashes, window, booted,
                 pending, exec_running, halt>>

\* Mutant: services are killed without being marked as stopped.
KillAllOnly(r) == flags[r]

\* Supervisor::kill_all: the flags of a record, ...
KillAll(r) ==
  IF r \in Temp \ live THEN {} ELSE (flags[r] \ {"RESTARTING"}) \cup {"DISABLED"}

\* Mutant: only the services that were to stop first are killed.
KillTargetsFirst == live \cap (started \ Late)

\* ... and the processes that get SIGKILL.
KillTargets == live

\* ... then SIGKILL: stop_for_shutdown once more, and kill_all; ...
EndWait ==
  /\ Idle({"wait"})
  /\ phase' = "reap"
  /\ flags' = [r \in Record |->
       IF r \in started \ Late THEN KillAll(r) \ {"DISABLED_START"} ELSE KillAll(r)]
  /\ svc' = [s \in Service |-> IF s \in (started \ Late) \cap live THEN "stopping" ELSE svc[s]]
  /\ asked' = [s \in Service |-> "stop"]
  /\ killed' = KillTargets
  /\ UNCHANGED <<live, started, delayed, ready, crashes, window, booted,
                 pending, exec_running, halt>>

\* ... and reap_all_processes returns when the last one is reaped.
Finish ==
  /\ Idle({"reap"})
  /\ live = {}
  /\ phase' = "done"
  /\ UNCHANGED <<flags, live, killed, svc, started, delayed, ready, crashes, window,
                 booted, pending, exec_running, halt, asked>>

Next ==
  \/ \E c \in Requests : QueueCommand(c) \/ Control(c)
  \/ RunPending \/ LinkerReady
  \/ \E r \in Record, ok \in BOOLEAN : Reap(r, ok)
  \/ \E s \in Service : RestartDue(s) \/ TimeoutKill(s) \/ WindowEnds(s)
  \/ BootCompletes \/ Shutdown \/ EndWait \/ Finish

Spec == Init /\ [][Next]_vars

\* What keeps init going: it drains its events, its wait for the services has a
\* deadline, and a process that was sent SIGKILL exits and is reaped.
Fairness ==
  /\ WF_vars(RunPending) /\ SF_vars(EndWait) /\ WF_vars(Finish)
  /\ \A r \in Record : WF_vars(\E ok \in BOOLEAN : r \in killed /\ Reap(r, ok))
FairSpec == Spec /\ Fairness

-----------------------------------------------------------------------------
\* The type invariant.
TypeOK ==
  /\ flags \in [Record -> SUBSET Flag]
  /\ live \subseteq Record /\ killed \subseteq live
  /\ svc \in [Service -> {"unset", "running", "stopping", "stopped", "restarting"}]
  /\ started \subseteq Service /\ delayed \subseteq Updatable /\ ready \in BOOLEAN
  /\ crashes \in [Service -> 0..(CrashLimit + 1)]
  /\ window \subseteq Service /\ booted \in BOOLEAN
  /\ pending \in Seq(Command)
  /\ exec_running \in BOOLEAN /\ halt \in BOOLEAN
  /\ phase \in {"run", "wait", "reap", "done"}
  /\ asked \in [Service -> {"none", "stop", "restart"}]

\* A stop holds.  A service that was stopped or reset, by a command or by the
\* shutdown, is marked as down until another request starts or enables it: no
\* exit that is reaped late and no restart that falls due brings it back.  (A
\* start that was put off for the linker configuration is such a request when
\* it is run, though the stop may have come in between.)
StopWins ==
  \A s \in Service : asked[s] = "stop" =>
    flags[s] \cap {"DISABLED", "RESET"} # {} /\ "RESTARTING" \notin flags[s]

\* A restart holds, for a service that is not oneshot: when a running service
\* was asked to restart, or to start while it was being stopped, the exit of its
\* process will be followed by a restart, whatever else was asked meanwhile,
\* except a stop.
Revives ==
  \A s \in Service : asked[s] = "restart" /\ "ONESHOT" \notin flags[s] =>
    s \in live /\ "DISABLED" \notin flags[s] /\ "RESET" \notin flags[s]

\* What init.svc.<name> tells others is so.  A service has a process that is
\* not reaped exactly while "running" or "stopping" is published (who waits for
\* "stopped" may rely on the process being gone), and "restarting" is published
\* while a restart is due.
PublishedSound ==
  \A s \in Service :
    /\ s \in live <=> svc[s] \in {"running", "stopping"}
    /\ s \in live <=> "RUNNING" \in flags[s]
    /\ "RESTARTING" \in flags[s] => svc[s] = "restarting"

\* The action queue never waits for nothing: while it is held up, a process
\* marked EXEC exists, whose exit will be reaped.
ExecHasProcess == exec_running => \E r \in live : "EXEC" \in flags[r]

\* After kill_all "their exits run no `onrestart` and nothing restarts": no
\* process is started and no command runs any more.
KillIsFinal ==
  [][(phase \in {"reap", "done"}) => pending' = <<>> /\ live' \subseteq live]_vars

\* A shutdown ends, with every process reaped, though services go on being
\* started, restarted and stopped while it waits.
ShutdownEnds == phase = "wait" ~> phase = "done" /\ live = {}

=============================================================================
