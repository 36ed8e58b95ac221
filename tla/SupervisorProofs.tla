--------------------------- MODULE SupervisorProofs ---------------------------
(***************************************************************************)
(* Proofs about Supervisor, for any services, definitions, onrestart       *)
(* commands and requests.                                                  *)
(*                                                                         *)
(* The four properties need each other and three more facts.  Whether the  *)
(* queue's exec process exists depends on launches that fail only for      *)
(* services without a process, that is on PublishedSound; that nothing     *)
(* starts after kill_all depends on every service being stopped then, that *)
(* is on StopWins; temporary services are records only while they run.     *)
(***************************************************************************)
EXTENDS Supervisor, TLAPS, FiniteSetTheorems, SequenceTheorems

\* Temporary services are the records outside Service, there while they run.
Temporary ==
  /\ \A s \in Service : "TEMPORARY" \notin flags[s]
  /\ \A e \in Temp :
       /\ e \in live <=> flags[e] # {}
       /\ e \in live => "TEMPORARY" \in flags[e]

\* Revives without its condition on ONESHOT, which a command may change.
Restarting ==
  \A s \in Service : asked[s] = "restart" =>
    s \in live /\ "DISABLED" \notin flags[s] /\ "RESET" \notin flags[s]

\* Once kill_all has run no command is left and every service is stopped.
Final ==
  phase \in {"reap", "done"} =>
    pending = <<>> /\ \A s \in Service : asked[s] = "stop"

\* The inductive invariant.
IInv ==
  /\ TypeOK /\ PublishedSound /\ Temporary /\ ExecHasProcess
  /\ StopWins /\ Restarting /\ Final

\* What a command leaves alone.
Rest ==
  /\ UNCHANGED <<ready, crashes, window, booted, halt, phase>>
  /\ pending' \in Seq(Command)
  /\ phase \in {"run", "wait"}

\* Flags that start may be called with.
Given(s, f) ==
  /\ f \in SUBSET Flag
  /\ flags[s] \subseteq f \cup {"DISABLED", "RC_DISABLED"}
  /\ f \subseteq flags[s] \cup {"ONESHOT", "EXEC"}

\* A start that finds the process running, for start and for exec_start.
LEMMA RunningInv ==
  ASSUME NEW s \in Service, NEW f,
         IInv, Given(s, f), AlreadyRunning(s, f), Rest,
         exec_running' \in BOOLEAN, exec_running' => exec_running \/ "EXEC" \in f
  PROVE  IInv'
<1> USE SupervisorAssumption DEF Record
<1>1. TypeOK'
  BY DEF TypeOK, Given, AlreadyRunning, Rest, Cleared, Flag, IInv
<1>2. PublishedSound'
  BY DEF TypeOK, PublishedSound, Temporary, Given, AlreadyRunning, Rest, Cleared, Flag, IInv
<1>3. Temporary'
  BY DEF TypeOK, Temporary, PublishedSound, Given, AlreadyRunning, Rest, Cleared, Flag, IInv
<1>4. ExecHasProcess'
  BY DEF TypeOK, PublishedSound, Temporary, ExecHasProcess, Given, AlreadyRunning, Rest, Cleared, Flag, IInv
<1>5. StopWins'
  BY DEF TypeOK, PublishedSound, StopWins, Restarting, Given, AlreadyRunning, Rest, Cleared, Flag, IInv
<1>6. Restarting'
  BY DEF TypeOK, PublishedSound, Restarting, StopWins, Given, AlreadyRunning, Rest, Cleared, Flag, IInv
<1>7. Final'
  BY DEF TypeOK, Final, StopWins, Given, AlreadyRunning, Rest, Cleared, Flag, IInv
<1> QED
  BY <1>1, <1>2, <1>3, <1>4, <1>5, <1>6, <1>7 DEF IInv

\* A start that launches the process.
LEMMA LaunchInv ==
  ASSUME NEW s \in Service, NEW f,
         IInv, Given(s, f), Launches(s, f), Rest,
         exec_running' \in BOOLEAN, exec_running' => exec_running \/ "EXEC" \in f
  PROVE  IInv'
<1> USE SupervisorAssumption DEF Record
<1>1. TypeOK'
  BY DEF TypeOK, Given, Launches, Rest, Cleared, Flag, IInv
<1>2. PublishedSound'
  BY DEF TypeOK, PublishedSound, Temporary, Given, Launches, Rest, Cleared, Flag, IInv
<1>3. Temporary'
  BY DEF TypeOK, Temporary, PublishedSound, Given, Launches, Rest, Cleared, Flag, IInv
<1>4. ExecHasProcess'
  BY DEF TypeOK, PublishedSound, Temporary, ExecHasProcess, Given, Launches, Rest, Cleared, Flag, IInv
<1>5. StopWins'
  BY DEF TypeOK, PublishedSound, StopWins, Restarting, Given, Launches, Rest, Cleared, Flag, IInv
<1>6. Restarting'
  BY DEF TypeOK, PublishedSound, Restarting, StopWins, Given, Launches, Rest, Cleared, Flag, IInv
<1>7. Final'
  BY DEF TypeOK, Final, StopWins, Given, Launches, Rest, Cleared, Flag, IInv
<1> QED
  BY <1>1, <1>2, <1>3, <1>4, <1>5, <1>6, <1>7 DEF IInv

\* A start that fails.
LEMMA FailInv ==
  ASSUME NEW s \in Service, NEW f,
         IInv, Given(s, f), LaunchFails(s, f), Rest, UNCHANGED exec_running
  PROVE  IInv'
<1> USE SupervisorAssumption DEF Record
<1>0. s \in Record /\ \A r \in Record : r # s => flags'[r] = flags[r]
  BY DEF IInv, TypeOK, LaunchFails
<1>a. "RUNNING" \notin flags[s] /\ flags'[s] = ((f \ Cleared) \cup {"DISABLED"}) \ {"EXEC"}
  BY <1>0 DEF IInv, TypeOK, LaunchFails, Given
<1>b. s \notin live
  BY <1>a DEF IInv, PublishedSound
<1>1. TypeOK'
  BY DEF TypeOK, Given, LaunchFails, Rest, Cleared, Flag, IInv
<1>2. PublishedSound'
  <2> SUFFICES ASSUME NEW t \in Service
               PROVE  /\ t \in live <=> svc[t] \in {"running", "stopping"}
                      /\ t \in live <=> "RUNNING" \in flags'[t]
                      /\ "RESTARTING" \in flags'[t] => svc[t] = "restarting"
    BY DEF PublishedSound, LaunchFails
  <2>1. CASE t = s
    BY <1>a, <1>b, <2>1 DEF IInv, PublishedSound, Given, Cleared
  <2>2. CASE t # s
    BY <1>0, <2>2 DEF IInv, PublishedSound
  <2> QED
    BY <2>1, <2>2
<1>3. Temporary'
  BY DEF TypeOK, Temporary, PublishedSound, Given, LaunchFails, Rest, Cleared, Flag, IInv
<1>4. ExecHasProcess'
  BY <1>0, <1>b DEF IInv, TypeOK, ExecHasProcess, LaunchFails
<1>5. StopWins'
  BY DEF TypeOK, PublishedSound, StopWins, Restarting, Given, LaunchFails, Rest, Cleared, Flag, IInv
<1>6. Restarting'
  BY DEF TypeOK, PublishedSound, Restarting, StopWins, Given, LaunchFails, Rest, Cleared, Flag, IInv
<1>7. Final'
  BY DEF TypeOK, Final, StopWins, Given, LaunchFails, Rest, Cleared, Flag, IInv
<1> QED
  BY <1>1, <1>2, <1>3, <1>4, <1>5, <1>6, <1>7 DEF IInv

\* A start that is put off.
LEMMA DelayInv ==
  ASSUME NEW s \in Service, NEW f,
         IInv, Given(s, f), Delays(s, f), Rest, UNCHANGED exec_running
  PROVE  IInv'
<1> USE SupervisorAssumption DEF Record
<1>0. s \in Record /\ \A r \in Record : r # s => flags'[r] = flags[r]
  BY DEF IInv, TypeOK, Delays
<1>a. flags'[s] = f
  BY <1>0 DEF IInv, TypeOK, Delays
<1>1. TypeOK'
  BY DEF TypeOK, Given, Delays, NotReady, Rest, Cleared, Flag, IInv
<1>2. PublishedSound'
  <2> SUFFICES ASSUME NEW t \in Service
               PROVE  /\ t \in live <=> svc[t] \in {"running", "stopping"}
                      /\ t \in live <=> "RUNNING" \in flags'[t]
                      /\ "RESTARTING" \in flags'[t] => svc[t] = "restarting"
    BY DEF PublishedSound, Delays
  <2>1. CASE t = s
    BY <1>a, <2>1 DEF IInv, PublishedSound, Given
  <2>2. CASE t # s
    BY <1>0, <2>2 DEF IInv, PublishedSound
  <2> QED
    BY <2>1, <2>2
<1>3. Temporary'
  BY DEF TypeOK, Temporary, PublishedSound, Given, Delays, NotReady, Rest, Cleared, Flag, IInv
<1>4. ExecHasProcess'
  BY DEF TypeOK, PublishedSound, Temporary, ExecHasProcess, Given, Delays, NotReady, Rest, Cleared, Flag, IInv
<1>5. StopWins'
  BY DEF TypeOK, PublishedSound, StopWins, Restarting, Given, Delays, NotReady, Rest, Cleared, Flag, IInv
<1>6. Restarting'
  BY DEF TypeOK, PublishedSound, Restarting, StopWins, Given, Delays, NotReady, Rest, Cleared, Flag, IInv
<1>7. Final'
  BY DEF TypeOK, Final, StopWins, Given, Delays, NotReady, Rest, Cleared, Flag, IInv
<1> QED
  BY <1>1, <1>2, <1>3, <1>4, <1>5, <1>6, <1>7 DEF IInv

\* A start.
LEMMA StartInv ==
  ASSUME NEW s \in Service, NEW f,
         IInv, Given(s, f), Start(s, f), Rest, UNCHANGED exec_running
  PROVE  IInv'
<1>1. exec_running' \in BOOLEAN /\ (exec_running' => exec_running)
  BY DEF IInv, TypeOK
<1>2. CASE AlreadyRunning(s, f)
  BY <1>1, <1>2, RunningInv
<1>3. CASE Launches(s, f)
  BY <1>1, <1>3, LaunchInv
<1>4. CASE LaunchFails(s, f)
  BY <1>4, FailInv
<1>5. CASE Delays(s, f)
  BY <1>5, DelayInv
<1> QED
  BY <1>2, <1>3, <1>4, <1>5 DEF Start

\* The flags a service has are flags start may be called with.
LEMMA GivenFlags ==
  ASSUME NEW s \in Service, IInv
  PROVE  Given(s, flags[s])
  BY DEF IInv, TypeOK, Given, Record

\* A stop, a reset, or a restart of a running service.
LEMMA StopInv ==
  ASSUME NEW s \in Service, NEW how \in {"DISABLED", "RESET", "RESTART"},
         IInv, StopOrReset(s, how), Rest,
         UNCHANGED exec_running, how = "RESTART" => s \in live
  PROVE  IInv'
<1> USE SupervisorAssumption DEF Record
<1>0. s \in Record /\ \A r \in Record : r # s => flags'[r] = flags[r]
  BY DEF IInv, TypeOK, StopOrReset
<1>a. flags'[s] = Down(s, how)
  BY <1>0 DEF IInv, TypeOK, StopOrReset
<1>1. TypeOK'
  BY DEF TypeOK, StopOrReset, StopState, Down, Rest, Flag, IInv
<1>2. PublishedSound'
  BY DEF TypeOK, PublishedSound, Temporary, StopOrReset, StopState, Down, Rest, Flag, IInv
<1>3. Temporary'
  BY DEF TypeOK, Temporary, PublishedSound, StopOrReset, StopState, Down, Rest, Flag, IInv
<1>4. ExecHasProcess'
  BY DEF TypeOK, PublishedSound, Temporary, ExecHasProcess, StopOrReset, StopState, Down, Rest, Flag, IInv
<1>5. StopWins'
  <2> SUFFICES ASSUME NEW t \in Service, asked'[t] = "stop"
               PROVE  /\ flags'[t] \cap {"DISABLED", "RESET"} # {}
                      /\ "RESTARTING" \notin flags'[t]
    BY DEF StopWins
  <2>1. CASE t = s
    BY <1>a, <2>1 DEF IInv, TypeOK, StopWins, StopOrReset, Down
  <2>2. CASE t # s
    BY <1>0, <2>2 DEF IInv, TypeOK, StopWins, StopOrReset
  <2> QED
    BY <2>1, <2>2
<1>6. Restarting'
  BY DEF TypeOK, PublishedSound, Restarting, StopWins, StopOrReset, StopState, Down, Rest, Flag, IInv
<1>7. Final'
  BY DEF TypeOK, Final, StopWins, StopOrReset, StopState, Down, Rest, Flag, IInv
<1> QED
  BY <1>1, <1>2, <1>3, <1>4, <1>5, <1>6, <1>7 DEF IInv

\* oneshot_on and oneshot_off.
LEMMA OneshotInv ==
  ASSUME NEW s \in Service, NEW on \in BOOLEAN,
         IInv, SetOneshot(s, on), Rest, UNCHANGED exec_running
  PROVE  IInv'
<1> USE SupervisorAssumption DEF Record
<1>0. s \in Record /\ \A r \in Record : r # s => flags'[r] = flags[r]
  BY DEF IInv, TypeOK, SetOneshot
<1>a. flags'[s] = IF on THEN flags[s] \cup {"ONESHOT"} ELSE flags[s] \ {"ONESHOT"}
  BY <1>0 DEF IInv, TypeOK, SetOneshot
<1>1. TypeOK'
  BY DEF TypeOK, SetOneshot, Rest, Flag, IInv
<1>2. PublishedSound'
  BY DEF TypeOK, PublishedSound, Temporary, SetOneshot, Rest, Flag, IInv
<1>3. Temporary'
  BY DEF TypeOK, Temporary, PublishedSound, SetOneshot, Rest, Flag, IInv
<1>4. ExecHasProcess'
  BY DEF TypeOK, PublishedSound, Temporary, ExecHasProcess, SetOneshot, Rest, Flag, IInv
<1>5. StopWins'
  <2> SUFFICES ASSUME NEW t \in Service, asked'[t] = "stop"
               PROVE  /\ flags'[t] \cap {"DISABLED", "RESET"} # {}
                      /\ "RESTARTING" \notin flags'[t]
    BY DEF StopWins
  <2>1. CASE t = s
    BY <1>a, <2>1 DEF IInv, TypeOK, StopWins, SetOneshot
  <2>2. CASE t # s
    BY <1>0, <2>2 DEF IInv, TypeOK, StopWins, SetOneshot
  <2> QED
    BY <2>1, <2>2
<1>6. Restarting'
  BY DEF TypeOK, PublishedSound, Restarting, StopWins, SetOneshot, Rest, Flag, IInv
<1>7. Final'
  BY DEF TypeOK, Final, StopWins, SetOneshot, Rest, Flag, IInv
<1> QED
  BY <1>1, <1>2, <1>3, <1>4, <1>5, <1>6, <1>7 DEF IInv

\* exec and exec_background: a temporary service starts, or nothing happens.
LEMMA ExecInv ==
  ASSUME NEW blocking \in BOOLEAN, NEW queue \in BOOLEAN,
         IInv, Exec(blocking, queue), Rest
  PROVE  IInv'
<1> USE SupervisorAssumption DEF Record
<1>1. CASE UNCHANGED <<flags, live, killed, svc, started, delayed, asked, exec_running>>
  BY <1>1 DEF IInv, TypeOK, PublishedSound, Temporary, ExecHasProcess, StopWins,
              Restarting, Final, Rest
<1>2. ASSUME NEW e \in Temp, flags[e] = {},
             flags' = [flags EXCEPT ![e] = {"TEMPORARY", "ONESHOT", "RUNNING"} \cup
                                           {x \in {"EXEC"} : blocking}],
             live' = live \cup {e}, killed' = killed \ {e},
             exec_running' = ((blocking /\ queue) \/ exec_running),
             UNCHANGED <<svc, started, delayed, asked>>
      PROVE  IInv'
  <2>1. e \in Record /\ \A r \in Record : r # e => flags'[r] = flags[r]
    BY <1>2 DEF IInv, TypeOK
  <2>2. flags'[e] = {"TEMPORARY", "ONESHOT", "RUNNING"} \cup {x \in {"EXEC"} : blocking}
    BY <1>2, <2>1 DEF IInv, TypeOK
  <2>3. \A s \in Service : s # e /\ s \in Record /\ flags'[s] = flags[s]
    BY <2>1
  <2>4. TypeOK'
    <3>1. flags' \in [Record -> SUBSET Flag]
      BY <1>2, <2>1 DEF IInv, TypeOK, Flag
    <3>2. exec_running' \in BOOLEAN
      BY <1>2 DEF IInv, TypeOK
    <3> QED
      BY <1>2, <2>1, <3>1, <3>2 DEF IInv, TypeOK, Rest
  <2>5. PublishedSound'
    BY <1>2, <2>3 DEF IInv, PublishedSound
  <2>6. Temporary'
    BY <1>2, <2>1, <2>2, <2>3 DEF IInv, Temporary
  <2>7. ExecHasProcess'
    <3>1. CASE blocking /\ queue
      BY <1>2, <2>2, <3>1 DEF ExecHasProcess
    <3>2. CASE ~(blocking /\ queue) /\ exec_running
      <4>1. PICK r \in live : "EXEC" \in flags[r]
        BY <3>2 DEF IInv, ExecHasProcess
      <4>2. r # e /\ r \in Record
        BY <1>2, <4>1 DEF IInv, TypeOK
      <4> QED
        BY <1>2, <2>1, <4>1, <4>2 DEF ExecHasProcess
    <3>3. CASE ~(blocking /\ queue) /\ ~exec_running
      BY <1>2, <3>3 DEF ExecHasProcess
    <3> QED
      BY <3>1, <3>2, <3>3
  <2>8. StopWins'
    BY <1>2, <2>3 DEF IInv, StopWins
  <2>9. Restarting'
    BY <1>2, <2>3 DEF IInv, Restarting
  <2>10. Final'
    BY DEF Final, Rest
  <2> QED
    BY <2>4, <2>5, <2>6, <2>7, <2>8, <2>9, <2>10 DEF IInv
<1> QED
  BY <1>1, <1>2 DEF Exec

\* Every command keeps the invariant, whoever runs it.
LEMMA CommandInv ==
  ASSUME NEW c \in Command, NEW queue \in BOOLEAN,
         IInv, RunCommand(c, queue), Rest
  PROVE  IInv'
<1>1. CASE c.op \in {"exec", "exec_background"}
  <2>1. Exec(TRUE, queue) \/ Exec(FALSE, queue)
    BY <1>1 DEF RunCommand
  <2> QED
    BY <2>1, ExecInv
<1>2. CASE c.op \notin {"exec", "exec_background"}
  <2>1. c.s \in Service
    BY <1>2 DEF Command
  <2> DEFINE s == c.s
  <2>2. s \in Service /\ Given(s, flags[s]) /\ s \in Record
    BY <2>1, GivenFlags DEF Record
  <2>3. exec_running \in BOOLEAN /\ flags[s] \subseteq Flag
    BY <2>2 DEF IInv, TypeOK
  <2>4. CASE c.op = "exec_start"
    <3> DEFINE f == flags[s] \cup {"ONESHOT", "EXEC"}
    <3>1. Given(s, f) /\ "EXEC" \in f
      BY <2>3 DEF Given, Flag
    <3>2. ExecStart(s, queue)
      BY <2>4 DEF RunCommand
    <3>3. CASE AlreadyRunning(s, f) /\ exec_running' = (queue \/ exec_running)
      BY <2>2, <2>3, <3>1, <3>3, RunningInv
    <3>4. CASE Launches(s, f) /\ exec_running' = (queue \/ exec_running)
      BY <2>2, <2>3, <3>1, <3>4, LaunchInv
    <3>5. CASE LaunchFails(s, f) /\ UNCHANGED exec_running
      BY <2>2, <3>1, <3>5, FailInv
    <3>6. CASE UNCHANGED <<flags, live, killed, svc, started, delayed, asked, exec_running>>
      BY <3>6 DEF IInv, TypeOK, PublishedSound, Temporary, ExecHasProcess, StopWins,
                  Restarting, Final, Rest
    <3> QED
      BY <3>2, <3>3, <3>4, <3>5, <3>6 DEF ExecStart
  <2>5. CASE c.op = "start"
    BY <2>2, <2>5, StartInv DEF RunCommand
  <2>6. CASE c.op = "class_start"
    <3>1. StartIfNotDisabled(s) /\ UNCHANGED exec_running
      BY <2>6 DEF RunCommand
    <3>2. CASE Start(s, flags[s])
      BY <2>2, <3>1, <3>2, StartInv
    <3>3. CASE /\ flags' = [flags EXCEPT ![s] = @ \cup {"DISABLED_START"}]
               /\ UNCHANGED <<live, killed, svc, started, delayed, asked>>
      <4>1. flags'[s] = flags[s] \cup {"DISABLED_START"}
        BY <2>2, <3>3 DEF IInv, TypeOK
      <4>2. \A r \in Record : r # s => flags'[r] = flags[r]
        BY <3>3 DEF IInv, TypeOK
      <4>3. TypeOK'
        BY <2>3, <3>1, <3>3 DEF IInv, TypeOK, Rest, Flag
      <4>4. PublishedSound' /\ Temporary' /\ StopWins' /\ Restarting'
        BY <2>2, <3>3, <4>1, <4>2, SupervisorAssumption
           DEF IInv, PublishedSound, Temporary, StopWins, Restarting, Record
      <4>5. ExecHasProcess'
        BY <3>1, <3>3, <4>1, <4>2 DEF IInv, TypeOK, ExecHasProcess
      <4>6. Final'
        BY DEF Final, Rest
      <4> QED
        BY <4>3, <4>4, <4>5, <4>6 DEF IInv
    <3> QED
      BY <3>1, <3>2, <3>3 DEF StartIfNotDisabled
  <2>7. CASE c.op = "stop"
    BY <2>2, <2>7, StopInv DEF RunCommand
  <2>8. CASE c.op = "reset"
    BY <2>2, <2>8, StopInv DEF RunCommand
  <2>9. CASE c.op = "restart"
    <3>1. Restart(s) /\ UNCHANGED exec_running
      BY <2>9 DEF RunCommand
    <3>2. CASE "RUNNING" \in flags[s] /\ StopOrReset(s, "RESTART")
      <4>1. s \in live
        BY <2>2, <3>2 DEF IInv, PublishedSound
      <4> QED
        BY <2>2, <3>1, <3>2, <4>1, StopInv
    <3>3. CASE Start(s, flags[s])
      BY <2>2, <3>1, <3>3, StartInv
    <3>4. CASE UNCHANGED <<flags, live, killed, svc, started, delayed, asked>>
      BY <3>1, <3>4 DEF IInv, TypeOK, PublishedSound, Temporary, ExecHasProcess,
                        StopWins, Restarting, Final, Rest
    <3> QED
      BY <3>1, <3>2, <3>3, <3>4 DEF Restart
  <2>10. CASE c.op = "enable"
    <3> DEFINE f == flags[s] \ {"DISABLED", "RC_DISABLED"}
    <3>1. Enable(s) /\ UNCHANGED exec_running
      BY <2>10 DEF RunCommand
    <3>2. Given(s, f)
      BY <2>3 DEF Given
    <3>3. CASE Start(s, f)
      BY <2>2, <3>1, <3>2, <3>3, StartInv
    <3>4. CASE /\ flags' = [flags EXCEPT ![s] = f]
               /\ asked' = [asked EXCEPT ![s] = IF @ = "stop" THEN "none" ELSE @]
               /\ UNCHANGED <<live, killed, svc, started, delayed>>
      <4>1. flags'[s] = f
        BY <2>2, <3>4 DEF IInv, TypeOK
      <4>2. \A r \in Record : r # s => flags'[r] = flags[r]
        BY <3>4 DEF IInv, TypeOK
      <4>3. asked'[s] # "stop" /\ \A t \in Service : asked'[t] = asked[t] \/ t = s
        BY <2>2, <3>4 DEF IInv, TypeOK
      <4>4. asked'[s] = "restart" => asked[s] = "restart"
        BY <2>2, <3>4 DEF IInv, TypeOK
      <4>5. TypeOK'
        BY <2>2, <2>3, <3>1, <3>4 DEF IInv, TypeOK, Rest
      <4>6. PublishedSound' /\ Temporary' /\ Restarting'
        BY <2>2, <3>4, <4>1, <4>2, <4>3, <4>4, SupervisorAssumption
           DEF IInv, PublishedSound, Temporary, Restarting, Record
      <4>7. StopWins'
        BY <2>2, <4>2, <4>3 DEF IInv, StopWins, Record
      <4>8. ExecHasProcess'
        BY <3>1, <3>4, <4>1, <4>2 DEF IInv, TypeOK, ExecHasProcess
      <4>9. Final'
        BY DEF Final, Rest
      <4> QED
        BY <4>5, <4>6, <4>7, <4>8, <4>9 DEF IInv
    <3> QED
      BY <3>1, <3>3, <3>4 DEF Enable
  <2>11. CASE c.op = "oneshot_on"
    BY <2>2, <2>11, OneshotInv DEF RunCommand
  <2>12. CASE c.op = "oneshot_off"
    BY <2>2, <2>12, OneshotInv DEF RunCommand
  <2> QED
    BY <1>2, <2>4, <2>5, <2>6, <2>7, <2>8, <2>9, <2>10, <2>11, <2>12 DEF RunCommand
<1> QED
  BY <1>1, <1>2

\* A reaped process.  After kill_all its service is stopped, so no command comes
\* of it.
LEMMA ReapInv ==
  ASSUME NEW r \in Record, NEW ok \in BOOLEAN, IInv, Reap(r, ok)
  PROVE  IInv'
<1> USE SupervisorAssumption DEF Record
<1>1. /\ r \in live /\ live' = live \ {r} /\ killed' = killed \ {r}
      /\ pending = <<>> /\ phase \in {"run", "wait", "reap"}
      /\ exec_running' = (exec_running /\ "EXEC" \notin flags[r])
      /\ UNCHANGED <<started, delayed, ready, booted, phase>>
  BY DEF Reap, Idle
<1>2. exec_running' \in BOOLEAN
  BY <1>1 DEF IInv, TypeOK
<1>3. (\A t \in Record : t # r => flags'[t] = flags[t]) => ExecHasProcess'
  BY <1>1 DEF IInv, TypeOK, ExecHasProcess
<1>4. CASE "TEMPORARY" \in flags[r]
  <2>1. r \notin Service
    BY <1>4 DEF IInv, Temporary
  <2>2. /\ flags' = [flags EXCEPT ![r] = {}]
        /\ UNCHANGED <<svc, asked, pending, crashes, window, halt>>
    BY <1>4 DEF Reap
  <2>3. flags'[r] = {} /\ \A t \in Record : t # r => flags'[t] = flags[t]
    BY <2>2 DEF IInv, TypeOK
  <2>4. TypeOK'
    BY <1>1, <1>2, <2>2 DEF IInv, TypeOK
  <2>5. PublishedSound' /\ StopWins' /\ Restarting'
    BY <1>1, <2>1, <2>2, <2>3 DEF IInv, PublishedSound, StopWins, Restarting
  <2>6. Temporary'
    BY <1>1, <2>1, <2>3 DEF IInv, Temporary
  <2>7. Final'
    BY <1>1, <2>2 DEF IInv, Final
  <2> QED
    BY <1>3, <2>3, <2>4, <2>5, <2>6, <2>7 DEF IInv
<1>5. CASE "TEMPORARY" \notin flags[r]
  <2> DEFINE f == (flags[r] \ {"EXEC", "RUNNING"}) \cup
                  {x \in {"DISABLED"} : "ONESHOT" \in flags[r] /\ flags[r] \cap {"RESTART", "RESET"} = {}}
  <2>1. r \in Service
    BY <1>1, <1>5 DEF IInv, Temporary
  <2>2. /\ Settle(r, ok, f)
        /\ asked' = [asked EXCEPT ![r] = IF @ = "restart" THEN "none" ELSE @]
    BY <1>5 DEF Reap
  <2>3. /\ f \subseteq Flag /\ "RUNNING" \notin f /\ "TEMPORARY" \notin f
        /\ "RESTARTING" \in f => "RESTARTING" \in flags[r]
        /\ flags[r] \cap {"DISABLED", "RESET"} \subseteq f
    BY <1>5 DEF IInv, TypeOK, Flag
  <2>4. "RESTARTING" \notin f
    BY <1>1, <2>1, <2>3 DEF IInv, PublishedSound
  <2>5. /\ asked'[r] # "restart" /\ (asked'[r] = "stop" => asked[r] = "stop")
        /\ \A t \in Service : t # r => asked'[t] = asked[t]
        /\ asked' \in [Service -> {"none", "stop", "restart"}]
        /\ asked[r] = "stop" => asked'[r] = "stop"
    BY <2>1, <2>2 DEF IInv, TypeOK
  <2> HIDE DEF f
  <2>6. CASE f \cap {"DISABLED", "RESET"} # {}
    <3>1. /\ flags' = [flags EXCEPT ![r] = f]
          /\ svc' = [svc EXCEPT ![r] = "stopped"]
          /\ halt' = (halt \/ (~ok /\ r \in Reboots))
          /\ UNCHANGED <<pending, crashes, window>>
      BY <2>2, <2>6 DEF Settle
    <3>2. /\ flags'[r] = f /\ svc'[r] = "stopped"
          /\ \A t \in Record : t # r => flags'[t] = flags[t]
          /\ \A t \in Service : t # r => svc'[t] = svc[t]
      BY <2>1, <3>1 DEF IInv, TypeOK
    <3>3. TypeOK'
      <4>1. halt' \in BOOLEAN
        BY <3>1 DEF IInv, TypeOK
      <4> QED
        BY <1>1, <1>2, <2>3, <2>5, <3>1, <4>1 DEF IInv, TypeOK
    <3>4. PublishedSound'
      BY <1>1, <2>3, <2>4, <3>2 DEF IInv, PublishedSound
    <3>5. Temporary'
      BY <1>1, <2>1, <2>3, <3>2 DEF IInv, Temporary
    <3>6. StopWins'
      BY <2>4, <2>5, <2>6, <3>2 DEF IInv, StopWins
    <3>7. Restarting'
      BY <1>1, <2>5, <3>2 DEF IInv, Restarting
    <3>8. Final'
      BY <1>1, <2>1, <2>5, <3>1 DEF IInv, Final
    <3> QED
      BY <1>3, <3>2, <3>3, <3>4, <3>5, <3>6, <3>7, <3>8 DEF IInv
  <2>7. CASE f \cap {"DISABLED", "RESET"} = {}
    <3>1. /\ flags' = [flags EXCEPT ![r] = (f \ {"RESTART"}) \cup {"RESTARTING"}]
          /\ svc' = [svc EXCEPT ![r] = "restarting"]
          /\ pending' = OnRestart[r]
          /\ halt' = (halt \/ (~ok /\ r \in Reboots) \/ crashes'[r] > CrashLimit)
          /\ Crash(r) \/ UNCHANGED <<crashes, window>>
      BY <2>2, <2>7 DEF Settle
    <3>2. /\ flags'[r] = (f \ {"RESTART"}) \cup {"RESTARTING"} /\ svc'[r] = "restarting"
          /\ \A t \in Record : t # r => flags'[t] = flags[t]
          /\ \A t \in Service : t # r => svc'[t] = svc[t]
      BY <2>1, <3>1 DEF IInv, TypeOK
    <3>3. asked[r] # "stop" /\ asked'[r] # "stop"
      BY <2>1, <2>3, <2>5, <2>7 DEF IInv, StopWins
    <3>4. phase \notin {"reap", "done"}
      BY <2>1, <3>3 DEF IInv, Final
    <3>5. TypeOK'
      <4>1. halt' \in BOOLEAN
        BY <3>1 DEF IInv, TypeOK
      <4>2. crashes' \in [Service -> 0..(CrashLimit + 1)] /\ window' \subseteq Service
        <5>1. CASE Crash(r)
          <6>1. crashes[r] \in 0..(CrashLimit + 1) /\ CrashLimit \in Nat
            BY <2>1 DEF IInv, TypeOK
          <6>2. (IF crashes[r] > CrashLimit THEN crashes[r] ELSE crashes[r] + 1) \in 0..(CrashLimit + 1)
            BY <6>1
          <6> QED
            BY <2>1, <5>1, <6>1, <6>2 DEF IInv, TypeOK, Crash
        <5>2. CASE UNCHANGED <<crashes, window>>
          BY <5>2 DEF IInv, TypeOK
        <5> QED
          BY <3>1, <5>1, <5>2
      <4>3. pending' \in Seq(Command)
        BY <2>1, <3>1
      <4>4. flags' \in [Record -> SUBSET Flag]
        BY <2>3, <3>1 DEF IInv, TypeOK, Flag
      <4>5. svc' \in [Service -> {"unset", "running", "stopping", "stopped", "restarting"}]
        BY <3>1 DEF IInv, TypeOK
      <4> QED
        BY <1>1, <1>2, <2>5, <4>1, <4>2, <4>3, <4>4, <4>5 DEF IInv, TypeOK
    <3>6. PublishedSound'
      BY <1>1, <2>3, <3>2 DEF IInv, PublishedSound
    <3>7. Temporary'
      <4>1. r \notin Temp /\ "TEMPORARY" \notin flags'[r]
        BY <2>1, <2>3, <3>2
      <4>2. \A t \in Record : t # r => flags'[t] = flags[t] /\ (t \in live' <=> t \in live)
        BY <1>1, <3>2
      <4> QED
        BY <4>1, <4>2 DEF IInv, Temporary
    <3>8. StopWins'
      BY <2>5, <3>2, <3>3 DEF IInv, StopWins
    <3>9. Restarting'
      BY <1>1, <2>5, <3>2 DEF IInv, Restarting
    <3>10. Final'
      BY <1>1, <3>4 DEF Final
    <3> QED
      BY <1>3, <3>2, <3>5, <3>6, <3>7, <3>8, <3>9, <3>10 DEF IInv
  <2> QED
    BY <2>6, <2>7
<1> QED
  BY <1>4, <1>5

\* The two stops of the shutdown.
LEMMA ShutdownInv ==
  ASSUME IInv, Shutdown \/ EndWait
  PROVE  IInv'
<1> USE SupervisorAssumption DEF Record
<1> DEFINE stop == started \ Late
<1>1. stop \subseteq Service
  BY DEF IInv, TypeOK
<1> HIDE DEF stop
<1>2. CASE Shutdown
  <2>1. /\ flags' = [r \in Record |->
             IF r \in stop THEN (flags[r] \ {"RESTARTING", "DISABLED_START"}) \cup {"DISABLED"}
                           ELSE flags[r]]
        /\ svc' = [s \in Service |-> IF s \in stop \cap live THEN "stopping" ELSE svc[s]]
        /\ asked' = [s \in Service |-> IF s \in stop THEN "stop" ELSE asked[s]]
        /\ phase' = "wait"
        /\ UNCHANGED <<live, killed, started, delayed, ready, crashes, window, booted,
                       pending, exec_running, halt>>
    BY <1>2 DEF Shutdown, StopForShutdown, stop
  <2>2. TypeOK'
    BY <2>1 DEF IInv, TypeOK, Flag
  <2>3. PublishedSound'
    BY <1>1, <2>1 DEF IInv, PublishedSound
  <2>4. Temporary'
    BY <1>1, <2>1 DEF IInv, TypeOK, Temporary
  <2>5. ExecHasProcess'
    BY <2>1 DEF IInv, TypeOK, ExecHasProcess
  <2>6. StopWins'
    BY <2>1 DEF IInv, StopWins
  <2>7. Restarting'
    BY <2>1 DEF IInv, Restarting
  <2>8. Final'
    BY <2>1 DEF Final
  <2> QED
    BY <2>2, <2>3, <2>4, <2>5, <2>6, <2>7, <2>8 DEF IInv
<1>3. CASE EndWait
  <2>1. /\ flags' = [r \in Record |->
             IF r \in stop THEN KillAll(r) \ {"DISABLED_START"} ELSE KillAll(r)]
        /\ svc' = [s \in Service |-> IF s \in stop \cap live THEN "stopping" ELSE svc[s]]
        /\ asked' = [s \in Service |-> "stop"]
        /\ killed' = live /\ phase' = "reap" /\ pending = <<>>
        /\ UNCHANGED <<live, started, delayed, ready, crashes, window, booted,
                       pending, exec_running, halt>>
    BY <1>3 DEF EndWait, KillTargets, Idle, stop
  <2>2. \A r \in Record : KillAll(r) \subseteq Flag
    BY DEF IInv, TypeOK, Flag, KillAll
  <2>3. \A r \in Record : r \notin Temp \ live =>
          /\ KillAll(r) = (flags[r] \ {"RESTARTING"}) \cup {"DISABLED"}
          /\ "DISABLED" \in flags'[r] /\ "RESTARTING" \notin flags'[r]
          /\ \A x \in {"RUNNING", "EXEC", "TEMPORARY"} : x \in flags'[r] <=> x \in flags[r]
    BY <2>1 DEF KillAll
  <2>4. \A e \in Temp \ live : flags'[e] = {}
    BY <1>1, <2>1 DEF KillAll
  <2>5. TypeOK'
    BY <2>1, <2>2 DEF IInv, TypeOK
  <2>6. PublishedSound'
    BY <1>1, <2>1, <2>3 DEF IInv, PublishedSound
  <2>7. Temporary'
    BY <2>1, <2>3, <2>4 DEF IInv, TypeOK, Temporary
  <2>8. ExecHasProcess'
    BY <2>1, <2>3 DEF IInv, TypeOK, ExecHasProcess
  <2>9. StopWins'
    BY <2>3 DEF StopWins
  <2>10. Restarting' /\ Final'
    BY <2>1 DEF Restarting, Final
  <2> QED
    BY <2>5, <2>6, <2>7, <2>8, <2>9, <2>10 DEF IInv
<1> QED
  BY <1>2, <1>3

\* Every step of init, of the processes and of the clock keeps the invariant.
LEMMA StepInv ==
  ASSUME IInv, [Next]_vars
  PROVE  IInv'
<1> USE SupervisorAssumption DEF Record
<1>1. ASSUME NEW c \in Requests, QueueCommand(c)
      PROVE  IInv'
  <2>1. c \in Command /\ RunCommand(c, TRUE) /\ Rest
    BY <1>1 DEF QueueCommand, Idle, Rest, IInv, TypeOK
  <2> QED
    BY <2>1, CommandInv
<1>2. ASSUME NEW c \in Requests, Control(c)
      PROVE  IInv'
  <2>1. c \in Command /\ RunCommand(c, FALSE) /\ Rest
    BY <1>2 DEF Control, Idle, Rest, IInv, TypeOK
  <2> QED
    BY <2>1, CommandInv
<1>3. CASE RunPending
  <2>1. pending \in Seq(Command) /\ pending # <<>>
    BY <1>3 DEF RunPending, IInv, TypeOK
  <2>2. Head(pending) \in Command /\ Tail(pending) \in Seq(Command)
    BY <2>1
  <2>3. RunCommand(Head(pending), FALSE)
    BY <1>3 DEF RunPending
  <2>4. Rest
    BY <1>3, <2>1, <2>2 DEF RunPending, Rest, IInv, Final, TypeOK
  <2> QED
    BY <2>2, <2>3, <2>4, CommandInv
<1>4. CASE LinkerReady
  <2>1. PICK order \in [1..Cardinality(delayed) -> delayed] :
          pending' = [i \in DOMAIN order |-> [op |-> "start", s |-> order[i]]]
    BY <1>4 DEF LinkerReady
  <2>2. delayed \subseteq Service /\ IsFiniteSet(delayed)
    BY FS_Subset DEF IInv, TypeOK
  <2>3. Cardinality(delayed) \in Nat
    BY <2>2, FS_CardinalityType
  <2>4. \A i \in 1..Cardinality(delayed) : [op |-> "start", s |-> order[i]] \in Command
    BY <2>2 DEF Command
  <2>5. pending' \in Seq(Command)
    BY <2>1, <2>3, <2>4
  <2>6. /\ ready' = TRUE /\ delayed' = {} /\ phase = "run"
        /\ UNCHANGED <<flags, live, killed, svc, started, crashes, window, booted,
                       exec_running, halt, phase, asked>>
    BY <1>4 DEF LinkerReady, Idle
  <2> QED
    BY <2>5, <2>6 DEF IInv, TypeOK, PublishedSound, Temporary, ExecHasProcess, StopWins,
                      Restarting, Final
<1>5. ASSUME NEW r \in Record, NEW ok \in BOOLEAN, Reap(r, ok)
      PROVE  IInv'
  BY <1>5, ReapInv
<1>6. ASSUME NEW s \in Service, RestartDue(s)
      PROVE  IInv'
  <2>1. Start(s, flags[s]) /\ Rest /\ UNCHANGED exec_running
    BY <1>6 DEF RestartDue, Idle, Rest, IInv, TypeOK
  <2> QED
    BY <2>1, StartInv, GivenFlags
<1>7. ASSUME NEW s \in Service, TimeoutKill(s)
      PROVE  IInv'
  BY <1>7 DEF TimeoutKill, IInv, TypeOK, PublishedSound, Temporary, ExecHasProcess,
              StopWins, Restarting, Final
<1>8. ASSUME NEW s \in Service, WindowEnds(s)
      PROVE  IInv'
  BY <1>8 DEF WindowEnds, IInv, TypeOK, PublishedSound, Temporary, ExecHasProcess,
              StopWins, Restarting, Final
<1>9. CASE BootCompletes \/ Finish \/ UNCHANGED vars
  <2>1. /\ UNCHANGED <<flags, live, killed, svc, started, delayed, ready, crashes, window,
                       pending, exec_running, halt, asked>>
        /\ booted' \in BOOLEAN /\ phase' \in {phase, "done"}
        /\ phase' # phase => phase = "reap"
    BY <1>9 DEF BootCompletes, Finish, Idle, vars, IInv, TypeOK
  <2> QED
    BY <2>1 DEF IInv, TypeOK, PublishedSound, Temporary, ExecHasProcess, StopWins,
                Restarting, Final
<1>10. CASE Shutdown \/ EndWait
  BY <1>10, ShutdownInv
<1> QED
  BY <1>1, <1>2, <1>3, <1>4, <1>5, <1>6, <1>7, <1>8, <1>9, <1>10 DEF Next

\* The services as the scripts declare them satisfy the invariant.
LEMMA InitInv == Init => IInv
<1> SUFFICES ASSUME Init PROVE IInv
  OBVIOUS
<1> USE SupervisorAssumption DEF Init, Record
<1>1. \A s \in Service : flags[s] = Defined[s] /\ s \notin Temp
  OBVIOUS
<1>2. TypeOK
  <2>1. flags \in [Record -> SUBSET Flag]
    BY DEF Flag
  <2>2. pending \in Seq(Command)
    OBVIOUS
  <2>3. crashes \in [Service -> 0..(CrashLimit + 1)]
    OBVIOUS
  <2>4. ready \in BOOLEAN
    OBVIOUS
  <2> QED
    BY <2>1, <2>2, <2>3, <2>4 DEF TypeOK
<1>3. PublishedSound
  BY <1>1 DEF PublishedSound
<1>4. Temporary
  BY <1>1 DEF Temporary
<1>5. ExecHasProcess /\ StopWins /\ Restarting /\ Final
  BY DEF ExecHasProcess, StopWins, Restarting, Final
<1> QED
  BY <1>2, <1>3, <1>4, <1>5 DEF IInv

\* The inductive invariant holds throughout.
LEMMA AlwaysInv == Spec => []IInv
<1>1. IInv /\ [Next]_vars => IInv'
  BY StepInv
<1> QED
  BY InitInv, <1>1, PTL DEF Spec

\* The fields of the supervisor, the executor and the action manager keep their
\* types.
THEOREM SupervisorTypes == Spec => []TypeOK
<1>1. IInv => TypeOK
  BY DEF IInv
<1> QED
  BY AlwaysInv, <1>1, PTL

\* A stopped service stays down until it is asked for again: stop_or_reset,
\* start, reap and the shutdown agree on the flags, whatever the order.
THEOREM StopAlwaysWins == Spec => []StopWins
<1>1. IInv => StopWins
  BY DEF IInv
<1> QED
  BY AlwaysInv, <1>1, PTL

\* A restart of a service that is not oneshot is not lost.
THEOREM RestartAlwaysRevives == Spec => []Revives
<1>1. IInv => Revives
  BY DEF IInv, Restarting, Revives
<1> QED
  BY AlwaysInv, <1>1, PTL

\* init.svc.<name> says "running" or "stopping" exactly while the service has a
\* process.
THEOREM PublishedAlwaysSound == Spec => []PublishedSound
<1>1. IInv => PublishedSound
  BY DEF IInv
<1> QED
  BY AlwaysInv, <1>1, PTL

\* The action queue is never held up without an exec process that is reaped
\* later.
THEOREM ExecAlwaysHasProcess == Spec => []ExecHasProcess
<1>1. IInv => ExecHasProcess
  BY DEF IInv
<1> QED
  BY AlwaysInv, <1>1, PTL

\* After kill_all no process starts and no onrestart command runs.
THEOREM KillAlwaysFinal == Spec => KillIsFinal
<1> DEFINE A == (phase \in {"reap", "done"}) => pending' = <<>> /\ live' \subseteq live
<1>1. IInv /\ IInv' /\ [Next]_vars => [A]_vars
  <2> SUFFICES ASSUME IInv, IInv', Next, phase \in {"reap", "done"}
               PROVE  pending' = <<>> /\ live' \subseteq live
    OBVIOUS
  <2>1. pending = <<>>
    BY DEF IInv, Final
  <2>2. CASE \E r \in Record, ok \in BOOLEAN : Reap(r, ok)
    <3>1. phase' = phase /\ live' \subseteq live
      BY <2>2 DEF Reap
    <3> QED
      BY <3>1 DEF IInv, Final
  <2>3. CASE BootCompletes \/ Finish \/ \E s \in Service : WindowEnds(s)
    BY <2>1, <2>3 DEF BootCompletes, Finish, WindowEnds
  <2> QED
    BY <2>1, <2>2, <2>3 DEF Next, QueueCommand, Control, RunPending, LinkerReady, RestartDue,
       TimeoutKill, Shutdown, EndWait, Idle
<1> QED
  BY AlwaysInv, <1>1, PTL DEF Spec, KillIsFinal

===============================================================================
