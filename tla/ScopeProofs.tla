----------------------------- MODULE ScopeProofs -----------------------------
(***************************************************************************)
(* More about the boot scope of ProcessProofs: no log writer is forgotten, *)
(* RUNNING means what it says, and a Stop that has found a child waits for *)
(* its end.  Then the serial scope: calls that come one after the other    *)
(* never meet two children, a Stop leaves none, a Restart a new one.       *)
(***************************************************************************)
EXTENDS ProcessProofs

BootStep == TypeOK /\ BootInv /\ BootStates /\ [Next]_vars

(* Every step of the boot scope that touches what this module is about.    *)
LEMMA BootSteps ==
  ASSUME BootOnly, BootStep
  PROVE
    \/ \E r \in Requests : Start(r) \/ Stop(r) \/ CallerSpawns(r)
    \/ \E r \in Requests : \/ Terminate(r) \/ Select(r) \/ KillSelect(r)
                           \/ StopWoken(r) \/ GraceExpires(r)
    \/ \E i \in Attempts : TimerStep(i) \/ MonitorStep(i) \/ WorldStep(i)
    \/ Tick
    \/ UNCHANGED <<state, cmd, done, logs, osVars, timerVars, monitorVars, callVars>>
<1> USE DEF BootStep
<1>1. ASSUME NEW r \in Requests, CallOf(r) \/ CallStep(r)
      PROVE  \/ Start(r) \/ Stop(r) \/ CallerSpawns(r)
             \/ Terminate(r) \/ Select(r) \/ KillSelect(r)
             \/ StopWoken(r) \/ GraceExpires(r)
  <2>1. ~Restart(r)
    BY DEF BootOnly, Restart, Calls
  <2>2. ~(RestartStops(r) \/ RestartStarts(r) \/ RestartSelect(r)
          \/ RestartWoken(r) \/ RestartTimesOut(r))
    BY DEF BootInv, BootCalls, RestartStops, RestartStarts, RestartSelect,
           Reads, RestartWoken, RestartTimesOut
  <2> QED
    BY <1>1, <2>1, <2>2 DEF CallOf, CallStep
<1>2. ASSUME (\E e \in pending : Deliver(e)) \/ UpdateConfig \/ Settled \/ UNCHANGED vars
      PROVE  UNCHANGED <<state, cmd, done, logs, osVars, timerVars, monitorVars, callVars>>
  BY <1>2 DEF Deliver, UpdateConfig, Settled, vars, procVars
<1> QED
  BY <1>1, <1>2 DEF Next

(* Decisions of a monitor: they are made once per attempt, by the latest.  *)
LEMMA BootDecision ==
  ASSUME TypeOK, BootInv, NEW i \in Attempts,
         MonitorStops(i) \/ MonitorBacksOff(i) \/ MonitorGivesUp(i) \/ MonitorExits(i)
  PROVE  /\ mpc[i] = "draining" /\ i = tries /\ open' = open \ {logs}
         /\ state' \in {"STOPPED", "BACKOFF", "FATAL", "EXITED"}
         /\ state = "STOPPING" => state' = "STOPPED" /\ mpc' = [mpc EXCEPT ![i] = "closing"]
         /\ \E pc \in {"backoff", "pausing", "closing"} : mpc' = [mpc EXCEPT ![i] = pc]
         /\ UNCHANGED <<cmd, done, logs, tries, child, age, closed, timerVars, callVars>>
<1>1. mpc[i] = "draining" /\ ~(i < tries) /\ ~(i > tries)
  BY DEF MonitorStops, MonitorBacksOff, MonitorGivesUp, MonitorExits,
         WaitReturned, BootInv, BootMonitors
<1>2. i = tries
  BY <1>1 DEF TypeOK, Attempts
<1>3. state = "STOPPING" => ~Up
  BY DEF Up
<1> QED
  BY <1>1, <1>2, <1>3
  DEF MonitorStops, MonitorBacksOff, MonitorGivesUp, MonitorExits,
      MonitorDecides, TooQuick

(* Only the latest monitor has anything left to do.                        *)
LEMMA BootLatest ==
  ASSUME TypeOK, BootInv, NEW i \in Attempts, mpc[i] \notin {"none", "closing", "over"}
  PROVE  i = tries
<1>1. ~(i < tries) /\ ~(i > tries)
  BY DEF BootInv, BootMonitors
<1> QED
  BY <1>1 DEF TypeOK, Attempts

-----------------------------------------------------------------------------
(* Log writers.                                                            *)

BootLogs ==
  /\ open \subseteq {logs}
  /\ tries = 0 => open = {}
  /\ \A i \in Attempts : mpc[i] \in {"backoff", "pausing"} => open = {}

LEMMA SpawnLogs ==
  ASSUME TypeOK, BootInv, open = {}, NEW monitors \in [Attempts -> MonitorPcs],
         NobodyElse(monitors), SpawnOk(monitors) \/ SpawnFails(monitors)
  PROVE  BootLogs'
<1>1. tries' = tries + 1 /\ tries \in Nat
  BY DEF SpawnOk, SpawnFails, TypeOK
<1>2. open' \subseteq {logs'}
  BY DEF SpawnOk, SpawnFails
<1>3. mpc' = monitors \/ mpc' = [monitors EXCEPT ![tries + 1] = "new"]
  BY DEF SpawnOk, SpawnFails
<1>4. \A i \in Attempts : mpc'[i] \notin {"backoff", "pausing"}
  BY <1>3 DEF NobodyElse
<1> QED
  BY <1>1, <1>2, <1>4 DEF BootLogs

(* While a request or a monitor is about to spawn, nobody else is.         *)
LEMMA CallerAlone ==
  ASSUME BootOnly, TypeOK, BootInv, NEW r \in Requests, CallerSpawns(r)
  PROVE  tries = 0 /\ NobodyElse(mpc) /\ mpc \in [Attempts -> MonitorPcs]
<1>1. tries = 0
  BY DEF CallerSpawns, BootInv, BootCalls
<1>2. \A i \in Attempts : mpc[i] = "none"
  BY <1>1 DEF BootInv, BootMonitors, Attempts
<1> QED
  BY <1>1, <1>2 DEF NobodyElse, TypeOK

LEMMA MonitorAlone ==
  ASSUME TypeOK, BootInv, NEW i \in Attempts, MonitorSpawns(i)
  PROVE  /\ NobodyElse([mpc EXCEPT ![i] = "closing"]) /\ i = tries /\ tries # 0
         /\ [mpc EXCEPT ![i] = "closing"] \in [Attempts -> MonitorPcs]
<1>1. i = tries
  BY BootLatest DEF MonitorSpawns
<1>2. \A k \in Attempts : k # i => mpc[k] \in {"none", "closing", "over"}
  BY <1>1, BootLatest
<1> QED
  BY <1>1, <1>2 DEF NobodyElse, MonitorSpawns, TypeOK, MonitorPcs, Attempts

LEMMA BootLogsStep ==
  ASSUME BootOnly, BootStep, BootLogs
  PROVE  BootLogs'
<1> USE DEF BootStep, procVars, osVars, timerVars, monitorVars, callVars
<1>1. ASSUME NEW r \in Requests, CallerSpawns(r)
      PROVE  BootLogs'
  BY <1>1, CallerAlone, SpawnLogs DEF CallerSpawns, BootLogs
<1>2. ASSUME NEW i \in Attempts, MonitorSpawns(i)
      PROVE  BootLogs'
  <2>1. open = {}
    BY <1>2 DEF MonitorSpawns, BootLogs
  <2> QED
    BY <1>2, <2>1, MonitorAlone, SpawnLogs DEF MonitorSpawns
<1>3. ASSUME NEW i \in Attempts,
             MonitorStops(i) \/ MonitorBacksOff(i) \/ MonitorGivesUp(i) \/ MonitorExits(i)
      PROVE  BootLogs'
  BY <1>3, BootDecision DEF BootLogs
<1>4. ASSUME NEW i \in Attempts,
             MonitorDefers(i) \/ MonitorWaits(i) \/ MonitorReaps(i) \/ MonitorCloses(i)
      PROVE  BootLogs'
  <2>1. /\ UNCHANGED <<open, logs, tries>>
        /\ \E pc \in MonitorPcs \ {"backoff", "pausing"} : mpc' = [mpc EXCEPT ![i] = pc]
    BY <1>4
    DEF MonitorDefers, MonitorWaits, MonitorReaps, MonitorCloses, MonitorPcs
  <2> QED
    BY <2>1 DEF BootLogs, TypeOK
<1>5. ASSUME UNCHANGED <<open, logs, tries, mpc>>
      PROVE  BootLogs'
  BY <1>5 DEF BootLogs
<1>6. ASSUME NEW r \in Requests,
             \/ Start(r) \/ Stop(r) \/ Terminate(r) \/ Select(r) \/ KillSelect(r)
             \/ StopWoken(r) \/ GraceExpires(r)
      PROVE  BootLogs'
  BY <1>5, <1>6
  DEF Start, Stop, BeginStart, BeginStop, Terminate, Select, KillSelect, Reads,
      StopWoken, GraceExpires
<1>7. ASSUME Tick \/ \E i \in Attempts : TimerStep(i) \/ WorldStep(i)
      PROVE  BootLogs'
  BY <1>5, <1>7
  DEF Tick, TimerStep, TimerSkips, TimerArms, TimerFires, TimerQuits, Promotes,
      WorldStep, ChildExits, ChildForks, PipeCloses
<1> QED
  BY <1>1, <1>2, <1>3, <1>4, <1>5, <1>6, <1>7, BootSteps DEF MonitorStep

LEMMA BootStatesInvariant == ASSUME BootOnly PROVE Spec => []BootStates
<1>1. Init => BootStates
  BY DEF Init, BootStates
<1>2. TypeOK /\ BootInv /\ BootStates /\ [Next]_vars => BootStates'
  BY BootStatesStep
<1> QED
  BY <1>1, <1>2, BootInvariant, TypeCorrect, PTL DEF Spec

(* In the boot scope every log writer that is open is one p.stdoutWriter   *)
(* still holds, whatever spawn() meets and however often it is called.     *)
THEOREM BootLeaksNoLog == ASSUME BootOnly PROVE Spec => []NoLogLeak
<1>1. Init => BootLogs
  BY DEF Init, BootLogs
<1>2. TypeOK /\ BootInv /\ BootStates /\ BootLogs /\ [Next]_vars => BootLogs'
  BY BootLogsStep DEF BootStep
<1>3. BootLogs => NoLogLeak
  BY DEF BootLogs, NoLogLeak
<1> QED
  BY <1>1, <1>2, <1>3, BootStatesInvariant, BootInvariant, TypeCorrect, PTL
  DEF Spec

-----------------------------------------------------------------------------
(* RUNNING.  spawn() by a monitor leaves the state alone, so that STARTING *)
(* and RUNNING are states of the first attempt only.                       *)

BootAges ==
  /\ cmd <= tries
  /\ \A i \in Attempts : tpc[i] # "none" => i <= cmd
  /\ Up => /\ tries <= 1
           /\ \A i \in Attempts :
                mpc[i] \notin {"backoff", "pausing", "closing", "over"}
  /\ state = "RUNNING" => tries = 1 /\ cmd = 1 /\ age[1] >= tsecs[1]

LEMMA SpawnAges ==
  ASSUME TypeOK, BootAges, ~Up \/ tries = 0, NEW monitors \in [Attempts -> MonitorPcs],
         Up => monitors = mpc,
         SpawnOk(monitors) \/ SpawnFails(monitors)
  PROVE  BootAges'
<1> DEFINE n == tries + 1
<1>1. n \in Attempts /\ tries' = n /\ tries \in Nat /\ cmd \in Nat /\ n \in Int
  BY ProcessAssumption DEF SpawnOk, SpawnFails, TypeOK, Attempts
<1>2. state # "RUNNING"
  BY <1>1 DEF BootAges, Up
<1>3. CASE SpawnOk(monitors)
  <2>1. /\ mpc' = [monitors EXCEPT ![n] = "new"] /\ cmd' = n /\ state' = state
        /\ tpc' = [tpc EXCEPT ![n] = "new"]
    BY <1>3 DEF SpawnOk
  <2> HIDE DEF n
  <2>2. \A i \in Attempts : tpc'[i] # "none" => i <= n
    <3>1. \A i \in Attempts : i \in Int /\ cmd <= tries /\ tries < n
      BY <1>1 DEF Attempts, BootAges, n
    <3> QED
      BY <1>1, <2>1, <3>1 DEF BootAges, TypeOK
  <2>3. Up => \A i \in Attempts :
                mpc'[i] \notin {"backoff", "pausing", "closing", "over"}
    BY <1>1, <2>1 DEF BootAges, TypeOK
  <2>4. Up => n <= 1
    BY <1>1 DEF n
  <2>5. Up' = Up
    BY <2>1 DEF Up
  <2> QED
    BY <1>1, <1>2, <2>1, <2>2, <2>3, <2>4, <2>5 DEF BootAges
<1>4. CASE SpawnFails(monitors)
  <2>1. state' = "FATAL" /\ UNCHANGED <<cmd, tpc>>
    BY <1>4 DEF SpawnFails, timerVars
  <2> QED
    BY <1>1, <2>1 DEF BootAges, Up
<1> QED
  BY <1>3, <1>4

LEMMA BootAgesStep ==
  ASSUME BootOnly, BootStep, BootAges
  PROVE  BootAges'
<1> USE DEF BootStep, procVars, osVars, timerVars, monitorVars, callVars
<1>1. ASSUME NEW r \in Requests, CallerSpawns(r)
      PROVE  BootAges'
  BY <1>1, CallerAlone, SpawnAges DEF CallerSpawns
<1>2. ASSUME NEW i \in Attempts, MonitorSpawns(i)
      PROVE  BootAges'
  <2>1. ~Up
    BY <1>2 DEF MonitorSpawns, BootStates, Up
  <2> QED
    BY <1>2, <2>1, MonitorAlone, SpawnAges DEF MonitorSpawns
<1>3. ASSUME NEW i \in Attempts,
             MonitorStops(i) \/ MonitorBacksOff(i) \/ MonitorGivesUp(i) \/ MonitorExits(i)
      PROVE  BootAges'
  BY <1>3, BootDecision DEF BootAges, Up
<1>4. ASSUME NEW i \in Attempts, MonitorCloses(i)
      PROVE  BootAges'
  <2>1. ~Up /\ UNCHANGED <<state, cmd, tries, age, tpc, tsecs>>
    BY <1>4 DEF MonitorCloses, BootAges
  <2> QED
    BY <2>1 DEF BootAges, Up
<1>5. ASSUME NEW i \in Attempts, MonitorDefers(i) \/ MonitorWaits(i) \/ MonitorReaps(i)
      PROVE  BootAges'
  <2>1. /\ UNCHANGED <<state, cmd, tries, age, tpc, tsecs>>
        /\ \E pc \in {"begun", "waiting", "draining", "echild"} :
             mpc' = [mpc EXCEPT ![i] = pc]
    BY <1>5 DEF MonitorDefers, MonitorWaits, MonitorReaps
  <2> QED
    BY <2>1 DEF BootAges, Up, TypeOK
<1>6. ASSUME NEW r \in Requests, Start(r)
      PROVE  BootAges'
  <2>1. tries = 0
    BY <1>6 DEF Start, Calls, BootInv, BootCalls
  <2>2. \A i \in Attempts : mpc[i] = "none"
    BY <2>1 DEF BootInv, BootMonitors, Attempts
  <2>3. /\ UNCHANGED <<cmd, tries, age, tpc, tsecs, mpc>>
        /\ state' = state \/ state' = "STARTING"
    BY <1>6 DEF Start, BeginStart
  <2> QED
    BY <2>1, <2>2, <2>3 DEF BootAges, Up
<1>7. ASSUME NEW r \in Requests,
             \/ Stop(r) \/ Terminate(r) \/ Select(r) \/ KillSelect(r)
             \/ StopWoken(r) \/ GraceExpires(r)
      PROVE  BootAges'
  <2>1. /\ UNCHANGED <<cmd, tries, age, tpc, tsecs, mpc>>
        /\ state' = state \/ state' = "STOPPING"
    BY <1>7
    DEF Stop, BeginStop, Terminate, Select, KillSelect, Reads, StopWoken,
        GraceExpires
  <2> QED
    BY <2>1 DEF BootAges, Up
<1>8. ASSUME NEW i \in Attempts, TimerStep(i)
      PROVE  BootAges'
  <2>1. /\ UNCHANGED <<cmd, tries, age, tsecs, mpc>> /\ tpc[i] # "none"
        /\ \E pc \in TimerPcs : tpc' = [tpc EXCEPT ![i] = pc]
    BY <1>8
    DEF TimerStep, TimerSkips, TimerArms, TimerFires, TimerQuits, Promotes,
        TimerPcs
  <2>2. \/ state' = state
        \/ state = "STARTING" /\ state' = "RUNNING" /\ age[i] >= tsecs[i]
    <3>1. age[i] \in Nat /\ tsecs[i] \in Int
      BY DEF TypeOK
    <3> QED
      BY <1>8, <3>1
      DEF TimerStep, TimerSkips, TimerArms, TimerFires, TimerQuits, Promotes
  <2>3. Up => i = 1 /\ tries = 1 /\ cmd = 1
    <3>1. i <= cmd /\ cmd <= tries /\ i >= 1 /\ cmd \in Int /\ tries \in Int /\ i \in Int
      BY <2>1 DEF BootAges, TypeOK, Attempts
    <3>2. Up => tries <= 1
      BY DEF BootAges
    <3> QED
      BY <3>1, <3>2
  <2>4. \A k \in Attempts : tpc'[k] # "none" => k <= cmd
    BY <2>1 DEF BootAges, TypeOK
  <2> QED
    BY <2>1, <2>2, <2>3, <2>4 DEF BootAges, Up
<1>9. ASSUME Tick
      PROVE  BootAges'
  <2>1. /\ UNCHANGED <<state, cmd, tries, tpc, tsecs, mpc>>
        /\ \A i \in Attempts : age'[i] >= age[i]
    BY <1>9 DEF Tick, TypeOK
  <2>2. state = "RUNNING" => 1 \in Attempts
    <3>1. tries \in 0..MaxSpawns /\ (state = "RUNNING" => tries = 1)
      BY DEF TypeOK, BootAges
    <3> QED
      BY <3>1 DEF Attempts
  <2>3. \A i \in Attempts : age[i] \in Int /\ age'[i] \in Int /\ tsecs[i] \in Int
    BY <1>9 DEF TypeOK, Tick
  <2> QED
    BY <2>1, <2>2, <2>3 DEF BootAges, Up
<1>10. ASSUME UNCHANGED <<state, cmd, tries, age, tpc, tsecs, mpc>>
       PROVE  BootAges'
  BY <1>10 DEF BootAges, Up
<1>11. ASSUME NEW i \in Attempts, WorldStep(i)
       PROVE  BootAges'
  BY <1>10, <1>11 DEF WorldStep, ChildExits, ChildForks, PipeCloses
<1> QED
  BY <1>1, <1>2, <1>3, <1>4, <1>5, <1>6, <1>7, <1>8, <1>9, <1>10, <1>11, BootSteps
  DEF MonitorStep

(* In the boot scope RUNNING means that the present child has lived for    *)
(* startsecs.                                                              *)
THEOREM BootRunsAged == ASSUME BootOnly PROVE Spec => []RunningIsAged
<1>1. Init => BootAges
  BY DEF Init, BootAges, Up
<1>2. TypeOK /\ BootInv /\ BootStates /\ BootAges /\ [Next]_vars => BootAges'
  BY BootAgesStep DEF BootStep
<1>3. BootAges => RunningIsAged
  BY DEF BootAges, RunningIsAged
<1> QED
  BY <1>1, <1>2, <1>3, BootStatesInvariant, BootInvariant, TypeCorrect, PTL
  DEF Spec

-----------------------------------------------------------------------------
(* A Stop that found a child.                                              *)

StopPcs  == {"terminating", "select", "grace", "killed", "killwait"}
Watching == {"new", "begun", "waiting", "draining"}

(* While terminate() runs, the program is at its first attempt and only    *)
(* that attempt's monitor may still move it; what terminate() has read is  *)
(* that attempt's.                                                         *)
BootStops ==
  /\ done = tries /\ cmd <= tries
  /\ \A r \in Requests :
       "start" \in Script[r] /\ cpc[r] = "idle" => state = "STOPPED" /\ tries = 0
  /\ \A r \in Requests : cpc[r] = "spawning" => cop[r] = "start"
  /\ \A r \in Requests : cpc[r] \in StopPcs =>
       /\ tries <= 1 /\ state \in {"STOPPING", "STOPPED", "FATAL"}
       /\ \A q \in Requests : "start" \in Script[q] => cpc[q] # "idle"
       /\ \A i \in Attempts :
            /\ mpc[i] \notin {"backoff", "pausing"}
            /\ mpc[i] \in Watching => state = "STOPPING"
            /\ mpc[i] \in {"closing", "over"} => state = "STOPPED"
       /\ cpc[r] # "terminating" => tries = 1 /\ ccmd[r] = 1
       /\ cpc[r] \in {"grace", "killwait"} => cch[r] = 1

LEMMA BootStopsCalls ==
  ASSUME BootOnly, BootStep, BootStops, BootAges, NEW r \in Requests,
         \/ Start(r) \/ Stop(r) \/ Terminate(r) \/ Select(r) \/ KillSelect(r)
         \/ StopWoken(r) \/ GraceExpires(r)
  PROVE  BootStops'
<1> USE DEF BootStep, procVars, osVars, timerVars, monitorVars, callVars
<1>1. CASE Start(r)
  <2>1. "start" \in Script[r] /\ cpc[r] = "idle"
    BY <1>1 DEF Start, Calls
  <2>2. \A q \in Requests : cpc[q] \notin StopPcs
    BY <2>1 DEF BootStops
  <2>3. /\ UNCHANGED <<done, cmd, tries, mpc, ccmd, cch>>
        /\ \E pc \in {"returned", "spawning"} : cpc' = [cpc EXCEPT ![r] = pc]
        /\ cop' = [cop EXCEPT ![r] = "start"]
    BY <1>1 DEF Start, BeginStart, Calls, Returns, Goes
  <2>4. \A q \in Requests : "start" \in Script[q] => cpc'[q] # "idle"
    BY <2>1, <2>3 DEF BootOnly, TypeOK
  <2>5. \A q \in Requests : cpc'[q] \notin StopPcs
    BY <2>2, <2>3 DEF TypeOK, StopPcs
  <2>6. \A q \in Requests : cpc'[q] = "spawning" => cop'[q] = "start"
    BY <2>3 DEF BootStops, TypeOK
  <2> QED
    BY <2>3, <2>4, <2>5, <2>6 DEF BootStops
<1>2. CASE Stop(r)
  <2>1. /\ UNCHANGED <<done, cmd, tries, mpc, ccmd, cch>>
        /\ cop' = [cop EXCEPT ![r] = "stop"]
        /\ \/ state' = state /\ cpc' = [cpc EXCEPT ![r] = "returned"]
           \/ /\ Up /\ state' = "STOPPING"
              /\ cpc' = [cpc EXCEPT ![r] = "terminating"]
    BY <1>2 DEF Stop, BeginStop, Calls, Returns, Goes
  <2>2. CASE state' = state /\ cpc' = [cpc EXCEPT ![r] = "returned"]
    BY <2>1, <2>2 DEF BootStops, TypeOK, StopPcs
  <2>3. CASE Up /\ state' = "STOPPING" /\ cpc' = [cpc EXCEPT ![r] = "terminating"]
    <3>1. \A q \in Requests :
            /\ cpc[q] \notin StopPcs
            /\ "start" \in Script[q] => cpc[q] # "idle"
      BY <2>3 DEF BootStops, Up
    <3>2. /\ tries <= 1
          /\ \A i \in Attempts :
               mpc[i] \notin {"backoff", "pausing", "closing", "over"}
      BY <2>3 DEF BootAges
    <3> QED
      BY <2>1, <2>3, <3>1, <3>2 DEF BootStops, TypeOK, StopPcs
  <2> QED
    BY <2>1, <2>2, <2>3
<1>3. CASE Terminate(r)
  <2>1. /\ UNCHANGED <<state, done, cmd, tries, mpc, cop, cch>> /\ cpc[r] = "terminating"
        /\ ccmd' = [ccmd EXCEPT ![r] = cmd]
        /\ \/ cpc' = [cpc EXCEPT ![r] = "returned"]
           \/ cmd # 0 /\ cpc' = [cpc EXCEPT ![r] = "select"]
    BY <1>3 DEF Terminate, StopDone, Returns, Goes, BootInv, BootCalls
  <2>2. cmd # 0 => cmd = 1 /\ tries = 1
    <3>1. tries <= 1 /\ cmd <= tries /\ cmd \in Nat /\ tries \in Nat
      BY <2>1 DEF BootStops, TypeOK, StopPcs
    <3> QED
      BY <3>1
  <2>3. cpc[r] \in StopPcs
    BY <2>1 DEF StopPcs
  <2> QED
    BY <2>1, <2>2, <2>3 DEF BootStops, TypeOK, StopPcs
<1>4. CASE Select(r) \/ KillSelect(r)
  <2>1. /\ UNCHANGED <<state, done, cmd, tries, mpc, cop, ccmd>>
        /\ cpc[r] \in {"select", "killed"} /\ cch' = [cch EXCEPT ![r] = done]
        /\ \E pc \in {"grace", "killwait"} : cpc' = [cpc EXCEPT ![r] = pc]
    BY <1>4 DEF Select, KillSelect, Reads, Goes
  <2>2. cpc[r] \in StopPcs /\ tries = 1 /\ done = 1 /\ ccmd[r] = 1
    BY <2>1 DEF BootStops, StopPcs
  <2> QED
    BY <2>1, <2>2 DEF BootStops, TypeOK, StopPcs
<1>5. CASE StopWoken(r) \/ GraceExpires(r)
  <2>1. /\ UNCHANGED <<state, done, cmd, tries, mpc, cop, ccmd, cch>>
        /\ \/ cpc' = [cpc EXCEPT ![r] = "returned"]
           \/ cpc[r] = "grace" /\ cpc' = [cpc EXCEPT ![r] = "killed"]
    BY <1>5
    DEF StopWoken, StopDone, GraceExpires, Returns, Goes, BootInv, BootCalls
  <2> QED
    BY <2>1 DEF BootStops, TypeOK, StopPcs
<1> QED
  BY <1>1, <1>2, <1>3, <1>4, <1>5

LEMMA BootStopsSpawns ==
  ASSUME BootOnly, BootStep, BootStops,
         \/ \E r \in Requests : CallerSpawns(r)
         \/ \E i \in Attempts : MonitorSpawns(i)
  PROVE  BootStops'
<1> USE DEF BootStep
<1>1. \/ /\ tries' = tries + 1 /\ done' = tries + 1 /\ cmd' = tries + 1
         /\ state' = state
      \/ /\ tries' = tries + 1 /\ done' = tries + 1 /\ cmd' = cmd
         /\ state' = "FATAL"
  BY DEF CallerSpawns, MonitorSpawns, SpawnOk, SpawnFails
<1>2. tries \in Nat /\ cmd \in Nat
  BY DEF TypeOK
<1>3. CASE \E i \in Attempts : MonitorSpawns(i)
  <2>1. /\ \A r \in Requests : cpc[r] \notin StopPcs
        /\ tries # 0 /\ UNCHANGED <<cpc, cop>>
    BY <1>3, MonitorAlone DEF MonitorSpawns, BootStops, callVars
  <2>2. \A r \in Requests : "start" \in Script[r] => cpc[r] # "idle"
    BY <2>1 DEF BootStops
  <2> QED
    BY <1>1, <1>2, <2>1, <2>2 DEF BootStops
<1>4. ASSUME NEW r \in Requests, CallerSpawns(r)
      PROVE  BootStops'
  <2>1. /\ tries = 0 /\ cpc[r] = "spawning" /\ "start" \in Script[r]
        /\ cpc' = [cpc EXCEPT ![r] = "returned"]
        /\ UNCHANGED <<cop, ccmd, cch>>
    BY <1>4, CallerAlone DEF CallerSpawns, Returns, BootInv, BootCalls
  <2>2. \A q \in Requests : "start" \in Script[q] => cpc'[q] # "idle"
    BY <2>1 DEF BootOnly, TypeOK
  <2>3. \A i \in Attempts : mpc[i] = "none"
    BY <2>1 DEF BootInv, BootMonitors, Attempts
  <2>4. \/ mpc' = [mpc EXCEPT ![1] = "new"] /\ state' = state
        \/ mpc' = mpc /\ state' = "FATAL"
    BY <1>4, <2>1 DEF CallerSpawns, SpawnOk, SpawnFails
  <2>5. \A q \in Requests : cpc'[q] \in StopPcs =>
          cpc[q] = "terminating" /\ state = "STOPPING"
    <3>1. state \in {"STARTING", "STOPPING"}
      BY <2>1 DEF BootStates
    <3>2. \A q \in Requests :
            cpc[q] \in StopPcs => cpc[q] = "terminating" /\ state = "STOPPING"
      BY <2>1, <3>1 DEF BootStops
    <3> QED
      BY <2>1, <3>2 DEF TypeOK, StopPcs
  <2>6. \A i \in Attempts : mpc'[i] \in {"none", "new"}
    BY <2>3, <2>4 DEF TypeOK
  <2>7. \A q \in Requests : cpc'[q] \in StopPcs => cpc'[q] = "terminating"
    BY <2>1, <2>5 DEF TypeOK, StopPcs
  <2>8. \A i \in Attempts : mpc'[i] = "new" => state' = state
    BY <2>3, <2>4
  <2>9. \A q \in Requests : cpc'[q] = "spawning" => cop'[q] = "start"
    BY <2>1 DEF BootStops, TypeOK
  <2> QED
    BY <1>1, <1>2, <2>1, <2>2, <2>5, <2>6, <2>7, <2>8, <2>9 DEF BootStops, Watching
<1> QED
  BY <1>3, <1>4

LEMMA BootStopsStep ==
  ASSUME BootOnly, BootStep, BootStops, BootAges
  PROVE  BootStops'
<1> USE DEF BootStep, procVars, osVars, timerVars, monitorVars, callVars
<1>1. ASSUME NEW i \in Attempts,
             MonitorStops(i) \/ MonitorBacksOff(i) \/ MonitorGivesUp(i) \/ MonitorExits(i)
      PROVE  BootStops'
  <2>1. mpc[i] = "draining" /\ i = tries /\ tries # 0
        /\ UNCHANGED <<done, cmd, tries, cpc, cop, ccmd, cch>>
    BY <1>1, BootDecision DEF Attempts
  <2>2. \A r \in Requests : "start" \in Script[r] => cpc[r] # "idle"
    BY <2>1 DEF BootStops
  <2>3. CASE \A r \in Requests : cpc[r] \notin StopPcs
    BY <2>1, <2>2, <2>3 DEF BootStops
  <2>4. CASE \E r \in Requests : cpc[r] \in StopPcs
    <3>1. state = "STOPPING" /\ tries <= 1
      BY <2>1, <2>4 DEF BootStops, Watching
    <3>2. state' = "STOPPED" /\ mpc' = [mpc EXCEPT ![i] = "closing"]
      BY <1>1, <3>1, BootDecision
    <3>3. \A k \in Attempts : k # i => mpc[k] \in {"none", "closing", "over"}
      BY <2>1, BootLatest
    <3>4. \A k \in Attempts :
            mpc'[k] \notin {"backoff", "pausing"} /\ mpc'[k] \notin Watching
      BY <3>2, <3>3 DEF TypeOK, Watching
    <3> QED
      BY <2>1, <2>2, <3>1, <3>2, <3>4 DEF BootStops
  <2> QED
    BY <2>3, <2>4
<1>2. ASSUME NEW i \in Attempts,
             MonitorDefers(i) \/ MonitorWaits(i) \/ MonitorReaps(i) \/ MonitorCloses(i)
      PROVE  BootStops'
  <2>1. /\ UNCHANGED <<state, done, cmd, tries, cpc, cop, ccmd, cch>>
        /\ \/ /\ mpc[i] \in {"new", "begun", "waiting"}
              /\ \E pc \in {"begun", "waiting", "draining", "echild"} :
                   mpc' = [mpc EXCEPT ![i] = pc]
           \/ mpc[i] = "closing" /\ mpc' = [mpc EXCEPT ![i] = "over"]
    BY <1>2 DEF MonitorDefers, MonitorWaits, MonitorReaps, MonitorCloses
  <2> QED
    BY <2>1 DEF BootStops, Watching, TypeOK
<1>3. ASSUME UNCHANGED <<state, done, cmd, tries, cpc, cop, ccmd, cch, mpc>>
      PROVE  BootStops'
  BY <1>3 DEF BootStops
<1>4. ASSUME NEW i \in Attempts, TimerStep(i)
      PROVE  BootStops'
  <2>1. /\ UNCHANGED <<done, cmd, tries, cpc, cop, ccmd, cch, mpc>>
        /\ state' = state \/ state = "STARTING"
    BY <1>4 DEF TimerStep, TimerSkips, TimerArms, TimerFires, TimerQuits, Promotes
  <2>2. CASE state' = state
    BY <1>3, <2>1, <2>2
  <2>3. CASE state = "STARTING"
    BY <2>1, <2>3 DEF BootStops
  <2> QED
    BY <2>1, <2>2, <2>3
<1>5. ASSUME Tick \/ \E i \in Attempts : WorldStep(i)
      PROVE  BootStops'
  BY <1>3, <1>5 DEF Tick, WorldStep, ChildExits, ChildForks, PipeCloses
<1> QED
  BY <1>1, <1>2, <1>3, <1>4, <1>5, BootStopsCalls, BootStopsSpawns, BootSteps
  DEF MonitorStep

(* In the boot scope a Stop() that found a child to signal returns nil     *)
(* only once that child is reaped and the program STOPPED.                 *)
THEOREM BootStopWaits == ASSUME BootOnly PROVE Spec => StopWaits
<1> DEFINE Boot == TypeOK /\ BootInv /\ BootStates /\ BootAges /\ BootStops
           Waits == \A r \in Requests :
                      ReturnsNow(r, "stop", "ok") /\ ccmd'[r] # 0
                        => child'[ccmd'[r]] = "reaped" /\ state' = "STOPPED"
<1>1. Init => BootAges /\ BootStops
  <2> SUFFICES ASSUME Init PROVE BootAges /\ BootStops
    OBVIOUS
  <2>1. BootAges
    BY DEF Init, BootAges, Up
  <2>2. BootStops
    BY DEF Init, BootStops, StopPcs
  <2> QED
    BY <2>1, <2>2
<1>2. Boot /\ [Next]_vars => BootAges' /\ BootStops'
  BY BootAgesStep, BootStopsStep DEF BootStep
<1>3. Boot /\ [Next]_vars => [Waits]_vars
  <2> SUFFICES ASSUME Boot, [Next]_vars, NEW r \in Requests,
                      ReturnsNow(r, "stop", "ok"), ccmd'[r] # 0
               PROVE  child'[ccmd'[r]] = "reaped" /\ state' = "STOPPED"
    OBVIOUS
  <2> USE DEF procVars, osVars, callVars
  <2>1. cpc'[r] # cpc[r] /\ ret'[r] = "ok" /\ cop[r] = "stop"
    BY DEF ReturnsNow
  <2>2. \A q \in Requests : q # r =>
          ~(Start(q) \/ Stop(q) \/ CallerSpawns(q) \/ Terminate(q) \/ Select(q)
            \/ KillSelect(q) \/ StopWoken(q) \/ GraceExpires(q))
    BY <2>1
    DEF Start, Stop, BeginStart, BeginStop, CallerSpawns, Terminate, Select,
        KillSelect, Reads, StopWoken, StopDone, GraceExpires, Goes, Returns, TypeOK
  <2>3. ASSUME NEW i \in Attempts, TimerStep(i) \/ MonitorStep(i) \/ WorldStep(i)
        PROVE  cpc' = cpc
    BY <2>3
    DEF TimerStep, TimerSkips, TimerArms, TimerFires, TimerQuits, Promotes,
        MonitorStep, MonitorDefers, MonitorWaits, MonitorReaps, MonitorStops,
        MonitorBacksOff, MonitorGivesUp, MonitorExits, MonitorDecides,
        MonitorSpawns, MonitorCloses, WorldStep, ChildExits, ChildForks, PipeCloses
  <2>4. \/ Start(r) \/ Stop(r) \/ CallerSpawns(r) \/ Terminate(r) \/ Select(r)
        \/ KillSelect(r) \/ StopWoken(r) \/ GraceExpires(r)
    BY <2>1, <2>2, <2>3, BootSteps DEF BootStep, Tick
  <2>5. ~(Start(r) \/ Stop(r) \/ Select(r) \/ KillSelect(r) \/ GraceExpires(r))
    BY <2>1
    DEF ReturnsNow, Start, Stop, BeginStart, BeginStop, Select, KillSelect, Reads,
        GraceExpires, Goes, Returns, TypeOK
  <2>6. ~CallerSpawns(r)
    BY <2>1 DEF CallerSpawns, BootStops
  <2>7. CASE Terminate(r)
    <3>1. cmd = 0 /\ ccmd' = [ccmd EXCEPT ![r] = cmd]
      BY <2>7 DEF ReturnsNow, Terminate, Goes, TypeOK
    <3> QED
      BY <3>1 DEF TypeOK
  <2>8. CASE StopWoken(r)
    <3>1. /\ cpc[r] \in {"grace", "killwait"} /\ cch[r] \in closed
          /\ UNCHANGED <<state, child, ccmd>>
      BY <2>8 DEF StopWoken
    <3>2. cch[r] = 1 /\ ccmd[r] = 1
      BY <3>1 DEF BootStops, StopPcs
    <3>3. 1 \in Attempts /\ mpc[1] = "over" /\ child[1] = "reaped"
      BY <3>1, <3>2 DEF BootInv, BootChannels, BootChildren
    <3>4. state = "STOPPED"
      BY <3>1, <3>3 DEF BootStops, StopPcs
    <3> QED
      BY <3>1, <3>2, <3>3, <3>4
  <2> QED
    BY <2>4, <2>5, <2>6, <2>7, <2>8
<1> QED
  BY <1>1, <1>2, <1>3, BootStatesInvariant, BootInvariant, TypeCorrect, PTL
  DEF Spec, StopWaits
(***************************************************************************)
(* The serial scope: whoever calls waits for the answer of the call before *)
(* (but for that, any request may call anything), and no monitor restarts  *)
(* a program.  The grace period may lapse, and so may Restart()'s wait.    *)
(***************************************************************************)
SerialOnly ==
  /\ Serial
  /\ \A c \in Configs : c.policy = "never" /\ c.startRetries <= 0

Away     == {"idle", "returned"}
Stopping == {"terminating", "select", "grace", "killed", "killwait"}
Attending == {"new", "begun", "waiting", "draining", "echild"}
Spawning == \E r \in Requests : cpc[r] = "spawning"

(* One call at a time, and what the status is at each point of it.         *)
SerialCalls ==
  /\ \A q, r \in Requests : cpc[q] \notin Away /\ cpc[r] \notin Away => q = r
  /\ state = "STOPPING" => \E r \in Requests : cpc[r] \in Stopping
  /\ \A r \in Requests :
       /\ cpc[r] = "spawning" => Up /\ cop[r] # "stop"
       /\ cpc[r] \in Stopping =>
            state \in {"STOPPING", "STOPPED"} /\ cmd # 0 /\ done = cmd
       /\ cpc[r] \in {"grace", "killwait"} => cch[r] = cmd
       /\ cpc[r] \in {"awaiting", "restartwait"} => state = "STOPPED"
       /\ cpc[r] = "starting" => ~Up /\ state # "STOPPING"
       /\ cpc[r] \in {"awaiting", "restartwait", "starting", "stopping"}
            => cop[r] = "restart"

(* A program that is up, or on its way down, has the one monitor that has  *)
(* not decided yet; p.cmd and p.done are its own.                          *)
SerialMonitors ==
  /\ Up \/ state = "STOPPING" => Spawning \/ (cmd # 0 /\ mpc[cmd] \in Attending)
  /\ \A i \in Attempts :
       /\ mpc[i] \notin {"backoff", "pausing"}
       /\ mpc[i] \in Attending =>
            cmd = i /\ done = i /\ (Up \/ state = "STOPPING") /\ ~Spawning
       /\ mpc[i] \notin {"none", "new"} => mch[i] = i
       /\ mpc[i] \notin {"none", "new", "begun"} => mcmd[i] = i

SerialChildren ==
  \A i \in Attempts :
    /\ i > tries => child[i] = "none" /\ mpc[i] = "none"
    /\ i <= tries => child[i] # "none"
    /\ child[i] \in {"alive", "doomed", "zombie"} => mpc[i] \in {"new", "begun", "waiting"}
    /\ i \in closed => mpc[i] = "over"

SerialInv == SerialCalls /\ SerialMonitors /\ SerialChildren /\ 0 \notin closed

LEMMA SerialInit == Init => SerialInv
<1> SUFFICES ASSUME Init PROVE SerialInv
  OBVIOUS
<1>1. SerialCalls
  BY DEF Init, SerialCalls, Away, Stopping
<1>2. SerialMonitors
  BY DEF Init, SerialMonitors, Up, Attending
<1>3. SerialChildren
  BY DEF Init, SerialChildren, Attempts
<1> QED
  BY <1>1, <1>2, <1>3 DEF Init, SerialInv

(* Between two calls, and whenever a restart is about to start the program *)
(* again, no monitor watches anything.                                     *)
LEMMA SerialQuiet ==
  ASSUME SerialInv, NEW r \in Requests, ~Up,
         (\A q \in Requests : cpc[q] \in Away) \/ cpc[r] = "starting"
  PROVE  state # "STOPPING" /\ \A i \in Attempts : mpc[i] \notin Attending
<1>1. state # "STOPPING"
  BY DEF SerialInv, SerialCalls, Away, Stopping
<1> QED
  BY <1>1 DEF SerialInv, SerialMonitors

(* Whose turn it is.                                                       *)
LEMMA SerialTurn ==
  ASSUME SerialOnly, TypeOK, SerialInv, NEW r \in Requests
  PROVE  /\ Start(r) \/ Stop(r) \/ Restart(r) => \A q \in Requests : cpc[q] \in Away
         /\ cpc[r] \notin Away => \A q \in Requests : q # r => cpc[q] \in Away
<1>1. Start(r) \/ Stop(r) \/ Restart(r) => \A q \in Requests : cpc[q] \in Away
  BY DEF SerialOnly, Start, Stop, Restart, Calls, Away
<1> QED
  BY <1>1 DEF SerialInv, SerialCalls

LEMMA SerialBegins ==
  ASSUME SerialOnly, TypeOK, SerialInv, NEW r \in Requests,
         \/ Start(r) \/ Stop(r) \/ Restart(r)
         \/ RestartStops(r) \/ RestartStarts(r)
  PROVE  SerialInv'
<1> USE DEF osVars, timerVars, monitorVars, callVars, tellVars, procVars
<1>0. \A q \in Requests : q # r => cpc[q] \in Away
  BY SerialTurn DEF RestartStops, RestartStarts, Away
<1>1. /\ UNCHANGED <<cmd, done, tries, child, closed, mpc, mch, mcmd, cch>>
      /\ \A q \in Requests : q # r => cpc'[q] = cpc[q] /\ cop'[q] = cop[q]
      /\ r \in DOMAIN cpc /\ r \in DOMAIN cop
  BY DEF Start, Stop, Restart, RestartStops, RestartStarts, Calls, BeginStart,
         BeginStop, Goes, Returns, TypeOK
<1>2. SerialChildren' /\ 0 \notin closed'
  BY <1>1 DEF SerialInv, SerialChildren
<1>3. CASE cpc'[r] = "returned" \/ Restart(r)
  <2>1. state' = state /\ cpc[r] \in {"idle", "stopping", "starting"}
    BY <1>1, <1>3
    DEF Start, Stop, Restart, RestartStops, RestartStarts, Calls, BeginStart,
        BeginStop, Goes, Returns, TypeOK
  <2>2. Restart(r) => cpc'[r] = (IF Up THEN "stopping" ELSE "starting")
                      /\ cop'[r] = "restart"
    BY <1>1 DEF Restart, Calls, Goes
  <2>3. Spawning' <=> Spawning
    BY <1>1, <1>3, <2>1, <2>2 DEF Spawning
  <2>4. Restart(r) /\ ~Up => state # "STOPPING"
    BY SerialTurn, SerialQuiet
  <2>5. Up' <=> Up
    BY <2>1 DEF Up
  <2>6. SerialMonitors'
    BY <1>1, <2>1, <2>3, <2>5 DEF SerialInv, SerialMonitors
  <2>7. state = "STOPPING" => \E q \in Requests : cpc'[q] \in Stopping
    BY <1>1, <2>1 DEF SerialInv, SerialCalls, Stopping
  <2>8. \A p, q \in Requests : cpc'[p] \notin Away /\ cpc'[q] \notin Away => p = q
    BY <1>0, <1>1
  <2>9. SerialCalls'
    <3> SUFFICES ASSUME NEW q \in Requests
                 PROVE  (/\ cpc[q] = "spawning" => Up /\ cop[q] # "stop"
                         /\ cpc[q] \in Stopping =>
                              state \in {"STOPPING", "STOPPED"} /\ cmd # 0 /\ done = cmd
                         /\ cpc[q] \in {"grace", "killwait"} => cch[q] = cmd
                         /\ cpc[q] \in {"awaiting", "restartwait"} => state = "STOPPED"
                         /\ cpc[q] = "starting" => ~Up /\ state # "STOPPING"
                         /\ cpc[q] \in {"awaiting", "restartwait", "starting", "stopping"}
                              => cop[q] = "restart")'
      BY <2>1, <2>7, <2>8 DEF SerialCalls
    <3>1. CASE q # r
      BY <1>1, <2>1, <2>5, <3>1 DEF SerialInv, SerialCalls
    <3>2. CASE q = r
      BY <1>3, <2>1, <2>2, <2>4, <2>5, <3>2 DEF Stopping
    <3> QED
      BY <3>1, <3>2
  <2> QED
    BY <1>2, <2>6, <2>9 DEF SerialInv
<1>4. CASE (Start(r) \/ RestartStarts(r)) /\ cpc'[r] # "returned"
  <2>1. ~Up /\ state' = "STARTING" /\ cpc'[r] = "spawning" /\ cop'[r] # "stop"
    BY <1>1, <1>4
    DEF Start, RestartStarts, Calls, BeginStart, Goes, Returns, SerialInv, SerialCalls
  <2>2. \A i \in Attempts : mpc[i] \notin Attending
    BY <1>4, <2>1, SerialTurn, SerialQuiet DEF RestartStarts
  <2>3. Up' /\ Spawning'
    BY <2>1 DEF Up, Spawning
  <2>4. SerialMonitors'
    BY <1>1, <2>2, <2>3 DEF SerialInv, SerialMonitors
  <2>5. SerialCalls'
    BY <1>0, <1>1, <2>1, <2>3 DEF SerialCalls, Away, Stopping
  <2> QED
    BY <1>2, <2>4, <2>5 DEF SerialInv
<1>5. CASE (Stop(r) \/ RestartStops(r)) /\ cpc'[r] # "returned"
  <2>1. /\ Up /\ state' = "STOPPING" /\ cpc'[r] = "terminating"
        /\ cpc[r] \in {"idle", "stopping"}
    BY <1>1, <1>5 DEF Stop, RestartStops, Calls, BeginStop, Goes, Returns
  <2>2. ~Spawning /\ ~Spawning'
    BY <1>0, <1>1, <2>1 DEF Spawning, Away
  <2>3. cmd # 0 /\ mpc[cmd] \in Attending
    BY <2>1, <2>2 DEF SerialInv, SerialMonitors
  <2>4. cmd \in Attempts
    BY <2>3, ProcessAssumption DEF TypeOK, Attempts
  <2>5. done = cmd
    BY <2>3, <2>4 DEF SerialInv, SerialMonitors
  <2>6. SerialMonitors'
    BY <1>1, <2>1, <2>2, <2>3 DEF SerialInv, SerialMonitors
  <2>7. SerialCalls'
    BY <1>0, <1>1, <2>1, <2>3, <2>5 DEF SerialCalls, Away, Stopping
  <2> QED
    BY <1>2, <2>6, <2>7 DEF SerialInv
<1> QED
  BY <1>3, <1>4, <1>5

(* spawn() by a caller: nobody watches anything, and all children are gone.*)
LEMMA SerialSpawns ==
  ASSUME SerialOnly, TypeOK, SerialInv, NEW r \in Requests, CallerSpawns(r)
  PROVE  SerialInv'
<1> DEFINE n == tries + 1
<1>1. n \in Attempts /\ tries' = n /\ tries \in Nat
  BY ProcessAssumption DEF CallerSpawns, SpawnOk, SpawnFails, TypeOK, Attempts
<1>2. \A i \in Attempts : i \in Int /\ (i > n => i > tries /\ i # n)
                          /\ (i <= n => i <= tries \/ i = n)
  BY <1>1 DEF Attempts
<1>3. /\ cpc[r] = "spawning" /\ cpc' = [cpc EXCEPT ![r] = "returned"]
      /\ UNCHANGED <<cop, cch, mch, mcmd, closed>>
  BY DEF CallerSpawns, SpawnOk, SpawnFails, Returns, timerVars
<1>4. \A q \in Requests : q # r => cpc[q] \in Away
  BY <1>3, SerialTurn DEF Away
<1>5. ~Spawning'
  BY <1>3, <1>4 DEF Spawning, Away, TypeOK
<1>6. \A i \in Attempts : mpc[i] \notin Attending
  BY <1>3 DEF SerialInv, SerialMonitors, Spawning
<1>7. Up /\ state # "STOPPING"
  BY <1>3 DEF SerialInv, SerialCalls, Up
<1>8. CASE SpawnOk(mpc)
  <2>1. /\ child' = [child EXCEPT ![n] = "alive"] /\ mpc' = [mpc EXCEPT ![n] = "new"]
        /\ cmd' = n /\ done' = n /\ state' = state
    BY <1>8 DEF SpawnOk
  <2>2. Up' /\ n # 0
    BY <1>1, <1>7, <2>1 DEF Up, Attempts
  <2>3. mpc[n] = "none"
    BY <1>1, <1>2 DEF SerialInv, SerialChildren
  <2> HIDE DEF n
  <2>4. SerialMonitors'
    BY <1>1, <1>3, <1>5, <1>6, <2>1, <2>2 DEF SerialInv, SerialMonitors, TypeOK, Attending
  <2>5. SerialChildren'
    BY <1>1, <1>2, <1>3, <2>1, <2>3 DEF SerialInv, SerialChildren, TypeOK
  <2>6. SerialCalls'
    BY <1>3, <1>4, <1>7, <2>1 DEF SerialCalls, Away, Stopping, TypeOK
  <2> QED
    BY <1>3, <2>4, <2>5, <2>6 DEF SerialInv
<1>9. CASE SpawnFails(mpc)
  <2>1. /\ child' = [child EXCEPT ![n] = "failed"] /\ mpc' = mpc
        /\ cmd' = cmd /\ state' = "FATAL"
    BY <1>9 DEF SpawnFails
  <2>2. ~Up'
    BY <2>1 DEF Up
  <2>3. mpc[n] = "none"
    BY <1>1, <1>2 DEF SerialInv, SerialChildren
  <2> HIDE DEF n
  <2>4. SerialMonitors'
    BY <1>3, <1>6, <2>1, <2>2 DEF SerialInv, SerialMonitors
  <2>5. SerialChildren'
    BY <1>1, <1>2, <1>3, <2>1, <2>3 DEF SerialInv, SerialChildren, TypeOK
  <2>6. SerialCalls'
    BY <1>3, <1>4, <2>1 DEF SerialCalls, Away, Stopping, TypeOK
  <2> QED
    BY <1>3, <2>4, <2>5, <2>6 DEF SerialInv
<1> QED
  BY <1>8, <1>9 DEF CallerSpawns

(* The receive that ends a terminate() reads a channel that only the       *)
(* monitor of p.cmd closes, and only after it has decided.                 *)
LEMMA SerialWoken ==
  ASSUME TypeOK, SerialInv, NEW r \in Requests, cpc[r] \in Stopping, cch[r] \in closed,
         cch[r] = cmd
  PROVE  state = "STOPPED" /\ \A i \in Attempts : mpc[i] \notin Attending
<1>1. cmd \in Attempts /\ mpc[cmd] = "over"
  <2>1. cmd \in Attempts
    BY ProcessAssumption DEF SerialInv, SerialCalls, TypeOK, Attempts
  <2> QED
    BY <2>1 DEF SerialInv, SerialChildren
<1>2. \A i \in Attempts : mpc[i] \notin Attending
  BY <1>1 DEF SerialInv, SerialMonitors, Attending
<1>3. state # "STOPPING"
  <2>1. state = "STOPPING" => Spawning
    BY <1>1 DEF SerialInv, SerialMonitors, Attending
  <2>2. ~Spawning
    BY DEF SerialInv, SerialCalls, Spawning, Stopping, Up
  <2> QED
    BY <2>1, <2>2
<1> QED
  BY <1>2, <1>3 DEF SerialInv, SerialCalls

(* Kill() of a reaped child ends the scope; of any other it dooms the      *)
(* child, and nothing else of the program moves.                           *)
LEMMA SerialKills ==
  ASSUME TypeOK, SerialInv, NEW r \in Requests, GraceExpires(r)
  PROVE  \/ KillFailed'
         \/ /\ cpc[r] = "grace" /\ cpc' = [cpc EXCEPT ![r] = "killed"]
            /\ SerialChildren'
<1>1. cpc[r] = "grace" /\ UNCHANGED <<tries, mpc, closed>>
  BY DEF GraceExpires, osVars, monitorVars
<1>2. CASE child[ccmd[r]] = "reaped"
  BY <1>2 DEF GraceExpires, Returns, Goes, KillFailed, TypeOK
<1>3. CASE child[ccmd[r]] # "reaped"
  <2>1. /\ cpc' = [cpc EXCEPT ![r] = "killed"]
        /\ child' = IF child[ccmd[r]] = "alive"
                    THEN [child EXCEPT ![ccmd[r]] = "doomed"] ELSE child
    BY <1>3 DEF GraceExpires, Goes
  <2>2. SerialChildren'
    BY <1>1, <2>1 DEF SerialInv, SerialChildren, TypeOK
  <2> QED
    BY <1>1, <2>1, <2>2
<1> QED
  BY <1>2, <1>3

LEMMA SerialCallStep ==
  ASSUME SerialOnly, TypeOK, SerialInv, NEW r \in Requests, CallOf(r) \/ CallStep(r)
  PROVE  KillFailed' \/ SerialInv'
<1> USE DEF procVars, osVars, timerVars, monitorVars, callVars, tellVars
<1>1. CASE Start(r) \/ Stop(r) \/ Restart(r) \/ RestartStops(r) \/ RestartStarts(r)
  BY <1>1, SerialBegins
<1>2. CASE CallerSpawns(r)
  BY <1>2, SerialSpawns
<1>4. ASSUME ~KillFailed',
             \/ Terminate(r) \/ Select(r) \/ KillSelect(r) \/ RestartSelect(r)
             \/ StopWoken(r) \/ RestartWoken(r)
             \/ GraceExpires(r) \/ RestartTimesOut(r)
      PROVE  SerialInv'
  <2>1. /\ UNCHANGED <<state, cmd, done, tries, closed, mpc, mch, mcmd, cop>>
        /\ \A q \in Requests : q # r => cpc'[q] = cpc[q] /\ cch'[q] = cch[q]
        /\ r \in DOMAIN cpc
        /\ GraceExpires(r) \/ UNCHANGED child
    BY <1>4
    DEF Terminate, Select, KillSelect, RestartSelect, Reads, StopWoken, StopDone,
        RestartWoken, GraceExpires, RestartTimesOut, Goes, Returns, TypeOK
  <2>2. \A q \in Requests : q # r => cpc[q] \in Away
    BY <1>4, SerialTurn
    DEF Terminate, Select, KillSelect, RestartSelect, Reads, StopWoken, RestartWoken,
        GraceExpires, RestartTimesOut, Away
  <2>3. /\ cpc[r] # "spawning" /\ cpc'[r] # "spawning"
        /\ \/ /\ cpc[r] \in Stopping
              /\ cpc'[r] \in {"select", "grace", "killed", "killwait"}
              /\ cpc'[r] \in {"grace", "killwait"} => cch'[r] = cmd
           \/ /\ cpc'[r] \in {"returned", "awaiting", "restartwait", "starting"}
              /\ cpc'[r] # "returned" => cop[r] = "restart"
              /\ state = "STOPPED"
    <3>1. CASE Terminate(r)
      BY <2>1, <3>1 DEF Terminate, Goes, SerialInv, SerialCalls, Stopping
    <3>2. CASE Select(r) \/ KillSelect(r)
      BY <2>1, <3>2
      DEF Select, KillSelect, Reads, Goes, SerialInv, SerialCalls, Stopping, TypeOK
    <3>3. CASE RestartSelect(r) \/ RestartWoken(r) \/ RestartTimesOut(r)
      BY <2>1, <3>3
      DEF RestartSelect, RestartWoken, RestartTimesOut, Reads, Goes, Returns,
          SerialInv, SerialCalls
    <3>4. CASE StopWoken(r)
      <4>1. cpc[r] \in {"grace", "killwait"} /\ cch[r] \in closed /\ cch[r] = cmd
        BY <3>4 DEF StopWoken, SerialInv, SerialCalls
      <4>2. state = "STOPPED"
        BY <4>1, SerialWoken DEF Stopping
      <4>3. cpc'[r] \in {"returned", "awaiting"} /\ (cpc'[r] # "returned" => cop[r] = "restart")
        BY <2>1, <3>4 DEF StopWoken, StopDone, Goes, Returns
      <4> QED
        BY <4>1, <4>2, <4>3
    <3>5. CASE GraceExpires(r)
      BY <1>4, <2>1, <3>5, SerialKills DEF Stopping
    <3> QED
      BY <1>4, <3>1, <3>2, <3>3, <3>4, <3>5
  <2>4. SerialChildren' /\ 0 \notin closed'
    <3>1. CASE UNCHANGED child
      BY <2>1, <3>1 DEF SerialInv, SerialChildren
    <3>2. CASE GraceExpires(r)
      BY <1>4, <2>1, <3>2, SerialKills DEF SerialInv
    <3> QED
      BY <2>1, <3>1, <3>2
  <2>5. SerialMonitors'
    <3>1. (Spawning' <=> Spawning) /\ (Up' <=> Up)
      BY <2>1, <2>3 DEF Spawning, Up
    <3> QED
      BY <2>1, <3>1 DEF SerialInv, SerialMonitors
  <2>6. SerialCalls'
    <3>1. Up' <=> Up
      BY <2>1 DEF Up
    <3>2. \A p, q \in Requests : cpc'[p] \notin Away /\ cpc'[q] \notin Away => p = q
      BY <2>1, <2>2
    <3>3. state' = "STOPPING" => \E q \in Requests : cpc'[q] \in Stopping
      BY <2>1, <2>3 DEF Stopping
    <3>4. state = "STOPPED" => ~Up
      BY DEF Up
    <3>5. ASSUME NEW q \in Requests
          PROVE  (/\ cpc[q] = "spawning" => Up /\ cop[q] # "stop"
                  /\ cpc[q] \in Stopping =>
                       state \in {"STOPPING", "STOPPED"} /\ cmd # 0 /\ done = cmd
                  /\ cpc[q] \in {"grace", "killwait"} => cch[q] = cmd
                  /\ cpc[q] \in {"awaiting", "restartwait"} => state = "STOPPED"
                  /\ cpc[q] = "starting" => ~Up /\ state # "STOPPING"
                  /\ cpc[q] \in {"awaiting", "restartwait", "starting", "stopping"}
                       => cop[q] = "restart")'
      <4>1. CASE q # r
        BY <2>1, <3>1, <4>1 DEF SerialInv, SerialCalls
      <4>2. CASE q = r
        BY <2>1, <2>3, <3>1, <3>4, <4>2 DEF SerialInv, SerialCalls, Stopping
      <4> QED
        BY <4>1, <4>2
    <3> QED
      BY <3>2, <3>3, <3>5 DEF SerialCalls
  <2> QED
    BY <2>4, <2>5, <2>6 DEF SerialInv
<1> QED
  BY <1>1, <1>2, <1>4 DEF CallOf, CallStep

LEMMA SerialDecides ==
  ASSUME SerialOnly, TypeOK, SerialInv, NEW i \in Attempts,
         \/ MonitorStops(i) \/ MonitorBacksOff(i) \/ MonitorGivesUp(i) \/ MonitorExits(i)
  PROVE  SerialInv'
<1>1. mpc[i] \in {"draining", "echild"}
  BY DEF MonitorStops, MonitorBacksOff, MonitorGivesUp, MonitorExits, WaitReturned
<1>2. /\ cmd = i /\ ~Spawning /\ (Up \/ state = "STOPPING")
      /\ \A j \in Attempts : j # i => mpc[j] \notin Attending
  BY <1>1 DEF SerialInv, SerialMonitors, Attending
<1>3. cfg \in Configs /\ cfg.policy = "never" /\ cfg.startRetries <= 0
  BY DEF SerialOnly, TypeOK
<1>4. ~MonitorBacksOff(i)
  BY <1>3, ProcessAssumption DEF MonitorBacksOff, TypeOK
<1>5. \/ state' = "STOPPED"
      \/ state # "STOPPING" /\ state' \in {"FATAL", "EXITED"}
  BY <1>4 DEF MonitorStops, MonitorGivesUp, MonitorExits, MonitorDecides, TooQuick, Up
<1>6. /\ mpc' = [mpc EXCEPT ![i] = "closing"]
      /\ UNCHANGED <<cmd, done, tries, child, closed, mch, mcmd, cpc, cop, cch>>
  BY <1>3, <1>4
  DEF MonitorStops, MonitorGivesUp, MonitorExits, MonitorDecides, ShouldRestart, callVars
<1>7. ~Up' /\ state' # "STOPPING" /\ ~Spawning'
  BY <1>2, <1>5, <1>6 DEF Up, Spawning
<1>8. SerialChildren' /\ 0 \notin closed'
  BY <1>1, <1>6 DEF SerialInv, SerialChildren, TypeOK
<1>9. SerialMonitors'
  BY <1>1, <1>2, <1>6, <1>7 DEF SerialInv, SerialMonitors, TypeOK, Attending
<1>10. SerialCalls'
  <2>1. Up /\ state' # "STOPPED" => state \notin {"STOPPING", "STOPPED"}
    BY DEF Up
  <2>2. \A r \in Requests : cpc[r] # "spawning"
    BY <1>2 DEF Spawning
  <2>3. state # "STOPPED"
    BY <1>2 DEF Up
  <2> QED
    BY <1>2, <1>5, <1>6, <1>7, <2>1, <2>2, <2>3 DEF SerialInv, SerialCalls
<1> QED
  BY <1>8, <1>9, <1>10 DEF SerialInv

LEMMA SerialMonitorStep ==
  ASSUME SerialOnly, TypeOK, SerialInv, NEW i \in Attempts, MonitorStep(i)
  PROVE  SerialInv'
<1> USE DEF procVars, osVars, timerVars, monitorVars, callVars, tellVars
<1>1. CASE MonitorStops(i) \/ MonitorBacksOff(i) \/ MonitorGivesUp(i) \/ MonitorExits(i)
  BY <1>1, SerialDecides
<1>2. ~MonitorSpawns(i)
  BY DEF MonitorSpawns, SerialInv, SerialMonitors
<1>3. CASE MonitorDefers(i) \/ MonitorWaits(i) \/ MonitorReaps(i) \/ MonitorCloses(i)
  <2>1. UNCHANGED <<state, cmd, done, tries, cpc, cop, cch>>
    BY <1>3 DEF MonitorDefers, MonitorWaits, MonitorReaps, MonitorCloses
  <2>2. (Up' <=> Up) /\ (Spawning' <=> Spawning)
    BY <2>1 DEF Up, Spawning
  <2>3. SerialCalls'
    BY <2>1, <2>2 DEF SerialInv, SerialCalls
  <2>4. CASE MonitorDefers(i)
    <3>1. /\ mpc[i] = "new" /\ mpc' = [mpc EXCEPT ![i] = "begun"]
          /\ mch' = [mch EXCEPT ![i] = i] /\ UNCHANGED <<child, closed, mcmd>>
      BY <2>4 DEF MonitorDefers, SerialInv, SerialMonitors, Attending
    <3>2. SerialMonitors' /\ SerialChildren' /\ 0 \notin closed'
      BY <2>1, <2>2, <3>1 DEF SerialInv, SerialMonitors, SerialChildren, TypeOK, Attending
    <3> QED
      BY <2>3, <3>2 DEF SerialInv
  <2>5. CASE MonitorWaits(i)
    <3>1. /\ mpc[i] = "begun" /\ mpc' = [mpc EXCEPT ![i] = "waiting"]
          /\ mcmd' = [mcmd EXCEPT ![i] = i] /\ UNCHANGED <<child, closed, mch>>
      BY <2>5 DEF MonitorWaits, SerialInv, SerialMonitors, Attending
    <3>2. SerialMonitors' /\ SerialChildren' /\ 0 \notin closed'
      BY <2>1, <2>2, <3>1 DEF SerialInv, SerialMonitors, SerialChildren, TypeOK, Attending
    <3> QED
      BY <2>3, <3>2 DEF SerialInv
  <2>6. CASE MonitorReaps(i)
    <3>1. /\ mpc[i] = "waiting"
          /\ \E pc \in {"draining", "echild"} : mpc' = [mpc EXCEPT ![i] = pc]
          /\ child' = [child EXCEPT ![i] = "reaped"]
          /\ UNCHANGED <<closed, mch, mcmd>>
      BY <2>6 DEF MonitorReaps, SerialInv, SerialMonitors, TypeOK
    <3>2. SerialMonitors'
      BY <2>1, <2>2, <3>1 DEF SerialInv, SerialMonitors, TypeOK, Attending
    <3>3. SerialChildren' /\ 0 \notin closed'
      BY <2>1, <3>1 DEF SerialInv, SerialChildren, TypeOK
    <3> QED
      BY <2>3, <3>2, <3>3 DEF SerialInv
  <2>7. CASE MonitorCloses(i)
    <3>1. /\ mpc[i] = "closing" /\ mpc' = [mpc EXCEPT ![i] = "over"]
          /\ closed' \in {closed, closed \cup {i}} /\ UNCHANGED <<child, mch, mcmd>>
      BY <2>7 DEF MonitorCloses, SerialInv, SerialMonitors
    <3>2. SerialMonitors'
      BY <2>1, <2>2, <3>1 DEF SerialInv, SerialMonitors, TypeOK, Attending
    <3>3. SerialChildren' /\ 0 \notin closed'
      BY <2>1, <3>1 DEF SerialInv, SerialChildren, TypeOK, Attempts
    <3> QED
      BY <2>3, <3>2, <3>3 DEF SerialInv
  <2> QED
    BY <1>3, <2>4, <2>5, <2>6, <2>7
<1> QED
  BY <1>1, <1>2, <1>3 DEF MonitorStep

LEMMA SerialWorldStep ==
  ASSUME TypeOK, SerialInv,
         \/ \E i \in Attempts : TimerStep(i) \/ WorldStep(i)
         \/ \E e \in pending : Deliver(e)
         \/ UpdateConfig \/ Tick \/ Settled \/ UNCHANGED vars
  PROVE  SerialInv'
<1> USE DEF procVars, osVars, timerVars, monitorVars, callVars, tellVars
<1>1. /\ UNCHANGED <<cmd, done, tries, closed, mpc, mch, mcmd, cpc, cop, cch>>
      /\ state' = state \/ (state = "STARTING" /\ state' = "RUNNING")
  BY DEF TimerStep, TimerSkips, TimerArms, TimerFires, TimerQuits, Promotes,
         WorldStep, ChildExits, ChildForks, PipeCloses, Deliver, UpdateConfig,
         Tick, Settled, vars
<1>2. (Up' <=> Up) /\ (Spawning' <=> Spawning) /\ (state' = "STOPPING" <=> state = "STOPPING")
      /\ (state' = "STOPPED" <=> state = "STOPPED")
  BY <1>1 DEF Up, Spawning
<1>3. SerialCalls' /\ SerialMonitors'
  BY <1>1, <1>2 DEF SerialInv, SerialCalls, SerialMonitors
<1>4. SerialChildren'
  <2>1. CASE child' = child
    BY <1>1, <2>1 DEF SerialInv, SerialChildren
  <2>2. CASE \E i \in Attempts : ChildExits(i)
    BY <1>1, <2>2 DEF ChildExits, SerialInv, SerialChildren, TypeOK
  <2>3. child' = child \/ \E i \in Attempts : ChildExits(i)
    BY DEF TimerStep, TimerSkips, TimerArms, TimerFires, TimerQuits, Promotes,
           WorldStep, ChildForks, PipeCloses, Deliver, UpdateConfig,
           Tick, Settled, vars
  <2> QED
    BY <2>1, <2>2, <2>3
<1> QED
  BY <1>1, <1>3, <1>4 DEF SerialInv

(* An answer is never taken back.                                          *)
LEMMA KillFailedStays ==
  ASSUME TypeOK, KillFailed, [Next]_vars
  PROVE  KillFailed'
<1> USE DEF procVars, osVars, timerVars, monitorVars, callVars, tellVars
<1>1. PICK r \in Requests : cpc[r] = "returned" /\ ret[r] = "unkilled"
  BY DEF KillFailed
<1>2. ASSUME NEW i \in Attempts, TimerStep(i) \/ MonitorStep(i) \/ WorldStep(i)
      PROVE  UNCHANGED <<cpc, ret>>
  BY <1>2
  DEF TimerStep, TimerSkips, TimerArms, TimerFires, TimerQuits, Promotes,
      MonitorStep, MonitorDefers, MonitorWaits, MonitorReaps, MonitorStops,
      MonitorBacksOff, MonitorGivesUp, MonitorExits, MonitorDecides,
      MonitorSpawns, MonitorCloses, WorldStep, ChildExits, ChildForks, PipeCloses
<1>3. ASSUME NEW q \in Requests, CallOf(q) \/ CallStep(q)
      PROVE  cpc'[r] = cpc[r] /\ ret'[r] = ret[r]
  <2>1. q # r
    BY <1>1, <1>3
    DEF CallOf, CallStep, Start, Stop, Restart, Calls, RestartStops, RestartStarts,
        CallerSpawns, Terminate, Select, KillSelect, RestartSelect, Reads,
        StopWoken, RestartWoken, GraceExpires, RestartTimesOut
  <2> QED
    BY <1>3, <2>1
    DEF CallOf, CallStep, Start, Stop, Restart, RestartStops, RestartStarts,
        BeginStart, BeginStop, CallerSpawns, Terminate, Select, KillSelect,
        RestartSelect, Reads, StopWoken, StopDone, RestartWoken, GraceExpires,
        RestartTimesOut, Goes, Returns, TypeOK
<1>4. cpc'[r] = cpc[r] /\ ret'[r] = ret[r]
  BY <1>2, <1>3 DEF Next, Deliver, UpdateConfig, Tick, Settled, vars
<1> QED
  BY <1>1, <1>4 DEF KillFailed

LEMMA SerialInvariant == ASSUME SerialOnly PROVE Spec => [](KillFailed \/ SerialInv)
<1>1. TypeOK /\ SerialInv /\ [Next]_vars => KillFailed' \/ SerialInv'
  BY SerialCallStep, SerialMonitorStep, SerialWorldStep DEF Next
<1> QED
  BY <1>1, SerialInit, KillFailedStays, TypeCorrect, PTL DEF Spec

(* The steps that end a call in the serial scope.                          *)
LEMMA SerialReturns ==
  ASSUME SerialOnly, TypeOK, SerialInv, [Next]_vars, NEW r \in Requests,
         cpc[r] # "returned", cpc'[r] = "returned", ret'[r] = "ok"
  PROVE  \/ CallerSpawns(r) /\ SpawnOk(mpc)
         \/ /\ StopWoken(r) /\ cop[r] # "restart"
            /\ cpc[r] \in {"grace", "killwait"}
            /\ cch[r] \in closed /\ cch[r] = cmd
<1> USE DEF procVars, osVars, timerVars, monitorVars, callVars, tellVars
<1>1. ~(UNCHANGED cpc)
  OBVIOUS
<1>2. ASSUME NEW i \in Attempts, TimerStep(i) \/ MonitorStep(i) \/ WorldStep(i)
      PROVE  cpc' = cpc
  BY <1>2
  DEF TimerStep, TimerSkips, TimerArms, TimerFires, TimerQuits, Promotes,
      MonitorStep, MonitorDefers, MonitorWaits, MonitorReaps, MonitorStops,
      MonitorBacksOff, MonitorGivesUp, MonitorExits, MonitorDecides,
      MonitorSpawns, MonitorCloses, WorldStep, ChildExits, ChildForks, PipeCloses
<1>3. PICK q \in Requests : CallOf(q) \/ CallStep(q)
  BY <1>1, <1>2 DEF Next, Deliver, UpdateConfig, Tick, Settled, vars
<1>4. q = r
  BY <1>1, <1>3
  DEF CallOf, CallStep, Start, Stop, Restart, RestartStops, RestartStarts,
      BeginStart, BeginStop, CallerSpawns, Terminate, Select, KillSelect,
      RestartSelect, Reads, StopWoken, StopDone, RestartWoken, GraceExpires,
      RestartTimesOut, Goes, Returns, TypeOK
<1>5. ~(KillSelect(r) \/ GraceExpires(r) \/ RestartTimesOut(r))
  BY DEF KillSelect, Reads, GraceExpires, RestartTimesOut, Goes, Returns, TypeOK
<1>6. ~(Start(r) \/ Stop(r) \/ Restart(r) \/ RestartStops(r) \/ RestartStarts(r))
  BY DEF Start, Stop, Restart, RestartStops, RestartStarts, BeginStart, BeginStop,
         Goes, Returns, TypeOK
<1>7. ~(Select(r) \/ RestartSelect(r) \/ RestartWoken(r))
  BY DEF Select, RestartSelect, Reads, RestartWoken, Goes, TypeOK
<1>8. ~Terminate(r)
  BY DEF Terminate, Goes, TypeOK, SerialInv, SerialCalls, Stopping
<1>9. CASE CallerSpawns(r)
  BY <1>9 DEF CallerSpawns, Returns, TypeOK
<1>10. CASE StopWoken(r)
  BY <1>10 DEF StopWoken, StopDone, Goes, TypeOK, SerialInv, SerialCalls
<1> QED
  BY <1>3, <1>4, <1>5, <1>6, <1>7, <1>8, <1>9, <1>10 DEF CallOf, CallStep

(* An operator who waits for each answer never gets a second copy, through *)
(* grace periods, SIGKILLs and time-outs, until a Kill() fails.            *)
THEOREM SerialOneCopy == ASSUME SerialOnly PROVE Spec => []OneCopyTillKillFails
<1>1. TypeOK /\ SerialInv => NoSecondCopy
  <2> SUFFICES ASSUME SerialInv, NEW i \in Alive, NEW j \in Alive
               PROVE  i = j
    BY DEF NoSecondCopy
  <2>1. i \in Attempts /\ mpc[i] \in Attending /\ j \in Attempts /\ mpc[j] \in Attending
    BY DEF Alive, SerialInv, SerialChildren, Attending
  <2> QED
    BY <2>1 DEF SerialInv, SerialMonitors
<1> QED
  BY <1>1, SerialInvariant, TypeCorrect, PTL DEF OneCopyTillKillFails

(* In the serial scope a Stop() that returns nil leaves nothing running,   *)
(* and says STOPPED, as long as no Kill() has failed: there is no snapshot *)
(* of an earlier child, no monitor that spawns meanwhile, and the channel  *)
(* it waits on, before and after SIGKILL, is the right one.                *)
THEOREM SerialStopMeansGone == ASSUME SerialOnly PROVE Spec => StopMeansGone
<1> DEFINE Gone == \A r \in Requests :
              ReturnsNow(r, "stop", "ok") /\ ~KillFailed
                => Alive' = {} /\ state' = "STOPPED"
<1>1. TypeOK /\ (KillFailed \/ SerialInv) /\ [Next]_vars => [Gone]_vars
  <2> SUFFICES ASSUME TypeOK, SerialInv, [Next]_vars, NEW r \in Requests,
                      ReturnsNow(r, "stop", "ok")
               PROVE  Alive' = {} /\ state' = "STOPPED"
    OBVIOUS
  <2>1. cop[r] = "stop" /\ cpc[r] # "returned" /\ cpc'[r] = "returned" /\ ret'[r] = "ok"
    BY DEF ReturnsNow
  <2>2. ~CallerSpawns(r)
    BY <2>1 DEF CallerSpawns, SerialInv, SerialCalls
  <2>3. /\ StopWoken(r) /\ cpc[r] \in {"grace", "killwait"}
        /\ cch[r] \in closed /\ cch[r] = cmd
    BY <2>1, <2>2, SerialReturns
  <2>4. state = "STOPPED" /\ \A i \in Attempts : mpc[i] \notin Attending
    BY <2>3, SerialWoken DEF Stopping
  <2>5. \A i \in Attempts : child[i] \notin {"alive", "doomed"}
    BY <2>4 DEF SerialInv, SerialChildren, Attending
  <2>6. child' = child /\ state' = state
    BY <2>3 DEF StopWoken, procVars, osVars
  <2> QED
    BY <2>4, <2>5, <2>6 DEF Alive
<1> QED
  BY <1>1, SerialInvariant, TypeCorrect, PTL DEF Spec, StopMeansGone

(* In the serial scope a Restart() that returns nil has started a child    *)
(* after the end of every earlier one, as long as no Kill() has failed.    *)
THEOREM SerialRestartReplaces == ASSUME SerialOnly PROVE Spec => RestartReplaces
<1> DEFINE Replaces == \A r \in Requests :
              ReturnsNow(r, "restart", "ok") /\ ~KillFailed
                => /\ child'[tries'] = "alive"
                   /\ \A i \in 1..(tries' - 1) : child'[i] \in {"reaped", "failed"}
<1>1. TypeOK /\ (KillFailed \/ SerialInv) /\ [Next]_vars => [Replaces]_vars
  <2> SUFFICES ASSUME TypeOK, SerialInv, [Next]_vars, NEW r \in Requests,
                      ReturnsNow(r, "restart", "ok")
               PROVE  /\ child'[tries'] = "alive"
                      /\ \A i \in 1..(tries' - 1) : child'[i] \in {"reaped", "failed"}
    OBVIOUS
  <2>1. CallerSpawns(r) /\ SpawnOk(mpc)
    BY SerialReturns DEF ReturnsNow
  <2>2. \A i \in Attempts : mpc[i] \notin Attending
    BY <2>1 DEF CallerSpawns, SerialInv, SerialMonitors, Spawning
  <2>3. /\ tries \in Nat /\ tries + 1 \in Attempts /\ tries' = tries + 1
        /\ child' = [child EXCEPT ![tries + 1] = "alive"]
    BY <2>1, ProcessAssumption DEF SpawnOk, TypeOK, Attempts
  <2>4. \A i \in 1..tries : i \in Attempts /\ i # tries + 1
    BY <2>3, ProcessAssumption DEF Attempts
  <2>5. \A i \in 1..tries : child[i] \in {"reaped", "failed"}
    BY <2>2, <2>4 DEF SerialInv, SerialChildren, TypeOK, ChildStates, Attending
  <2> QED
    BY <2>3, <2>4, <2>5 DEF TypeOK
<1> QED
  BY <1>1, SerialInvariant, TypeCorrect, PTL DEF Spec, RestartReplaces
=============================================================================
