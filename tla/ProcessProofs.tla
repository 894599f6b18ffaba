--------------------------- MODULE ProcessProofs ---------------------------
(***************************************************************************)
(* Theorems about module Process, for every set of requests, every script, *)
(* every set of configurations and every bound.                            *)
(***************************************************************************)
EXTENDS Process, TLAPS

(***************************************************************************)
(* Type correctness.  One lemma for each group of actions.                 *)
(***************************************************************************)
(* What both outcomes of spawn() leave well typed; the caller says what it *)
(* did to its own program counter.                                         *)
LEMMA SpawnTypes ==
  ASSUME TypeOK, NEW monitors \in [Attempts -> MonitorPcs],
         SpawnOk(monitors) \/ SpawnFails(monitors)
  PROVE  /\ state' \in LC!Statuses /\ cfg' \in Configs /\ retries' \in Nat
         /\ cmd' \in 0..MaxSpawns /\ done' \in 0..MaxSpawns
         /\ logs' \in 0..MaxSpawns /\ tries' \in 0..MaxSpawns
         /\ child' \in [Attempts -> ChildStates]
         /\ age' \in [Attempts -> 0..MaxAge]
         /\ held' \subseteq Attempts /\ open' \subseteq Attempts
         /\ closed' \subseteq 0..MaxSpawns /\ panicked' \in BOOLEAN
         /\ tpc' \in [Attempts -> TimerPcs] /\ tsecs' \in [Attempts -> Int]
         /\ tch' \in [Attempts -> 0..MaxSpawns]
         /\ mpc' \in [Attempts -> MonitorPcs]
         /\ mch' \in [Attempts -> 0..MaxSpawns]
         /\ mcmd' \in [Attempts -> 0..MaxSpawns]
         /\ pending' \subseteq Callbacks /\ told' \subseteq LC!Statuses
<1>1. CASE SpawnOk(monitors)
  <2>1. /\ tries + 1 \in Attempts /\ tries + 1 \in 0..MaxSpawns
        /\ cfg.startSecs \in Int
    BY <1>1, ProcessAssumption DEF TypeOK, SpawnOk, Attempts
  <2> QED
    BY <1>1, <2>1
    DEF TypeOK, SpawnOk, ChildStates, TimerPcs, MonitorPcs, timerVars
<1>2. CASE SpawnFails(monitors)
  <2>1. tries + 1 \in Attempts /\ tries + 1 \in 0..MaxSpawns
    BY <1>2, ProcessAssumption DEF TypeOK, SpawnFails, Attempts
  <2> QED
    BY <1>2, <2>1
    DEF TypeOK, SpawnFails, ChildStates, timerVars, LC!Statuses
<1> QED
  BY <1>1, <1>2

LEMMA CallTypes ==
  ASSUME TypeOK, NEW r \in Requests, CallOf(r) \/ CallStep(r)
  PROVE  TypeOK'
<1> USE DEF procVars, osVars, timerVars, monitorVars, callVars, tellVars
<1>1. CASE Start(r) \/ Stop(r) \/ Restart(r) \/ RestartStops(r) \/ RestartStarts(r)
  BY <1>1
  DEF Start, Stop, Restart, RestartStops, RestartStarts, Calls, BeginStart,
      BeginStop, Goes, Returns, TypeOK, CallPcs, Ops, LC!Statuses
<1>2. CASE CallerSpawns(r)
  <2>1. /\ cpc' \in [Requests -> CallPcs] /\ ret' \in [Requests -> {"none", "ok", "err", "unkilled"}]
        /\ UNCHANGED <<cop, ccmd, cch>>
    BY <1>2 DEF CallerSpawns, Returns, TypeOK, CallPcs
  <2>2. SpawnOk(mpc) \/ SpawnFails(mpc)
    BY <1>2 DEF CallerSpawns
  <2>3. mpc \in [Attempts -> MonitorPcs]
    BY DEF TypeOK
  <2> QED
    BY <2>1, <2>2, <2>3, SpawnTypes DEF TypeOK
<1>3. CASE Terminate(r)
  <2>1. cpc' \in [Requests -> CallPcs] /\ ret' \in [Requests -> {"none", "ok", "err", "unkilled"}]
    BY <1>3 DEF Terminate, StopDone, Goes, Returns, TypeOK, CallPcs
  <2>2. ccmd' \in [Requests -> 0..MaxSpawns]
    BY <1>3 DEF Terminate, TypeOK
  <2> QED
    BY <1>3, <2>1, <2>2 DEF Terminate, TypeOK
<1>6. CASE Select(r) \/ KillSelect(r) \/ RestartSelect(r)
  <2>1. cpc' \in [Requests -> CallPcs] /\ UNCHANGED ret
    BY <1>6 DEF Select, KillSelect, RestartSelect, Reads, Goes, TypeOK, CallPcs
  <2>2. cch' \in [Requests -> 0..MaxSpawns]
    BY <1>6 DEF Select, KillSelect, RestartSelect, Reads, TypeOK
  <2> QED
    BY <1>6, <2>1, <2>2 DEF Select, KillSelect, RestartSelect, Reads, TypeOK
<1>4. CASE StopWoken(r) \/ RestartWoken(r) \/ RestartTimesOut(r)
  BY <1>4
  DEF StopWoken, RestartWoken, RestartTimesOut, StopDone, Goes, Returns,
      TypeOK, CallPcs
<1>5. CASE GraceExpires(r)
  <2>1. child' \in [Attempts -> ChildStates]
    BY <1>5 DEF GraceExpires, TypeOK, ChildStates
  <2>2. cpc' \in [Requests -> CallPcs] /\ ret' \in [Requests -> {"none", "ok", "err", "unkilled"}]
    BY <1>5 DEF GraceExpires, Goes, Returns, TypeOK, CallPcs
  <2> QED
    BY <1>5, <2>1, <2>2 DEF GraceExpires, TypeOK
<1> QED
  BY <1>1, <1>2, <1>3, <1>4, <1>5, <1>6 DEF CallOf, CallStep

LEMMA TimerTypes ==
  ASSUME TypeOK, NEW i \in Attempts, TimerStep(i)
  PROVE  TypeOK'
<1> USE DEF procVars, osVars, timerVars, monitorVars, callVars, tellVars
<1>1. CASE TimerSkips(i) \/ TimerFires(i)
  <2>1. /\ tpc' \in [Attempts -> TimerPcs] /\ state' \in LC!Statuses
        /\ pending' \subseteq Callbacks /\ told' = told
    BY <1>1
    DEF TimerSkips, TimerFires, Promotes, Fires, TypeOK, TimerPcs, Callbacks,
        LC!Statuses
  <2> QED
    BY <1>1, <2>1 DEF TimerSkips, TimerFires, Promotes, TypeOK
<1>2. CASE TimerArms(i)
  <2>1. /\ tpc' \in [Attempts -> TimerPcs]
        /\ tch' \in [Attempts -> 0..MaxSpawns]
    BY <1>2 DEF TimerArms, TypeOK, TimerPcs
  <2> QED
    BY <1>2, <2>1 DEF TimerArms, TypeOK
<1>3. CASE TimerQuits(i)
  <2>1. tpc' \in [Attempts -> TimerPcs]
    BY <1>3 DEF TimerQuits, TypeOK, TimerPcs
  <2> QED
    BY <1>3, <2>1 DEF TimerQuits, TypeOK
<1> QED
  BY <1>1, <1>2, <1>3 DEF TimerStep

LEMMA DecideTypes ==
  ASSUME TypeOK, NEW i \in Attempts, NEW to \in LC!Statuses,
         NEW pc \in MonitorPcs, MonitorDecides(i, to, pc), retries' \in Nat
  PROVE  TypeOK'
<1>1. pending' \subseteq Callbacks /\ told' = told
  BY DEF MonitorDecides, Fires, Callbacks, TypeOK
<1>2. mpc' \in [Attempts -> MonitorPcs] /\ open' \subseteq Attempts
  BY DEF MonitorDecides, TypeOK
<1> QED
  BY <1>1, <1>2 DEF MonitorDecides, TypeOK, timerVars, callVars

LEMMA MonitorTypes ==
  ASSUME TypeOK, NEW i \in Attempts, MonitorStep(i)
  PROVE  TypeOK'
<1> USE DEF procVars, osVars, timerVars, monitorVars, callVars, tellVars
<1>1. CASE MonitorDefers(i) \/ MonitorWaits(i)
  <2>1. /\ mpc' \in [Attempts -> MonitorPcs]
        /\ mch' \in [Attempts -> 0..MaxSpawns]
        /\ mcmd' \in [Attempts -> 0..MaxSpawns]
    BY <1>1 DEF MonitorDefers, MonitorWaits, TypeOK, MonitorPcs
  <2> QED
    BY <1>1, <2>1 DEF MonitorDefers, MonitorWaits, TypeOK
<1>2. CASE MonitorReaps(i)
  <2>1. child' \in [Attempts -> ChildStates] /\ mpc' \in [Attempts -> MonitorPcs]
    BY <1>2 DEF MonitorReaps, TypeOK, ChildStates, MonitorPcs
  <2> QED
    BY <1>2, <2>1 DEF MonitorReaps, TypeOK
<1>3. /\ {"STOPPED", "BACKOFF", "FATAL", "EXITED"} \subseteq LC!Statuses
      /\ {"closing", "backoff", "pausing"} \subseteq MonitorPcs
      /\ retries \in Nat
  BY DEF LC!Statuses, MonitorPcs, TypeOK
<1>4. CASE MonitorStops(i)
  <2>1. MonitorDecides(i, "STOPPED", "closing") /\ retries' \in Nat
    BY <1>3, <1>4 DEF MonitorStops
  <2> QED
    BY <1>3, <2>1, DecideTypes
<1>5. CASE MonitorBacksOff(i)
  <2>1. MonitorDecides(i, "BACKOFF", "backoff") /\ retries' \in Nat
    BY <1>3, <1>5 DEF MonitorBacksOff
  <2> QED
    BY <1>3, <2>1, DecideTypes
<1>6. CASE MonitorGivesUp(i)
  <2>1. MonitorDecides(i, "FATAL", "closing") /\ retries' \in Nat
    BY <1>3, <1>6 DEF MonitorGivesUp
  <2> QED
    BY <1>3, <2>1, DecideTypes
<1>7. CASE MonitorExits(i)
  <2>1. PICK pc \in {"pausing", "closing"} : MonitorDecides(i, "EXITED", pc)
    BY <1>7 DEF MonitorExits
  <2>2. retries' \in Nat
    BY <1>7 DEF MonitorExits
  <2> QED
    BY <1>3, <2>1, <2>2, DecideTypes
<1>8. CASE MonitorSpawns(i)
  <2> DEFINE returning == [mpc EXCEPT ![i] = "closing"]
  <2>1. returning \in [Attempts -> MonitorPcs]
    BY DEF TypeOK, MonitorPcs
  <2>2. (SpawnOk(returning) \/ SpawnFails(returning)) /\ UNCHANGED callVars
    BY <1>8 DEF MonitorSpawns
  <2> HIDE DEF returning
  <2> QED
    BY <2>1, <2>2, SpawnTypes DEF TypeOK
<1>9. CASE MonitorCloses(i)
  <2>1. /\ mpc' \in [Attempts -> MonitorPcs]
        /\ closed' \subseteq 0..MaxSpawns /\ panicked' \in BOOLEAN
    BY <1>9 DEF MonitorCloses, TypeOK, MonitorPcs
  <2> QED
    BY <1>9, <2>1 DEF MonitorCloses, TypeOK
<1> QED
  BY <1>1, <1>2, <1>4, <1>5, <1>6, <1>7, <1>8, <1>9 DEF MonitorStep

LEMMA WorldTypes ==
  ASSUME TypeOK,
         \/ \E i \in Attempts : WorldStep(i)
         \/ \E e \in pending : Deliver(e)
         \/ UpdateConfig \/ Tick \/ Settled \/ UNCHANGED vars
  PROVE  TypeOK'
<1> USE DEF procVars, osVars, timerVars, monitorVars, callVars, tellVars
<1>1. CASE \E i \in Attempts : WorldStep(i)
  BY <1>1
  DEF WorldStep, ChildExits, ChildForks, PipeCloses, TypeOK, ChildStates
<1>2. CASE \E e \in pending : Deliver(e)
  BY <1>2 DEF Deliver, TypeOK, Callbacks
<1>3. CASE UpdateConfig
  BY <1>3 DEF UpdateConfig, TypeOK
<1>4. CASE Tick
  <2>1. age' \in [Attempts -> 0..MaxAge]
    BY <1>4, ProcessAssumption DEF Tick, Ages, TypeOK
  <2> QED
    BY <1>4, <2>1 DEF Tick, TypeOK
<1>5. CASE Settled \/ UNCHANGED vars
  BY <1>5 DEF Settled, vars, TypeOK
<1> QED
  BY <1>1, <1>2, <1>3, <1>4, <1>5

(* Every variable keeps its type, whatever the schedule.                   *)
THEOREM TypeCorrect == Spec => []TypeOK
<1>1. Init => TypeOK
  <2>1. 0 \in 0..MaxSpawns /\ 0 \in 0..MaxAge /\ 0 \in Int /\ 0 \in Nat
    BY ProcessAssumption
  <2> SUFFICES ASSUME Init PROVE TypeOK
    OBVIOUS
  <2>2. /\ child \in [Attempts -> ChildStates] /\ age \in [Attempts -> 0..MaxAge]
        /\ tpc \in [Attempts -> TimerPcs] /\ mpc \in [Attempts -> MonitorPcs]
        /\ cpc \in [Requests -> CallPcs]
    BY <2>1 DEF Init, ChildStates, TimerPcs, MonitorPcs, CallPcs
  <2> QED
    BY <2>1, <2>2 DEF Init, TypeOK, LC!Statuses
<1>2. TypeOK /\ [Next]_vars => TypeOK'
  BY CallTypes, TimerTypes, MonitorTypes, WorldTypes DEF Next
<1> QED
  BY <1>1, <1>2, PTL DEF Spec

(***************************************************************************)
(* Refinement: in every schedule, the status moves as Lifecycle says.      *)
(***************************************************************************)
LEMMA StepRefines == [Next]_vars => [LC!Next]_state
<1> SUFFICES ASSUME Next, state' # state
             PROVE  LC!Next
  BY DEF vars, procVars
<1> USE DEF procVars, osVars, timerVars, monitorVars, callVars, tellVars
<1>1. ASSUME NEW r \in Requests, CallOf(r) \/ CallStep(r)
      PROVE  LC!Next
  <2>1. CASE Start(r) \/ RestartStarts(r)
    BY <1>1, <2>1 DEF Start, RestartStarts, BeginStart, Up, LC!Next, LC!Start
  <2>2. CASE Stop(r) \/ RestartStops(r)
    BY <1>1, <2>2 DEF Stop, RestartStops, BeginStop, Up, LC!Next, LC!Stop
  <2>3. CASE CallerSpawns(r)
    BY <2>3
    DEF CallerSpawns, SpawnOk, SpawnFails, LC!Next, LC!SpawnFails
  <2>4. CASE Terminate(r) \/ Select(r) \/ KillSelect(r) \/ RestartSelect(r)
    BY <2>4 DEF Terminate, Select, KillSelect, RestartSelect, Reads
  <2>5. CASE \/ Restart(r) \/ StopWoken(r) \/ RestartWoken(r)
             \/ GraceExpires(r) \/ RestartTimesOut(r)
    BY <2>5
    DEF Restart, StopWoken, RestartWoken, GraceExpires, RestartTimesOut
  <2> QED
    BY <1>1, <2>1, <2>2, <2>3, <2>4, <2>5 DEF CallOf, CallStep
<1>2. ASSUME NEW i \in Attempts, TimerStep(i)
      PROVE  LC!Next
  BY <1>2
  DEF TimerStep, TimerSkips, TimerArms, TimerFires, TimerQuits, Promotes,
      LC!Next, LC!Promote
<1>3. ASSUME NEW i \in Attempts, MonitorStep(i)
      PROVE  LC!Next
  <2>1. CASE MonitorDefers(i) \/ MonitorWaits(i) \/ MonitorReaps(i) \/ MonitorCloses(i)
    BY <2>1 DEF MonitorDefers, MonitorWaits, MonitorReaps, MonitorCloses
  <2>2. CASE MonitorStops(i)
    BY <2>2 DEF MonitorStops, MonitorDecides, LC!Next, LC!Stopped
  <2>3. CASE MonitorBacksOff(i) \/ MonitorGivesUp(i)
    BY <2>3
    DEF MonitorBacksOff, MonitorGivesUp, MonitorDecides, TooQuick, Up,
        LC!Next, LC!Crash
  <2>4. CASE MonitorExits(i)
    BY <2>4 DEF MonitorExits, MonitorDecides, LC!Next, LC!Exit
  <2>5. CASE MonitorSpawns(i)
    BY <2>5
    DEF MonitorSpawns, SpawnOk, SpawnFails, LC!Next, LC!SpawnFails
  <2> QED
    BY <1>3, <2>1, <2>2, <2>3, <2>4, <2>5 DEF MonitorStep
<1>4. ASSUME \/ \E i \in Attempts : WorldStep(i)
             \/ \E e \in pending : Deliver(e)
             \/ UpdateConfig \/ Tick \/ Settled
      PROVE  state' = state
  BY <1>4
  DEF WorldStep, ChildExits, ChildForks, PipeCloses, Deliver, UpdateConfig,
      Tick, Settled, vars
<1> QED
  BY <1>1, <1>2, <1>3, <1>4 DEF Next

(* Process implements Lifecycle.                                           *)
THEOREM ImplementsLifecycle == Spec => StatusFollowsLifecycle
<1>1. Init => LC!Init
  BY DEF Init, LC!Init
<1> QED
  BY <1>1, StepRefines, PTL DEF Spec, StatusFollowsLifecycle, LC!Spec

(***************************************************************************)
(* In every schedule a monitor acts on a death only after the reaping.     *)
(***************************************************************************)
ReapInv ==
  /\ cmd <= tries
  /\ \A i \in Attempts :
       /\ mcmd[i] <= tries
       /\ mpc[i] # "none" => cmd # 0
       /\ mpc[i] \notin {"none", "new", "begun"} => mcmd[i] # 0
       /\ mpc[i] \in {"draining", "echild", "backoff", "pausing", "closing", "over"}
            => child[mcmd[i]] = "reaped"

LEMMA ReapSpawns ==
  ASSUME TypeOK, ReapInv, NEW monitors \in [Attempts -> MonitorPcs],
         \A i \in Attempts :
            \/ monitors[i] = mpc[i]
            \/ monitors[i] = "closing" /\ mpc[i] \in {"backoff", "pausing"},
         SpawnOk(monitors) \/ SpawnFails(monitors)
  PROVE  ReapInv'
<1> DEFINE n == tries + 1
<1>1. n \in Attempts /\ tries' = n /\ tries \in Nat /\ n > tries /\ mcmd' = mcmd
  BY ProcessAssumption DEF SpawnOk, SpawnFails, TypeOK, Attempts
<1>2. cmd \in Int /\ \A i \in Attempts : mcmd[i] \in Int /\ mcmd[i] # n
  BY <1>1 DEF ReapInv, TypeOK
<1>3. CASE SpawnOk(monitors)
  <2>1. /\ child' = [child EXCEPT ![n] = "alive"]
        /\ mpc' = [monitors EXCEPT ![n] = "new"] /\ cmd' = n
    BY <1>3 DEF SpawnOk
  <2>2. cmd' <= tries' /\ cmd' # 0 /\ \A i \in Attempts : mcmd[i] <= n
    BY <1>1, <1>2, <2>1 DEF ReapInv
  <2> HIDE DEF n
  <2> QED
    BY <1>1, <1>2, <2>1, <2>2 DEF ReapInv, TypeOK
<1>4. CASE SpawnFails(monitors)
  <2>1. /\ child' = [child EXCEPT ![n] = "failed"]
        /\ mpc' = monitors /\ cmd' = cmd
    BY <1>4 DEF SpawnFails
  <2>2. cmd' <= tries' /\ \A i \in Attempts : mcmd[i] <= n
    BY <1>1, <1>2, <2>1 DEF ReapInv
  <2> HIDE DEF n
  <2> QED
    BY <1>1, <1>2, <2>1, <2>2 DEF ReapInv, TypeOK
<1> QED
  BY <1>3, <1>4

LEMMA ReapStep == TypeOK /\ ReapInv /\ [Next]_vars => ReapInv'
<1> SUFFICES ASSUME TypeOK, ReapInv, [Next]_vars
             PROVE  ReapInv'
  OBVIOUS
<1> USE DEF procVars, osVars, timerVars, monitorVars, callVars, tellVars
<1>0. \A k \in Attempts : mpc[k] \notin {"none", "new", "begun"} => mcmd[k] \in Attempts
  <2>1. \A k \in Attempts : mcmd[k] \in 0..MaxSpawns
    BY DEF TypeOK
  <2>2. \A n \in 0..MaxSpawns : n # 0 => n \in Attempts
    BY ProcessAssumption DEF Attempts
  <2> QED
    BY <2>1, <2>2 DEF ReapInv
<1>1. ASSUME NEW r \in Requests, CallerSpawns(r)
      PROVE  ReapInv'
  <2>1. (SpawnOk(mpc) \/ SpawnFails(mpc)) /\ mpc \in [Attempts -> MonitorPcs]
    BY <1>1 DEF CallerSpawns, TypeOK
  <2> QED
    BY <2>1, ReapSpawns
<1>2. ASSUME NEW r \in Requests, GraceExpires(r)
      PROVE  ReapInv'
  <2>1. /\ UNCHANGED <<cmd, tries, mcmd, mpc>>
        /\ \/ child' = child
           \/ /\ child[ccmd[r]] = "alive"
              /\ child' = [child EXCEPT ![ccmd[r]] = "doomed"]
    BY <1>2 DEF GraceExpires
  <2>2. \A k \in Attempts : child[k] = "reaped" => child'[k] = "reaped"
    BY <2>1 DEF TypeOK
  <2> QED
    BY <1>0, <2>1, <2>2 DEF ReapInv
<1>3. ASSUME NEW i \in Attempts, MonitorDefers(i) \/ MonitorWaits(i)
      PROVE  ReapInv'
  <2>1. UNCHANGED <<cmd, tries, child>> /\ mpc[i] \in {"new", "begun"}
    BY <1>3 DEF MonitorDefers, MonitorWaits
  <2>2. CASE mpc' = [mpc EXCEPT ![i] = "begun"] /\ mcmd' = mcmd
    BY <2>1, <2>2 DEF ReapInv, TypeOK
  <2>3. CASE mpc' = [mpc EXCEPT ![i] = "waiting"] /\ mcmd' = [mcmd EXCEPT ![i] = cmd]
    BY <2>1, <2>3 DEF ReapInv, TypeOK
  <2> QED
    BY <1>3, <2>2, <2>3 DEF MonitorDefers, MonitorWaits
<1>4. ASSUME NEW i \in Attempts, MonitorReaps(i)
      PROVE  ReapInv'
  <2>1. /\ UNCHANGED <<cmd, tries, mcmd>> /\ mpc[i] = "waiting"
        /\ \E pc \in {"draining", "echild"} : mpc' = [mpc EXCEPT ![i] = pc]
        /\ \/ child' = [child EXCEPT ![mcmd[i]] = "reaped"]
           \/ child' = child /\ child[mcmd[i]] = "reaped"
    BY <1>4 DEF MonitorReaps
  <2>2. mcmd[i] \in Attempts
    BY <2>1, <1>0
  <2>3. \A k \in Attempts : child[k] = "reaped" => child'[k] = "reaped"
    BY <2>1, <2>2 DEF TypeOK
  <2>4. child'[mcmd[i]] = "reaped"
    BY <2>1, <2>2 DEF TypeOK
  <2>5. \A k \in Attempts : k # i => mpc'[k] = mpc[k]
    BY <2>1 DEF TypeOK
  <2> QED
    BY <1>0, <2>1, <2>2, <2>3, <2>4, <2>5 DEF ReapInv
<1>5. ASSUME NEW i \in Attempts,
             MonitorStops(i) \/ MonitorBacksOff(i) \/ MonitorGivesUp(i) \/ MonitorExits(i)
      PROVE  ReapInv'
  <2>1. /\ UNCHANGED <<cmd, tries, mcmd, child>> /\ mpc[i] \in {"draining", "echild"}
        /\ \E pc \in {"backoff", "pausing", "closing"} : mpc' = [mpc EXCEPT ![i] = pc]
    BY <1>5
    DEF MonitorStops, MonitorBacksOff, MonitorGivesUp, MonitorExits,
        MonitorDecides, WaitReturned
  <2> QED
    BY <2>1 DEF ReapInv, TypeOK
<1>6. ASSUME NEW i \in Attempts, MonitorSpawns(i)
      PROVE  ReapInv'
  <2> DEFINE returning == [mpc EXCEPT ![i] = "closing"]
  <2>1. /\ returning \in [Attempts -> MonitorPcs]
        /\ SpawnOk(returning) \/ SpawnFails(returning)
    BY <1>6 DEF MonitorSpawns, TypeOK, MonitorPcs
  <2>2. \A k \in Attempts :
          \/ returning[k] = mpc[k]
          \/ returning[k] = "closing" /\ mpc[k] \in {"backoff", "pausing"}
    BY <1>6 DEF MonitorSpawns, TypeOK
  <2> HIDE DEF returning
  <2> QED
    BY <2>1, <2>2, ReapSpawns
<1>7. ASSUME NEW i \in Attempts, MonitorCloses(i)
      PROVE  ReapInv'
  <2>1. /\ UNCHANGED <<cmd, tries, mcmd, child>> /\ mpc[i] = "closing"
        /\ mpc' = [mpc EXCEPT ![i] = "over"]
    BY <1>7 DEF MonitorCloses
  <2> QED
    BY <2>1 DEF ReapInv, TypeOK
<1>8. ASSUME NEW i \in Attempts, ChildExits(i)
      PROVE  ReapInv'
  <2>1. /\ UNCHANGED <<cmd, tries, mcmd, mpc>>
        /\ child[i] # "reaped" /\ child' = [child EXCEPT ![i] = "zombie"]
    BY <1>8 DEF ChildExits
  <2> QED
    BY <2>1 DEF ReapInv, TypeOK
<1>9. ASSUME UNCHANGED <<cmd, tries, mcmd, child, mpc>>
      PROVE  ReapInv'
  BY <1>9 DEF ReapInv
<1>10. ASSUME NEW r \in Requests, CallOf(r) \/ CallStep(r)
       PROVE  CallerSpawns(r) \/ GraceExpires(r) \/ UNCHANGED <<cmd, tries, mcmd, child, mpc>>
  BY <1>10
  DEF CallOf, CallStep, Start, Stop, Restart, RestartStops, RestartStarts,
      BeginStart, BeginStop, Terminate, Select, KillSelect, RestartSelect,
      Reads, StopWoken, RestartWoken, RestartTimesOut
<1>11. ASSUME NEW i \in Attempts, TimerStep(i) \/ ChildForks(i) \/ PipeCloses(i)
       PROVE  UNCHANGED <<cmd, tries, mcmd, child, mpc>>
  BY <1>11
  DEF TimerStep, TimerSkips, TimerArms, TimerFires, TimerQuits, Promotes,
      ChildForks, PipeCloses
<1>12. ASSUME (\E e \in pending : Deliver(e)) \/ UpdateConfig \/ Tick \/ Settled
              \/ UNCHANGED vars
       PROVE  UNCHANGED <<cmd, tries, mcmd, child, mpc>>
  BY <1>12 DEF Deliver, UpdateConfig, Tick, Settled, vars
<1> QED
  BY <1>1, <1>2, <1>3, <1>4, <1>5, <1>6, <1>7, <1>8, <1>9, <1>10, <1>11, <1>12
  DEF Next, MonitorStep, WorldStep

(* No monitor backs off, pauses, respawns or closes its channel before the *)
(* child it waited for has been reaped.                                    *)
THEOREM AlwaysReapsFirst == Spec => []ReapBeforeRespawn
<1>1. Init => ReapInv
  <2> SUFFICES ASSUME Init PROVE ReapInv
    OBVIOUS
  <2> QED
    BY DEF Init, ReapInv
<1>2. ReapInv => ReapBeforeRespawn
  BY DEF ReapInv, ReapBeforeRespawn
<1> QED
  BY <1>1, <1>2, ReapStep, TypeCorrect, PTL DEF Spec

(***************************************************************************)
(* The boot scope: one request may call Start, none calls Restart.  This   *)
(* is a daemon that boots its programs and whose operator only ever stops  *)
(* them, while monitors back off and restart as they please.               *)
(***************************************************************************)
BootOnly ==
  /\ \A r \in Requests : "restart" \notin Script[r]
  /\ \A r, q \in Requests :
       "start" \in Script[r] /\ "start" \in Script[q] => r = q

(* Until the one Start has spawned, nothing has.                           *)
BootCalls ==
  \A r \in Requests :
    /\ cop[r] # "restart"
    /\ cpc[r] \notin {"stopping", "awaiting", "restartwait", "starting"}
    /\ cpc[r] = "spawning" => "start" \in Script[r]
    /\ "start" \in Script[r] /\ cpc[r] \in {"idle", "spawning"} => tries = 0

(* Only the monitor of the latest attempt may still decide something, and  *)
(* p.done, p.cmd and the log writers are its own until it does.            *)
BootMonitors ==
  \A i \in Attempts :
    /\ mpc[i] # "echild"
    /\ i > tries => child[i] = "none" /\ mpc[i] = "none"
    /\ i < tries => mpc[i] \in {"none", "closing", "over"}
    /\ mpc[i] \in {"new", "begun", "waiting", "draining"}
         => cmd = i /\ done = i /\ logs = i
    /\ mpc[i] \notin {"none", "new"} => mch[i] = i
    /\ mpc[i] \in {"waiting", "draining"} => mcmd[i] = i

(* How far a child is, and how far its monitor is.                         *)
BootChildren ==
  \A i \in Attempts :
    /\ child[i] \in {"alive", "doomed", "zombie"}
         <=> mpc[i] \in {"new", "begun", "waiting"}
    /\ mpc[i] \in {"draining", "backoff", "pausing", "closing", "over"}
         => child[i] = "reaped"
    /\ child[i] \in {"alive", "doomed"} => i \in open

BootChannels ==
  /\ ~panicked
  /\ \A i \in closed : i \in Attempts /\ mpc[i] = "over"

BootInv == BootCalls /\ BootMonitors /\ BootChildren /\ BootChannels

LEMMA BootInit == Init => BootInv
  BY DEF Init, BootInv, BootCalls, BootMonitors, BootChildren, BootChannels

(* With the caller's step made, no monitor has anything left to decide.    *)
NobodyElse(monitors) ==
  \A i \in Attempts :
    /\ monitors[i] \in {"none", "closing", "over"}
    /\ \/ monitors[i] = mpc[i]
       \/ monitors[i] = "closing" /\ mpc[i] \in {"backoff", "pausing"}

(* That is when spawn() may be called.                                     *)
LEMMA BootSpawns ==
  ASSUME TypeOK, BootMonitors, BootChildren, BootChannels,
         NEW monitors \in [Attempts -> MonitorPcs],
         NobodyElse(monitors),
         SpawnOk(monitors) \/ SpawnFails(monitors)
  PROVE  (BootMonitors /\ BootChildren /\ BootChannels)'
<1> DEFINE n == tries + 1
<1>1. n \in Attempts /\ tries' = n /\ tries \in Nat
  BY ProcessAssumption DEF SpawnOk, SpawnFails, TypeOK, Attempts
<1>2. \A i \in Attempts : i \in Int /\ (i > n <=> i > tries /\ i # n)
                          /\ (i < n <=> i <= tries)
  BY <1>1 DEF Attempts
<1>3. UNCHANGED <<mch, mcmd, closed, panicked>>
  BY DEF SpawnOk, SpawnFails, timerVars
<1>4. mpc[n] = "none" /\ monitors[n] = "none" /\ child[n] = "none"
  BY <1>1, <1>2 DEF BootMonitors, NobodyElse
<1>5. CASE SpawnOk(monitors)
  <2>1. /\ child' = [child EXCEPT ![n] = "alive"]
        /\ mpc' = [monitors EXCEPT ![n] = "new"]
        /\ cmd' = n /\ done' = n /\ logs' = n /\ open' = open \cup {n}
    BY <1>5 DEF SpawnOk
  <2> HIDE DEF n
  <2>2. BootMonitors'
    BY <1>1, <1>2, <1>3, <1>4, <2>1 DEF BootMonitors, NobodyElse, TypeOK
  <2>3. BootChildren'
    BY <1>1, <1>3, <1>4, <2>1 DEF BootChildren, NobodyElse, TypeOK
  <2>4. BootChannels'
    BY <1>1, <1>3, <1>4, <2>1 DEF BootChannels, NobodyElse, TypeOK
  <2> QED
    BY <2>2, <2>3, <2>4
<1>6. CASE SpawnFails(monitors)
  <2>1. /\ child' = [child EXCEPT ![n] = "failed"]
        /\ mpc' = monitors /\ open \subseteq open'
    BY <1>6 DEF SpawnFails
  <2> HIDE DEF n
  <2>2. BootMonitors'
    BY <1>1, <1>2, <1>3, <1>4, <2>1 DEF BootMonitors, NobodyElse, TypeOK
  <2>3. BootChildren'
    BY <1>1, <1>3, <1>4, <2>1 DEF BootChildren, NobodyElse, TypeOK
  <2>4. BootChannels'
    BY <1>1, <1>3, <1>4, <2>1 DEF BootChannels, NobodyElse, TypeOK
  <2> QED
    BY <2>2, <2>3, <2>4
<1> QED
  BY <1>5, <1>6

LEMMA BootCallStep ==
  ASSUME BootOnly, TypeOK, BootInv, NEW r \in Requests, CallOf(r) \/ CallStep(r)
  PROVE  BootInv'
<1> USE DEF procVars, osVars, timerVars, monitorVars, callVars, tellVars
<1>1. CASE Start(r)
  <2>1. "start" \in Script[r] /\ cpc[r] = "idle" /\ cop' = [cop EXCEPT ![r] = "start"]
    BY <1>1 DEF Start, Calls
  <2>2. /\ \/ cpc' = [cpc EXCEPT ![r] = "returned"]
           \/ cpc' = [cpc EXCEPT ![r] = "spawning"]
        /\ UNCHANGED <<tries, child, cmd, done, logs, open, closed, panicked,
                       mpc, mch, mcmd>>
    BY <1>1 DEF Start, BeginStart, Goes, Returns
  <2> QED
    BY <2>1, <2>2
    DEF TypeOK, BootInv, BootCalls, BootMonitors, BootChildren, BootChannels
<1>2. CASE Stop(r)
  <2>1. /\ \/ cpc' = [cpc EXCEPT ![r] = "returned"]
           \/ cpc' = [cpc EXCEPT ![r] = "terminating"]
        /\ cop' = [cop EXCEPT ![r] = "stop"]
        /\ UNCHANGED <<tries, child, cmd, done, logs, open, closed, panicked,
                       mpc, mch, mcmd>>
    BY <1>2 DEF Stop, Calls, BeginStop, Goes, Returns
  <2> QED
    BY <2>1
    DEF TypeOK, BootInv, BootCalls, BootMonitors, BootChildren, BootChannels
<1>3. ~(Restart(r) \/ RestartStops(r) \/ RestartStarts(r) \/ RestartSelect(r)
        \/ RestartWoken(r) \/ RestartTimesOut(r))
  BY DEF BootOnly, BootInv, BootCalls, Restart, Calls, RestartStops,
         RestartStarts, RestartSelect, Reads, RestartWoken, RestartTimesOut
<1>4. CASE CallerSpawns(r)
  <2>1. tries = 0 /\ "start" \in Script[r] /\ cpc[r] = "spawning"
    BY <1>4 DEF CallerSpawns, BootInv, BootCalls
  <2>2. NobodyElse(mpc)
    BY <2>1 DEF BootInv, BootMonitors, NobodyElse, Attempts
  <2>3. (SpawnOk(mpc) \/ SpawnFails(mpc)) /\ mpc \in [Attempts -> MonitorPcs]
    BY <1>4 DEF CallerSpawns, TypeOK
  <2>4. (BootMonitors /\ BootChildren /\ BootChannels)'
    BY <2>2, <2>3, BootSpawns DEF BootInv
  <2>5. cpc' = [cpc EXCEPT ![r] = "returned"] /\ cop' = cop
    BY <1>4 DEF CallerSpawns, Returns
  <2>6. BootCalls'
    BY <2>1, <2>5 DEF BootOnly, BootInv, BootCalls, TypeOK
  <2> QED
    BY <2>4, <2>6 DEF BootInv
<1>5. CASE Terminate(r) \/ Select(r) \/ KillSelect(r) \/ StopWoken(r)
  <2>1. cop[r] # "restart"
    BY DEF BootInv, BootCalls
  <2>2. /\ \E pc \in {"returned", "select", "grace", "killwait"} :
             cpc' = [cpc EXCEPT ![r] = pc]
        /\ cop' = cop
        /\ UNCHANGED <<tries, child, cmd, done, logs, open, closed, panicked,
                       mpc, mch, mcmd>>
    BY <1>5, <2>1
    DEF Terminate, Select, KillSelect, Reads, StopWoken, StopDone, Goes, Returns
  <2> QED
    BY <2>2
    DEF TypeOK, BootInv, BootCalls, BootMonitors, BootChildren, BootChannels
<1>6. CASE GraceExpires(r)
  <2>1. /\ \E pc \in {"returned", "killed"} : cpc' = [cpc EXCEPT ![r] = pc]
        /\ UNCHANGED <<tries, cop, cmd, done, logs, open, closed, panicked,
                       mpc, mch, mcmd>>
    BY <1>6 DEF GraceExpires, Goes, Returns
  <2>2. \/ child' = child
        \/ /\ child[ccmd[r]] = "alive"
           /\ child' = [child EXCEPT ![ccmd[r]] = "doomed"]
    BY <1>6 DEF GraceExpires
  <2>3. BootCalls' /\ BootChannels'
    BY <2>1 DEF TypeOK, BootInv, BootCalls, BootChannels
  <2>4. BootMonitors' /\ BootChildren'
    BY <2>1, <2>2 DEF TypeOK, BootInv, BootMonitors, BootChildren
  <2> QED
    BY <2>3, <2>4 DEF BootInv
<1> QED
  BY <1>1, <1>2, <1>3, <1>4, <1>5, <1>6 DEF CallOf, CallStep

LEMMA BootDecides ==
  ASSUME TypeOK, BootInv, NEW i \in Attempts, WaitReturned(i), NEW to,
         NEW pc \in {"backoff", "pausing", "closing"}, MonitorDecides(i, to, pc)
  PROVE  BootInv'
<1>1. mpc[i] = "draining" /\ i = tries /\ logs = i
  <2>1. mpc[i] = "draining" /\ logs = i /\ ~(i < tries) /\ ~(i > tries)
    BY DEF WaitReturned, BootInv, BootMonitors
  <2> QED
    BY <2>1 DEF TypeOK, Attempts
<1>2. /\ mpc' = [mpc EXCEPT ![i] = pc] /\ open' = open \ {i}
      /\ UNCHANGED <<tries, child, cmd, done, logs, closed, panicked, mch,
                     mcmd, cpc, cop>>
  BY <1>1 DEF MonitorDecides, callVars
<1>3. BootCalls' /\ BootChannels'
  BY <1>1, <1>2 DEF BootInv, BootCalls, BootChannels, TypeOK
<1>4. BootMonitors'
  BY <1>1, <1>2 DEF BootInv, BootMonitors, TypeOK
<1>5. BootChildren'
  BY <1>1, <1>2 DEF BootInv, BootChildren, TypeOK
<1> QED
  BY <1>3, <1>4, <1>5 DEF BootInv

LEMMA BootMonitorStep ==
  ASSUME TypeOK, BootInv, NEW i \in Attempts, MonitorStep(i)
  PROVE  BootInv'
<1> USE DEF procVars, osVars, timerVars, monitorVars, callVars, tellVars
<1>1. CASE MonitorDefers(i)
  <2>1. /\ mpc[i] = "new" /\ mpc' = [mpc EXCEPT ![i] = "begun"]
        /\ mch' = [mch EXCEPT ![i] = i]
        /\ UNCHANGED <<tries, child, cmd, done, logs, open, closed, panicked,
                       mcmd, cpc, cop>>
    BY <1>1 DEF MonitorDefers, BootInv, BootMonitors
  <2>2. BootCalls' /\ BootChannels' /\ BootChildren'
    BY <2>1 DEF BootInv, BootCalls, BootChannels, BootChildren, TypeOK
  <2>3. BootMonitors'
    BY <2>1 DEF BootInv, BootMonitors, TypeOK
  <2> QED
    BY <2>2, <2>3 DEF BootInv
<1>2. CASE MonitorWaits(i)
  <2>1. /\ mpc[i] = "begun" /\ mpc' = [mpc EXCEPT ![i] = "waiting"]
        /\ mcmd' = [mcmd EXCEPT ![i] = i]
        /\ UNCHANGED <<tries, child, cmd, done, logs, open, closed, panicked,
                       mch, cpc, cop>>
    BY <1>2 DEF MonitorWaits, BootInv, BootMonitors
  <2>2. BootCalls' /\ BootChannels' /\ BootChildren'
    BY <2>1 DEF BootInv, BootCalls, BootChannels, BootChildren, TypeOK
  <2>3. BootMonitors'
    BY <2>1 DEF BootInv, BootMonitors, TypeOK
  <2> QED
    BY <2>2, <2>3 DEF BootInv
<1>3. CASE MonitorReaps(i)
  <2>1. mpc[i] = "waiting" /\ mcmd[i] = i /\ child[i] # "reaped"
    BY <1>3 DEF MonitorReaps, BootInv, BootMonitors, BootChildren
  <2>2. /\ mpc' = [mpc EXCEPT ![i] = "draining"]
        /\ child' = [child EXCEPT ![i] = "reaped"]
        /\ UNCHANGED <<tries, cmd, done, logs, open, closed, panicked, mch,
                       mcmd, cpc, cop>>
    BY <1>3, <2>1 DEF MonitorReaps
  <2>3. BootCalls' /\ BootChannels'
    BY <2>1, <2>2 DEF BootInv, BootCalls, BootChannels, TypeOK
  <2>4. BootMonitors'
    BY <2>1, <2>2 DEF BootInv, BootMonitors, TypeOK
  <2>5. BootChildren'
    BY <2>1, <2>2 DEF BootInv, BootChildren, TypeOK
  <2> QED
    BY <2>3, <2>4, <2>5 DEF BootInv
<1>4. CASE MonitorStops(i) \/ MonitorBacksOff(i) \/ MonitorGivesUp(i) \/ MonitorExits(i)
  <2>1. WaitReturned(i)
    BY <1>4 DEF MonitorStops, MonitorBacksOff, MonitorGivesUp, MonitorExits
  <2>2. PICK to \in LC!Statuses, pc \in {"backoff", "pausing", "closing"} :
          MonitorDecides(i, to, pc)
    BY <1>4
    DEF MonitorStops, MonitorBacksOff, MonitorGivesUp, MonitorExits, LC!Statuses
  <2> QED
    BY <2>1, <2>2, BootDecides
<1>5. CASE MonitorSpawns(i)
  <2> DEFINE returning == [mpc EXCEPT ![i] = "closing"]
  <2>1. mpc[i] \in {"backoff", "pausing"} /\ i = tries
    <3>1. mpc[i] \in {"backoff", "pausing"} /\ ~(i < tries) /\ ~(i > tries)
      BY <1>5 DEF MonitorSpawns, BootInv, BootMonitors
    <3> QED
      BY <3>1 DEF TypeOK, Attempts
  <2>2. /\ returning \in [Attempts -> MonitorPcs]
        /\ SpawnOk(returning) \/ SpawnFails(returning)
    BY <1>5 DEF MonitorSpawns, TypeOK, MonitorPcs
  <2>3. NobodyElse(returning)
    BY <2>1 DEF BootInv, BootMonitors, NobodyElse, TypeOK, Attempts
  <2>4. UNCHANGED <<cpc, cop>> /\ tries # 0
    BY <1>5, <2>1 DEF MonitorSpawns, Attempts
  <2> HIDE DEF returning
  <2>5. (BootMonitors /\ BootChildren /\ BootChannels)'
    BY <2>2, <2>3, BootSpawns DEF BootInv
  <2>6. BootCalls'
    BY <2>4 DEF BootInv, BootCalls
  <2> QED
    BY <2>5, <2>6 DEF BootInv
<1>6. CASE MonitorCloses(i)
  <2>1. mpc[i] = "closing" /\ mch[i] = i /\ i \notin closed
    BY <1>6 DEF MonitorCloses, BootInv, BootMonitors, BootChannels
  <2>2. /\ mpc' = [mpc EXCEPT ![i] = "over"]
        /\ closed' = closed \cup {i} /\ panicked' = panicked
        /\ UNCHANGED <<tries, child, cmd, done, logs, open, mch, mcmd, cpc, cop>>
    BY <1>6, <2>1 DEF MonitorCloses
  <2>3. BootCalls' /\ BootChannels'
    BY <2>1, <2>2 DEF BootInv, BootCalls, BootChannels, TypeOK
  <2>4. BootMonitors'
    BY <2>1, <2>2 DEF BootInv, BootMonitors, TypeOK
  <2>5. BootChildren'
    BY <2>1, <2>2 DEF BootInv, BootChildren, TypeOK
  <2> QED
    BY <2>3, <2>4, <2>5 DEF BootInv
<1> QED
  BY <1>1, <1>2, <1>3, <1>4, <1>5, <1>6 DEF MonitorStep

LEMMA BootWorldStep ==
  ASSUME TypeOK, BootInv,
         \/ \E i \in Attempts : TimerStep(i) \/ WorldStep(i)
         \/ \E e \in pending : Deliver(e)
         \/ UpdateConfig \/ Tick \/ Settled \/ UNCHANGED vars
  PROVE  BootInv'
<1> USE DEF procVars, osVars, timerVars, monitorVars, callVars, tellVars
<1>1. CASE \E i \in Attempts : ChildExits(i)
  <2>1. PICK i \in Attempts :
          /\ child[i] \in {"alive", "doomed"}
          /\ child' = [child EXCEPT ![i] = "zombie"]
          /\ UNCHANGED <<tries, cmd, done, logs, open, closed, panicked, mpc,
                         mch, mcmd, cpc, cop>>
    BY <1>1 DEF ChildExits
  <2>2. BootCalls' /\ BootChannels'
    BY <2>1 DEF BootInv, BootCalls, BootChannels
  <2>3. BootMonitors' /\ BootChildren'
    BY <2>1 DEF BootInv, BootMonitors, BootChildren, TypeOK
  <2> QED
    BY <2>2, <2>3 DEF BootInv
<1>2. CASE \/ \E i \in Attempts : TimerStep(i) \/ ChildForks(i) \/ PipeCloses(i)
           \/ \E e \in pending : Deliver(e)
           \/ UpdateConfig \/ Tick \/ Settled \/ UNCHANGED vars
  <2>1. UNCHANGED <<tries, child, cmd, done, logs, open, closed, panicked, mpc,
                    mch, mcmd, cpc, cop>>
    BY <1>2
    DEF TimerStep, TimerSkips, TimerArms, TimerFires, TimerQuits, Promotes,
        ChildForks, PipeCloses, Deliver, UpdateConfig, Tick, Settled, vars
  <2> QED
    BY <2>1 DEF BootInv, BootCalls, BootMonitors, BootChildren, BootChannels
<1> QED
  BY <1>1, <1>2 DEF WorldStep

LEMMA BootInvariant == ASSUME BootOnly PROVE Spec => []BootInv
<1>1. TypeOK /\ BootInv /\ [Next]_vars => BootInv'
  BY BootCallStep, BootMonitorStep, BootWorldStep DEF Next
<1> QED
  BY <1>1, BootInit, TypeCorrect, PTL DEF Spec

(* In the boot scope at most one child runs, its own monitor waits for it, *)
(* a closed done channel means a reaped child, no channel is closed twice, *)
(* and what the running child writes is logged.                            *)
THEOREM BootIsSafe ==
  ASSUME BootOnly
  PROVE  Spec => [](/\ NoSecondCopy /\ EveryChildWatched /\ DoneMeansExited
                    /\ NoPanic /\ LiveChildHasLog)
<1>1. TypeOK /\ BootInv => NoSecondCopy
  <2> SUFFICES ASSUME TypeOK, BootInv, NEW i \in Alive, NEW j \in Alive
               PROVE  i = j
    BY DEF NoSecondCopy
  <2>1. /\ i \in Attempts /\ mpc[i] \in {"new", "begun", "waiting"}
        /\ j \in Attempts /\ mpc[j] \in {"new", "begun", "waiting"}
    BY DEF Alive, BootInv, BootChildren
  <2> QED
    BY <2>1 DEF BootInv, BootMonitors
<1>2. BootInv => EveryChildWatched
  BY DEF BootInv, BootMonitors, BootChildren, EveryChildWatched, Alive
<1>3. BootInv => DoneMeansExited
  BY DEF BootInv, BootChildren, BootChannels, DoneMeansExited, Attempts
<1>4. BootInv => NoPanic
  BY DEF BootInv, BootChannels, NoPanic
<1>5. BootInv => LiveChildHasLog
  BY DEF BootInv, BootChildren, LiveChildHasLog, Alive
<1> QED
  BY <1>1, <1>2, <1>3, <1>4, <1>5, BootInvariant, TypeCorrect, PTL

(* The parts of it, one by one.  The child that runs is the one p.cmd and  *)
(* p.done stand for, and its own monitor waits for it.                     *)
COROLLARY BootIsWatched == ASSUME BootOnly PROVE Spec => []EveryChildWatched
  BY BootIsSafe, PTL

(* A done channel is closed only after the reaping of its child.           *)
COROLLARY BootDoneIsTrue == ASSUME BootOnly PROVE Spec => []DoneMeansExited
  BY BootIsSafe, PTL

(* No done channel is closed twice.                                        *)
COROLLARY BootNeverPanics == ASSUME BootOnly PROVE Spec => []NoPanic
  BY BootIsSafe, PTL

(* The log of a running child is open.                                     *)
COROLLARY BootIsLogged == ASSUME BootOnly PROVE Spec => []LiveChildHasLog
  BY BootIsSafe, PTL

(* Whoever is about to spawn does it for a program that is not down.       *)
BootStates ==
  /\ \A r \in Requests : cpc[r] = "spawning" => state \in {"STARTING", "STOPPING"}
  /\ \A i \in Attempts :
       /\ mpc[i] \in {"backoff", "pausing"} => state \in {"BACKOFF", "EXITED"}
       /\ i > tries => tpc[i] = "none"

LEMMA BootStatesStep ==
  ASSUME BootOnly, TypeOK, BootInv, BootStates, [Next]_vars
  PROVE  BootStates'
<1> USE DEF procVars, osVars, timerVars, monitorVars, callVars, tellVars
<1>0. \A i \in Attempts :
        /\ i > 0 /\ tries \in Nat
        /\ mpc[i] \notin {"none", "closing", "over"} => i = tries
        /\ mpc[i] # "none" \/ tpc[i] # "none" => tries # 0
  BY DEF BootInv, BootMonitors, BootStates, TypeOK, Attempts
<1>1. ASSUME NEW r \in Requests, Start(r)
      PROVE  BootStates'
  <2>1. tries = 0
    BY <1>1 DEF Start, Calls, BootInv, BootCalls
  <2>2. \A i \in Attempts : mpc[i] = "none" /\ tpc[i] = "none"
    BY <2>1, <1>0
  <2>3. /\ UNCHANGED <<tries, mpc, tpc>>
        /\ \/ state' = state /\ cpc' = [cpc EXCEPT ![r] = "returned"]
           \/ state' = "STARTING" /\ cpc' = [cpc EXCEPT ![r] = "spawning"]
    BY <1>1 DEF Start, BeginStart, Returns, Goes
  <2> QED
    BY <2>2, <2>3 DEF BootStates, TypeOK
<1>2. ASSUME NEW r \in Requests, Stop(r)
      PROVE  BootStates'
  <2>1. /\ UNCHANGED <<tries, mpc, tpc>>
        /\ \/ state' = state /\ cpc' = [cpc EXCEPT ![r] = "returned"]
           \/ /\ Up /\ state' = "STOPPING"
              /\ cpc' = [cpc EXCEPT ![r] = "terminating"]
    BY <1>2 DEF Stop, BeginStop, Returns, Goes
  <2> QED
    BY <2>1 DEF BootStates, TypeOK, Up
<1>3. ASSUME NEW r \in Requests, CallerSpawns(r)
      PROVE  BootStates'
  <2>1. tries = 0 /\ "start" \in Script[r] /\ cpc' = [cpc EXCEPT ![r] = "returned"]
    BY <1>3 DEF CallerSpawns, Returns, BootInv, BootCalls
  <2>2. \A q \in Requests : cpc'[q] # "spawning"
    BY <2>1 DEF BootOnly, BootInv, BootCalls, TypeOK
  <2>3. \A i \in Attempts : mpc'[i] \notin {"backoff", "pausing"}
    <3>1. \A i \in Attempts : mpc[i] = "none"
      BY <2>1, <1>0
    <3>2. mpc' = mpc \/ mpc' = [mpc EXCEPT ![tries + 1] = "new"]
      BY <1>3 DEF CallerSpawns, SpawnOk, SpawnFails
    <3> QED
      BY <3>1, <3>2 DEF TypeOK
  <2>4. \A i \in Attempts : i > tries' => tpc'[i] = "none"
    <3>1. /\ tries' = tries + 1 /\ tries \in Nat
          /\ tpc' = tpc \/ tpc' = [tpc EXCEPT ![tries + 1] = "new"]
      BY <1>3 DEF CallerSpawns, SpawnOk, SpawnFails, TypeOK
    <3>2. \A i \in Attempts : i \in Int
      BY DEF Attempts
    <3> QED
      BY <3>1, <3>2 DEF BootStates, TypeOK
  <2> QED
    BY <2>2, <2>3, <2>4 DEF BootStates
<1>4. ASSUME NEW r \in Requests, CallStep(r), ~CallerSpawns(r)
      PROVE  BootStates'
  <2>1. ~(RestartStops(r) \/ RestartStarts(r) \/ RestartSelect(r)
          \/ RestartWoken(r) \/ RestartTimesOut(r))
    BY DEF BootInv, BootCalls, RestartStops, RestartStarts, RestartSelect,
           Reads, RestartWoken, RestartTimesOut
  <2>2. /\ UNCHANGED <<tries, mpc, tpc, state>>
        /\ \E pc \in CallPcs \ {"spawning"} : cpc' = [cpc EXCEPT ![r] = pc]
    BY <1>4, <2>1
    DEF CallStep, Terminate, Select, KillSelect, Reads, StopWoken, StopDone,
        GraceExpires, Goes, Returns, CallPcs
  <2> QED
    BY <2>2 DEF BootStates, TypeOK
<1>5. ASSUME NEW i \in Attempts, TimerStep(i)
      PROVE  BootStates'
  <2>1. tpc[i] # "none" /\ tries # 0
    BY <1>5, <1>0
    DEF TimerStep, TimerSkips, TimerArms, TimerFires, TimerQuits
  <2>2. \A r \in Requests : cpc[r] # "spawning"
    BY <2>1 DEF BootInv, BootCalls
  <2>3. /\ UNCHANGED <<tries, mpc, cpc>>
        /\ \E pc \in TimerPcs : tpc' = [tpc EXCEPT ![i] = pc]
        /\ state' = state \/ state = "STARTING"
    BY <1>5
    DEF TimerStep, TimerSkips, TimerArms, TimerFires, TimerQuits, Promotes,
        TimerPcs
  <2> QED
    BY <2>1, <2>2, <2>3 DEF BootStates, TypeOK
<1>6. ASSUME NEW i \in Attempts,
             MonitorStops(i) \/ MonitorBacksOff(i) \/ MonitorGivesUp(i) \/ MonitorExits(i)
      PROVE  BootStates'
  <2>1. /\ UNCHANGED <<tries, tpc, cpc>> /\ mpc[i] = "draining"
        /\ \/ \E pc \in {"backoff", "pausing"} :
                mpc' = [mpc EXCEPT ![i] = pc] /\ state' \in {"BACKOFF", "EXITED"}
           \/ mpc' = [mpc EXCEPT ![i] = "closing"]
    BY <1>6
    DEF MonitorStops, MonitorBacksOff, MonitorGivesUp, MonitorExits,
        MonitorDecides, WaitReturned, BootInv, BootMonitors
  <2>2. \A r \in Requests : cpc[r] # "spawning"
    BY <1>0, <2>1 DEF BootInv, BootCalls
  <2>3. \A k \in Attempts : k # i => mpc[k] \notin {"backoff", "pausing"}
    BY <1>0, <2>1
  <2> QED
    BY <2>1, <2>2, <2>3 DEF BootStates, TypeOK
<1>7. ASSUME NEW i \in Attempts, MonitorSpawns(i)
      PROVE  BootStates'
  <2>1. mpc[i] \in {"backoff", "pausing"} /\ tries # 0 /\ cpc' = cpc
    BY <1>7, <1>0 DEF MonitorSpawns
  <2>2. \A r \in Requests : cpc'[r] # "spawning"
    BY <2>1 DEF BootInv, BootCalls
  <2>3. \A k \in Attempts : mpc'[k] \notin {"backoff", "pausing"}
    <3>1. \A k \in Attempts : k # i => mpc[k] \notin {"backoff", "pausing"}
      BY <1>0, <2>1
    <3>2. \/ mpc' = [mpc EXCEPT ![i] = "closing"]
          \/ mpc' = [[mpc EXCEPT ![i] = "closing"] EXCEPT ![tries + 1] = "new"]
      BY <1>7 DEF MonitorSpawns, SpawnOk, SpawnFails
    <3> QED
      BY <3>1, <3>2 DEF TypeOK
  <2>4. \A k \in Attempts : k > tries' => tpc'[k] = "none"
    <3>1. /\ tries' = tries + 1 /\ tries \in Nat
          /\ tpc' = tpc \/ tpc' = [tpc EXCEPT ![tries + 1] = "new"]
      BY <1>7 DEF MonitorSpawns, SpawnOk, SpawnFails, TypeOK
    <3>2. \A k \in Attempts : k \in Int
      BY DEF Attempts
    <3> QED
      BY <3>1, <3>2 DEF BootStates, TypeOK
  <2> QED
    BY <2>2, <2>3, <2>4 DEF BootStates
<1>8. ASSUME NEW i \in Attempts,
             MonitorDefers(i) \/ MonitorWaits(i) \/ MonitorReaps(i) \/ MonitorCloses(i)
      PROVE  BootStates'
  <2>1. /\ UNCHANGED <<state, tries, tpc, cpc>>
        /\ \E pc \in MonitorPcs \ {"backoff", "pausing"} :
             mpc' = [mpc EXCEPT ![i] = pc]
    BY <1>8
    DEF MonitorDefers, MonitorWaits, MonitorReaps, MonitorCloses, MonitorPcs
  <2> QED
    BY <2>1 DEF BootStates, TypeOK
<1>9. ASSUME \/ \E i \in Attempts : WorldStep(i)
             \/ \E e \in pending : Deliver(e)
             \/ UpdateConfig \/ Tick \/ Settled \/ UNCHANGED vars
      PROVE  BootStates'
  <2>1. UNCHANGED <<state, tries, tpc, cpc, mpc>>
    BY <1>9
    DEF WorldStep, ChildExits, ChildForks, PipeCloses, Deliver, UpdateConfig,
        Tick, Settled, vars
  <2> QED
    BY <2>1 DEF BootStates
<1>10. ASSUME NEW r \in Requests, Restart(r)
       PROVE  BootStates'
  BY <1>10 DEF BootOnly, Restart, Calls
<1> QED
  BY <1>1, <1>2, <1>3, <1>4, <1>5, <1>6, <1>7, <1>8, <1>9, <1>10
  DEF Next, CallOf, MonitorStep

(* In the boot scope a program that is STOPPED or FATAL stays down.        *)
THEOREM BootStaysDown == ASSUME BootOnly PROVE Spec => StoppedStaysDown
<1>1. Init => BootStates
  <2> SUFFICES ASSUME Init PROVE BootStates
    OBVIOUS
  <2> QED
    BY DEF Init, BootStates
<1>2. TypeOK /\ BootInv /\ BootStates /\ [Next]_vars => BootStates'
  BY BootStatesStep
<1>3. BootStates /\ [Next]_vars
        => [(state \in {"STOPPED", "FATAL"}) => UNCHANGED tries]_tries
  <2> SUFFICES ASSUME BootStates, Next, tries' # tries, state \in {"STOPPED", "FATAL"}
               PROVE  FALSE
    BY DEF vars, osVars
  <2>1. ASSUME NEW r \in Requests, CallOf(r) \/ CallStep(r)
        PROVE  CallerSpawns(r)
    BY <2>1
    DEF CallOf, CallStep, Start, Stop, Restart, RestartStops, RestartStarts,
        BeginStart, BeginStop, Terminate, Select, KillSelect, RestartSelect,
        Reads, StopWoken, RestartWoken, GraceExpires, RestartTimesOut, osVars
  <2>2. \A r \in Requests : ~CallerSpawns(r)
    BY DEF CallerSpawns, BootStates
  <2>3. ASSUME NEW i \in Attempts, TimerStep(i) \/ MonitorStep(i) \/ WorldStep(i)
        PROVE  MonitorSpawns(i)
    BY <2>3
    DEF TimerStep, TimerSkips, TimerArms, TimerFires, TimerQuits, Promotes,
        MonitorStep, MonitorDefers, MonitorWaits, MonitorReaps, MonitorStops,
        MonitorBacksOff, MonitorGivesUp, MonitorExits, MonitorDecides,
        MonitorCloses, WorldStep, ChildExits, ChildForks, PipeCloses, osVars
  <2>4. \A i \in Attempts : ~MonitorSpawns(i)
    BY DEF MonitorSpawns, BootStates
  <2> QED
    BY <2>1, <2>2, <2>3, <2>4
    DEF Next, Deliver, UpdateConfig, Tick, Settled, vars, osVars
<1> QED
  BY <1>1, <1>2, <1>3, BootInvariant, TypeCorrect, PTL
  DEF Spec, StoppedStaysDown
=============================================================================
