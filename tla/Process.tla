------------------------------ MODULE Process ------------------------------
(***************************************************************************)
(* One managed program: internal/process/process.go.                       *)
(*                                                                         *)
(* A Process is a record guarded by a mutex and touched by four kinds of   *)
(* goroutine: requests (Start, Stop and Restart, called by the control     *)
(* socket, the web API, the supervisor), one monitor and one start-up      *)
(* timer per successful spawn, and the state-change callbacks.  An action  *)
(* is one critical section, or one read of p.done or p.cmd made without    *)
(* the lock, or one wait that ends.                                        *)
(*                                                                         *)
(* The n-th call of spawn() is attempt n.  Its number also names the done  *)
(* channel it makes, the log writers it opens and, if it succeeds, the     *)
(* child, the monitor and the timer; 0 stands for the channel of New() and *)
(* for a nil cmd.  Seconds are counted by Tick; a wait that has elapsed    *)
(* may end at any later moment.                                            *)
(***************************************************************************)
EXTENDS Integers, FiniteSets

CONSTANTS
  Requests,       \* the goroutines that make one call each
  Script,         \* what each of them may call
  Serial,         \* TRUE: nobody calls before the previous call returned
  Configs,        \* the configurations a reload may install
  SpawnResults,   \* what spawn() may meet
  Forks,          \* TRUE: a child may leave descendants holding its output
  MaxSpawns,      \* bound: attempts of spawn()
  MaxAge          \* bound: seconds counted of a child's life

Policies == {"always", "on-failure", "never"}
Ops      == {"start", "stop", "restart"}

(* "refused": no command, or no stdout log;  "failed": the stdout log is   *)
(* open, and then the stderr log or exec fails.                            *)
Outcomes == {"ok", "refused", "failed"}

ASSUME ProcessAssumption ==
  /\ Script \in [Requests -> SUBSET Ops]
  /\ Serial \in BOOLEAN /\ Forks \in BOOLEAN
  /\ MaxSpawns \in Nat /\ MaxAge \in Nat
  /\ Configs \subseteq [policy : Policies, startSecs : Int, startRetries : Int]
  /\ SpawnResults \subseteq Outcomes

VARIABLES
  \* the Process struct
  state, cfg, cmd, done, retries,
  logs,           \* the attempt whose writers p.stdoutWriter/stderrWriter hold
  \* the operating system and the runtime
  tries,          \* calls of spawn() so far
  child, held, age, open, closed, panicked,
  \* start-up timers, monitors, requests
  tpc, tsecs, tch,
  mpc, mch, mcmd,
  cpc, cop, ccmd, cch, ret,
  \* callbacks in flight, and the statuses they have reported
  pending, told

procVars    == <<state, cfg, cmd, done, retries, logs>>
osVars      == <<tries, child, held, age, open, closed, panicked>>
timerVars   == <<tpc, tsecs, tch>>
monitorVars == <<mpc, mch, mcmd>>
callVars    == <<cpc, cop, ccmd, cch, ret>>
tellVars    == <<pending, told>>
vars == <<procVars, osVars, timerVars, monitorVars, callVars, tellVars>>

Attempts == 1..MaxSpawns

LC == INSTANCE Lifecycle WITH status <- state

ChildStates == {"none", "failed", "alive", "doomed", "zombie", "reaped"}
TimerPcs    == {"none", "new", "armed", "over"}
MonitorPcs  == {"none", "new", "begun", "waiting", "draining", "echild",
                "backoff", "pausing", "closing", "over"}
CallPcs     == {"idle", "spawning", "terminating", "select", "grace",
                "killed", "killwait", "stopping", "awaiting",
                "restartwait", "starting", "returned"}
Callbacks   == [by : {"timer", "monitor"}, of : Attempts, to : LC!Statuses]

TypeOK ==
  /\ state \in LC!Statuses /\ cfg \in Configs /\ retries \in Nat
  /\ cmd \in 0..MaxSpawns /\ done \in 0..MaxSpawns /\ logs \in 0..MaxSpawns
  /\ tries \in 0..MaxSpawns
  /\ child \in [Attempts -> ChildStates] /\ age \in [Attempts -> 0..MaxAge]
  /\ held \subseteq Attempts /\ open \subseteq Attempts
  /\ closed \subseteq 0..MaxSpawns /\ panicked \in BOOLEAN
  /\ tpc \in [Attempts -> TimerPcs] /\ tsecs \in [Attempts -> Int]
  /\ tch \in [Attempts -> 0..MaxSpawns]
  /\ mpc \in [Attempts -> MonitorPcs]
  /\ mch \in [Attempts -> 0..MaxSpawns] /\ mcmd \in [Attempts -> 0..MaxSpawns]
  /\ cpc \in [Requests -> CallPcs] /\ cop \in [Requests -> Ops \cup {"none"}]
  /\ ccmd \in [Requests -> 0..MaxSpawns] /\ cch \in [Requests -> 0..MaxSpawns]
  /\ ret \in [Requests -> {"none", "ok", "err", "unkilled"}]
  /\ pending \subseteq Callbacks /\ told \subseteq LC!Statuses

(* New(): STOPPED, no child yet, a done channel nobody will close.         *)
Init ==
  /\ state = "STOPPED" /\ cfg \in Configs
  /\ cmd = 0 /\ done = 0 /\ retries = 0 /\ logs = 0
  /\ tries = 0 /\ child = [i \in Attempts |-> "none"]
  /\ held = {} /\ age = [i \in Attempts |-> 0]
  /\ open = {} /\ closed = {} /\ panicked = FALSE
  /\ tpc = [i \in Attempts |-> "none"] /\ tsecs = [i \in Attempts |-> 0]
  /\ tch = [i \in Attempts |-> 0]
  /\ mpc = [i \in Attempts |-> "none"] /\ mch = [i \in Attempts |-> 0]
  /\ mcmd = [i \in Attempts |-> 0]
  /\ cpc = [r \in Requests |-> "idle"] /\ cop = [r \in Requests |-> "none"]
  /\ ccmd = [r \in Requests |-> 0] /\ cch = [r \in Requests |-> 0]
  /\ ret = [r \in Requests |-> "none"]
  /\ pending = {} /\ told = {}

(* Variant: a program still STARTING does not count as up.                 *)
Up_RunningOnly == state = "RUNNING"

Up == state \in {"STARTING", "RUNNING"}

(* Variant: spawn() keeps the old done channel.                            *)
SpawnOk_KeepsDone(monitors) ==
  LET n == tries + 1 IN
  /\ "ok" \in SpawnResults /\ tries < MaxSpawns
  /\ tries' = n /\ cmd' = n
  /\ logs' = n /\ open' = open \cup {n}
  /\ child' = [child EXCEPT ![n] = "alive"]
  /\ tpc' = [tpc EXCEPT ![n] = "new"]
  /\ tsecs' = [tsecs EXCEPT ![n] = cfg.startSecs]
  /\ mpc' = [monitors EXCEPT ![n] = "new"]
  /\ UNCHANGED <<state, cfg, done, retries, held, age, closed, panicked, tch,
                 mch, mcmd, pending, told>>

(***************************************************************************)
(* spawn(): one critical section, called by a request or by a monitor;     *)
(* monitors  is mpc with the caller's own step already made.  The new done *)
(* channel replaces the old one before anything can fail.  A success       *)
(* leaves the state alone; a failure sets FATAL and calls nobody.          *)
(***************************************************************************)
SpawnOk(monitors) ==
  LET n == tries + 1 IN
  /\ "ok" \in SpawnResults /\ tries < MaxSpawns
  /\ tries' = n /\ done' = n /\ cmd' = n
  /\ logs' = n /\ open' = open \cup {n}
  /\ child' = [child EXCEPT ![n] = "alive"]
  /\ tpc' = [tpc EXCEPT ![n] = "new"]
  /\ tsecs' = [tsecs EXCEPT ![n] = cfg.startSecs]
  /\ mpc' = [monitors EXCEPT ![n] = "new"]
  /\ UNCHANGED <<state, cfg, retries, held, age, closed, panicked, tch,
                 mch, mcmd, pending, told>>

SpawnFails(monitors) ==
  LET n == tries + 1 IN
  /\ tries < MaxSpawns
  /\ tries' = n /\ done' = n
  /\ child' = [child EXCEPT ![n] = "failed"]
  /\ state' = "FATAL"
  /\ mpc' = monitors
  /\ \/ "refused" \in SpawnResults /\ UNCHANGED <<logs, open>>
     \/ "failed" \in SpawnResults /\ logs' = n /\ open' = open \cup {n}
  /\ UNCHANGED <<cfg, cmd, retries, held, age, closed, panicked, timerVars,
                 mch, mcmd, pending, told>>

(***************************************************************************)
(* Requests.                                                               *)
(***************************************************************************)
Calls(r, op) ==
  /\ cpc[r] = "idle" /\ op \in Script[r]
  /\ Serial => \A q \in Requests : cpc[q] \in {"idle", "returned"}
  /\ cop' = [cop EXCEPT ![r] = op]

Returns(r, value) ==
  cpc' = [cpc EXCEPT ![r] = "returned"] /\ ret' = [ret EXCEPT ![r] = value]

Goes(r, pc) == cpc' = [cpc EXCEPT ![r] = pc] /\ UNCHANGED ret

(* Start() up to its Unlock: refused only to a program that is up.         *)
BeginStart(r) ==
  /\ \/ Up /\ Returns(r, "err") /\ UNCHANGED state
     \/ ~Up /\ Goes(r, "spawning") /\ state' = "STARTING"
  /\ UNCHANGED <<cfg, cmd, done, retries, logs, osVars, timerVars,
                 monitorVars, ccmd, cch, tellVars>>

(* Stop() up to its Unlock.                                                *)
BeginStop(r) ==
  /\ \/ ~Up /\ Returns(r, "err") /\ UNCHANGED state
     \/ Up /\ Goes(r, "terminating") /\ state' = "STOPPING"
  /\ UNCHANGED <<cfg, cmd, done, retries, logs, osVars, timerVars,
                 monitorVars, ccmd, cch, tellVars>>

Start(r) == ~panicked /\ Calls(r, "start") /\ BeginStart(r)

Stop(r) == ~panicked /\ Calls(r, "stop") /\ BeginStop(r)

(* Restart() looks at the state, and acts on it under another lock.        *)
Restart(r) ==
  /\ ~panicked /\ Calls(r, "restart")
  /\ Goes(r, IF Up THEN "stopping" ELSE "starting")
  /\ UNCHANGED <<procVars, osVars, timerVars, monitorVars, ccmd, cch, tellVars>>

RestartStops(r) ==
  ~panicked /\ cpc[r] = "stopping" /\ BeginStop(r) /\ UNCHANGED cop

RestartStarts(r) ==
  ~panicked /\ cpc[r] = "starting" /\ BeginStart(r) /\ UNCHANGED cop

(* Start() after its Unlock.                                               *)
CallerSpawns(r) ==
  /\ ~panicked /\ cpc[r] = "spawning"
  /\ \/ SpawnOk(mpc) /\ Returns(r, "ok")
     \/ SpawnFails(mpc) /\ Returns(r, "err")
  /\ UNCHANGED <<cop, ccmd, cch>>

(* terminate() returns nil: the end of a Stop, the middle of a Restart.    *)
StopDone(r) == IF cop[r] = "restart" THEN Goes(r, "awaiting")
                                     ELSE Returns(r, "ok")

(* terminate(): snapshot p.cmd, send the polite signal (which the child    *)
(* may heed or not), and with no child at all report success.              *)
Terminate(r) ==
  /\ ~panicked /\ cpc[r] = "terminating"
  /\ ccmd' = [ccmd EXCEPT ![r] = cmd]
  /\ \/ cmd = 0 /\ StopDone(r)
     \/ cmd # 0 /\ Goes(r, "select")
  /\ UNCHANGED <<procVars, osVars, timerVars, monitorVars, cop, cch, tellVars>>

(* A select (or a receive) on p.done: the channel is read when it starts.  *)
Reads(r, from, to) ==
  /\ ~panicked /\ cpc[r] = from
  /\ Goes(r, to) /\ cch' = [cch EXCEPT ![r] = done]
  /\ UNCHANGED <<procVars, osVars, timerVars, monitorVars, cop, ccmd, tellVars>>

Select(r)        == Reads(r, "select", "grace")
KillSelect(r)    == Reads(r, "killed", "killwait")
RestartSelect(r) == Reads(r, "awaiting", "restartwait")

(* Variant: terminate() does not wait for the monitor.                     *)
StopWoken_AtOnce(r) ==
  /\ ~panicked /\ cpc[r] \in {"grace", "killwait"}
  /\ StopDone(r)
  /\ UNCHANGED <<procVars, osVars, timerVars, monitorVars, cop, ccmd, cch,
                 tellVars>>

(* The channel that was read is closed: terminate() returns nil.           *)
StopWoken(r) ==
  /\ ~panicked /\ cpc[r] \in {"grace", "killwait"} /\ cch[r] \in closed
  /\ StopDone(r)
  /\ UNCHANGED <<procVars, osVars, timerVars, monitorVars, cop, ccmd, cch,
                 tellVars>>

RestartWoken(r) ==
  /\ ~panicked /\ cpc[r] = "restartwait" /\ cch[r] \in closed
  /\ Goes(r, "starting")
  /\ UNCHANGED <<procVars, osVars, timerVars, monitorVars, cop, ccmd, cch,
                 tellVars>>

(* stopwaitsecs lapse: Kill() the snapshot, an error if already reaped,    *)
(* which is told from the other errors: the status is still STOPPING.      *)
GraceExpires(r) ==
  /\ ~panicked /\ cpc[r] = "grace"
  /\ \/ /\ child[ccmd[r]] = "reaped"
        /\ Returns(r, "unkilled") /\ UNCHANGED child
     \/ /\ child[ccmd[r]] # "reaped" /\ Goes(r, "killed")
        /\ child' = IF child[ccmd[r]] = "alive"
                    THEN [child EXCEPT ![ccmd[r]] = "doomed"] ELSE child
  /\ UNCHANGED <<procVars, tries, held, age, open, closed, panicked,
                 timerVars, monitorVars, cop, ccmd, cch, tellVars>>

RestartTimesOut(r) ==
  /\ ~panicked /\ cpc[r] = "restartwait"
  /\ Returns(r, "err")
  /\ UNCHANGED <<procVars, osVars, timerVars, monitorVars, cop, ccmd, cch,
                 tellVars>>

(***************************************************************************)
(* The start-up timer of attempt i.                                        *)
(***************************************************************************)
Fires(by, i, to) ==
  pending' = pending \cup {[by |-> by, of |-> i, to |-> to]} /\ UNCHANGED told

(* Variant: the timer promotes without looking at the state.               *)
Promotes_Blindly(i) ==
  /\ tpc' = [tpc EXCEPT ![i] = "over"]
  /\ state' = "RUNNING" /\ Fires("timer", i, "RUNNING")
  /\ UNCHANGED <<cfg, cmd, done, retries, logs, osVars, tsecs, tch,
                 monitorVars, callVars>>

(* Promotes the program, whichever child is current by now.                *)
Promotes(i) ==
  /\ tpc' = [tpc EXCEPT ![i] = "over"]
  /\ \/ state = "STARTING" /\ state' = "RUNNING" /\ Fires("timer", i, "RUNNING")
     \/ state # "STARTING" /\ UNCHANGED <<state, tellVars>>
  /\ UNCHANGED <<cfg, cmd, done, retries, logs, osVars, tsecs, tch,
                 monitorVars, callVars>>

(* startsecs <= 0: promote at once.                                        *)
TimerSkips(i) ==
  ~panicked /\ tpc[i] = "new" /\ tsecs[i] <= 0 /\ Promotes(i)

TimerArms(i) ==
  /\ ~panicked /\ tpc[i] = "new" /\ tsecs[i] > 0
  /\ tpc' = [tpc EXCEPT ![i] = "armed"] /\ tch' = [tch EXCEPT ![i] = done]
  /\ UNCHANGED <<procVars, osVars, tsecs, monitorVars, callVars, tellVars>>

(* Variant: the timer does not wait.                                       *)
TimerFires_Early(i) == ~panicked /\ tpc[i] = "armed" /\ Promotes(i)

TimerFires(i) ==
  ~panicked /\ tpc[i] = "armed" /\ age[i] >= tsecs[i] /\ Promotes(i)

TimerQuits(i) ==
  /\ ~panicked /\ tpc[i] = "armed" /\ tch[i] \in closed
  /\ tpc' = [tpc EXCEPT ![i] = "over"]
  /\ UNCHANGED <<procVars, osVars, tsecs, tch, monitorVars, callVars, tellVars>>

(***************************************************************************)
(* The monitor of attempt i.                                               *)
(***************************************************************************)
(* `defer close(p.done)` evaluates p.done here, without the lock ...       *)
MonitorDefers(i) ==
  /\ ~panicked /\ mpc[i] = "new"
  /\ mpc' = [mpc EXCEPT ![i] = "begun"] /\ mch' = [mch EXCEPT ![i] = done]
  /\ UNCHANGED <<procVars, osVars, timerVars, mcmd, callVars, tellVars>>

(* ... and `p.cmd.Wait()` evaluates p.cmd here.                            *)
MonitorWaits(i) ==
  /\ ~panicked /\ mpc[i] = "begun"
  /\ mpc' = [mpc EXCEPT ![i] = "waiting"] /\ mcmd' = [mcmd EXCEPT ![i] = cmd]
  /\ UNCHANGED <<procVars, osVars, timerVars, mch, callVars, tellVars>>

(* Variant: a Wait() that does not block.                                  *)
MonitorReaps_NoBlock(i) ==
  /\ ~panicked /\ mpc[i] = "waiting"
  /\ mpc' = [mpc EXCEPT ![i] = "draining"]
  /\ UNCHANGED <<procVars, osVars, timerVars, mch, mcmd, callVars, tellVars>>

(* Wait() reaps the child, then drains its output; waiting for a child     *)
(* that another monitor has reaped is an error.                            *)
MonitorReaps(i) ==
  /\ ~panicked /\ mpc[i] = "waiting"
  /\ \/ /\ child[mcmd[i]] = "zombie"
        /\ child' = [child EXCEPT ![mcmd[i]] = "reaped"]
        /\ mpc' = [mpc EXCEPT ![i] = "draining"]
     \/ /\ child[mcmd[i]] = "reaped" /\ UNCHANGED child
        /\ mpc' = [mpc EXCEPT ![i] = "echild"]
  /\ UNCHANGED <<procVars, tries, held, age, open, closed, panicked,
                 timerVars, mch, mcmd, callVars, tellVars>>

WaitReturned(i) ==
  /\ ~panicked
  /\ \/ mpc[i] = "draining" /\ mcmd[i] \notin held
     \/ mpc[i] = "echild"

(* Variant: the log writers stay open.                                     *)
MonitorDecides_KeepsLogs(i, to, pc) ==
  /\ state' = to /\ mpc' = [mpc EXCEPT ![i] = pc]
  /\ Fires("monitor", i, to)
  /\ UNCHANGED <<cfg, cmd, done, logs, tries, child, held, age, open, closed,
                 panicked, timerVars, mch, mcmd, callVars>>

(* The critical section after Wait(): it closes whatever writers are       *)
(* current, moves the state and tells the callback.                        *)
MonitorDecides(i, to, pc) ==
  /\ open' = open \ {logs}
  /\ state' = to /\ mpc' = [mpc EXCEPT ![i] = pc]
  /\ Fires("monitor", i, to)
  /\ UNCHANGED <<cfg, cmd, done, logs, tries, child, held, age, closed,
                 panicked, timerVars, mch, mcmd, callVars>>

(* stopTime - startTime, where startTime is that of the latest spawn.      *)
TooQuick == Up /\ age[cmd] < cfg.startSecs

(* Variant: the return after STOPPED skips the close of the done channel.  *)
MonitorStops_NoClose(i) ==
  /\ WaitReturned(i) /\ state = "STOPPING"
  /\ MonitorDecides(i, "STOPPED", "over")
  /\ UNCHANGED retries

MonitorStops(i) ==
  /\ WaitReturned(i) /\ state = "STOPPING"
  /\ MonitorDecides(i, "STOPPED", "closing")
  /\ UNCHANGED retries

(* Variant: the retry counter runs backwards.                              *)
MonitorBacksOff_CountsDown(i) ==
  /\ WaitReturned(i) /\ TooQuick /\ retries + 1 <= cfg.startRetries
  /\ MonitorDecides(i, "BACKOFF", "backoff") /\ retries' = retries - 1

MonitorBacksOff(i) ==
  /\ WaitReturned(i) /\ TooQuick /\ retries + 1 <= cfg.startRetries
  /\ MonitorDecides(i, "BACKOFF", "backoff") /\ retries' = retries + 1

(* Variant: no return after FATAL.                                         *)
MonitorGivesUp_NoReturn(i) ==
  /\ WaitReturned(i) /\ TooQuick /\ retries + 1 > cfg.startRetries
  /\ MonitorDecides(i, "FATAL", "backoff") /\ retries' = retries + 1

MonitorGivesUp(i) ==
  /\ WaitReturned(i) /\ TooQuick /\ retries + 1 > cfg.startRetries
  /\ MonitorDecides(i, "FATAL", "closing") /\ retries' = retries + 1

(* Variant: "always" is read as "on-failure".                              *)
ShouldRestart_OnFailure(expected) == cfg.policy # "never" /\ ~expected

(* isExpectedExit: a failed Wait() gives -1, in no list of exit codes.     *)
ShouldRestart(expected) == \/ cfg.policy = "always"
                           \/ cfg.policy = "on-failure" /\ ~expected

MonitorExits(i) ==
  /\ WaitReturned(i) /\ state # "STOPPING" /\ ~TooQuick
  /\ \E expected \in IF mpc[i] = "echild" THEN {FALSE} ELSE BOOLEAN :
       MonitorDecides(i, "EXITED",
                      IF ShouldRestart(expected) THEN "pausing" ELSE "closing")
  /\ retries' = 0

(* The back-off or the one-second pause is over; nobody cancels ctx.       *)
MonitorSpawns(i) ==
  LET returning == [mpc EXCEPT ![i] = "closing"] IN
  /\ ~panicked /\ mpc[i] \in {"backoff", "pausing"}
  /\ SpawnOk(returning) \/ SpawnFails(returning)
  /\ UNCHANGED callVars

(* monitor() returns: the deferred close; a second close panics.           *)
MonitorCloses(i) ==
  /\ ~panicked /\ mpc[i] = "closing"
  /\ mpc' = [mpc EXCEPT ![i] = "over"]
  /\ \/ /\ mch[i] \notin closed
        /\ closed' = closed \cup {mch[i]} /\ UNCHANGED panicked
     \/ mch[i] \in closed /\ panicked' = TRUE /\ UNCHANGED closed
  /\ UNCHANGED <<procVars, tries, child, held, age, open, timerVars,
                 mch, mcmd, callVars, tellVars>>

(***************************************************************************)
(* Reload, callbacks, and the world.                                       *)
(***************************************************************************)
UpdateConfig ==
  /\ ~panicked /\ cfg' \in Configs \ {cfg}
  /\ UNCHANGED <<state, cmd, done, retries, logs, osVars, timerVars,
                 monitorVars, callVars, tellVars>>

(* Each callback is a goroutine of its own: any one may be the next.       *)
Deliver(e) ==
  /\ ~panicked /\ pending' = pending \ {e} /\ told' = told \cup {e.to}
  /\ UNCHANGED <<procVars, osVars, timerVars, monitorVars, callVars>>

(* A child exits, of itself, by the polite signal or by SIGKILL.           *)
ChildExits(i) ==
  /\ child[i] \in {"alive", "doomed"}
  /\ child' = [child EXCEPT ![i] = "zombie"]
  /\ UNCHANGED <<procVars, tries, held, age, open, closed, panicked,
                 timerVars, monitorVars, callVars, tellVars>>

(* A child starts a descendant that inherits its output pipe ...           *)
ChildForks(i) ==
  /\ Forks /\ child[i] = "alive" /\ i \notin held
  /\ held' = held \cup {i}
  /\ UNCHANGED <<procVars, tries, child, age, open, closed, panicked,
                 timerVars, monitorVars, callVars, tellVars>>

(* ... which no signal of the daemon reaches, and which may end one day.   *)
PipeCloses(i) ==
  /\ i \in held /\ held' = held \ {i}
  /\ UNCHANGED <<procVars, tries, child, age, open, closed, panicked,
                 timerVars, monitorVars, callVars, tellVars>>

(* A clock runs while someone may read it: p.startTime, or a timer.        *)
Ages(i) == (i = cmd \/ tpc[i] \in {"new", "armed"}) /\ age[i] < MaxAge

Tick ==
  /\ \E i \in Attempts : Ages(i)
  /\ age' = [i \in Attempts |-> IF Ages(i) THEN age[i] + 1 ELSE age[i]]
  /\ UNCHANGED <<procVars, tries, child, held, open, closed, panicked,
                 timerVars, monitorVars, callVars, tellVars>>

(* Nothing left to do: what waits, waits for an attempt beyond MaxSpawns.  *)
Settled ==
  /\ \A r \in Requests : cpc[r] \in {"idle", "spawning", "returned"}
  /\ \A i \in Attempts : /\ mpc[i] \in {"none", "backoff", "pausing", "over"}
                         /\ tpc[i] \in {"none", "over"}
  /\ UNCHANGED vars

CallOf(r) ==
  \/ Start(r) \/ Stop(r) \/ Restart(r)

CallStep(r) ==
  \/ RestartStops(r) \/ RestartStarts(r) \/ CallerSpawns(r)
  \/ Terminate(r) \/ Select(r) \/ KillSelect(r) \/ RestartSelect(r)
  \/ StopWoken(r) \/ RestartWoken(r) \/ GraceExpires(r) \/ RestartTimesOut(r)

TimerStep(i) ==
  \/ TimerSkips(i) \/ TimerArms(i) \/ TimerFires(i) \/ TimerQuits(i)

MonitorStep(i) ==
  \/ MonitorDefers(i) \/ MonitorWaits(i) \/ MonitorReaps(i)
  \/ MonitorStops(i) \/ MonitorBacksOff(i) \/ MonitorGivesUp(i)
  \/ MonitorExits(i) \/ MonitorSpawns(i) \/ MonitorCloses(i)

WorldStep(i) == ChildExits(i) \/ ChildForks(i) \/ PipeCloses(i)

Next ==
  \/ \E r \in Requests : CallOf(r) \/ CallStep(r)
  \/ \E i \in Attempts : TimerStep(i) \/ MonitorStep(i) \/ WorldStep(i)
  \/ \E e \in pending : Deliver(e)
  \/ UpdateConfig \/ Tick \/ Settled

Spec == Init /\ [][Next]_vars

(***************************************************************************)
(* Fairness.  Go schedules every runnable goroutine and fires every timer; *)
(* the kernel carries out SIGKILL; time passes.  Nobody promises a call, a *)
(* reload, a child that exits of itself or a descendant that ends.         *)
(***************************************************************************)
Fairness ==
  /\ \A r \in Requests : WF_vars(CallStep(r))
  /\ \A i \in Attempts : /\ WF_vars(TimerStep(i))
                         /\ WF_vars(MonitorStep(i))
                         /\ WF_vars(child[i] = "doomed" /\ ChildExits(i))
  /\ WF_vars(\E e \in pending : Deliver(e))
  /\ WF_vars(Tick)

FairSpec == Spec /\ Fairness

(***************************************************************************)
(* Safety.                                                                 *)
(***************************************************************************)
Alive == {i \in Attempts : child[i] \in {"alive", "doomed"}}

(* "you get an error, not a second copy": at most one child is running,    *)
(* across Start, Restart, back-off and automatic restart.                  *)
NoSecondCopy == \A i, j \in Alive : i = j

(* The child that runs is the one p.cmd and p.done stand for, so that Stop *)
(* signals it and waits for it; and the monitor of its own spawn, which    *)
(* reads both without the lock, has it and no other.                       *)
EveryChildWatched ==
  \A i \in Alive :
    /\ cmd = i /\ done = i
    /\ mpc[i] \in {"new", "begun", "waiting"}
    /\ mpc[i] # "new" => mch[i] = i
    /\ mpc[i] = "waiting" => mcmd[i] = i

(* A closed done channel means that its child has been reaped.             *)
DoneMeansExited == \A i \in closed : i # 0 /\ child[i] = "reaped"

(* No done channel is closed twice: that panics the daemon.                *)
NoPanic == ~panicked

(* What a running child writes has somewhere to go: no monitor closed its  *)
(* log under it.                                                           *)
LiveChildHasLog == Alive \subseteq open

(* Log writers are closed before p.stdoutWriter forgets them.              *)
NoLogLeak == open \subseteq {logs}

(* RUNNING means that the present child has lived for startsecs.           *)
RunningIsAged == state = "RUNNING" => cmd # 0 /\ age[cmd] >= tsecs[cmd]

(* Nobody decides on a restart, or says the program is over, before the    *)
(* child in question is reaped.                                            *)
ReapBeforeRespawn ==
  \A i \in Attempts :
    mpc[i] \in {"backoff", "pausing", "closing", "over"} =>
      mcmd[i] # 0 /\ child[mcmd[i]] = "reaped"

(* A program none of whose children ever lives a second is given up after  *)
(* startretries restarts.                                                  *)
CrashLoopIsGivenUp ==
  cfg.startSecs > 0 /\ (\A i \in Attempts : age[i] = 0)
    => tries <= cfg.startRetries + 1

(* Calls that wait for each other's answers never start a second copy,     *)
(* until a Kill() fails: it makes Stop() return while its child's monitor  *)
(* has yet to decide.                                                      *)
KillFailed == \E r \in Requests : cpc[r] = "returned" /\ ret[r] = "unkilled"

OneCopyTillKillFails == KillFailed \/ NoSecondCopy

(***************************************************************************)
(* Action properties.                                                      *)
(***************************************************************************)
ReturnsNow(r, op, value) ==
  cop[r] = op /\ cpc[r] # "returned" /\ cpc'[r] = "returned" /\ ret'[r] = value

(* Stop() that returns nil leaves nothing running, and says STOPPED, as    *)
(* long as no Kill() has failed.                                           *)
StopMeansGone ==
  [][\A r \in Requests :
       ReturnsNow(r, "stop", "ok") /\ ~KillFailed
         => Alive' = {} /\ state' = "STOPPED"]_vars

(* Stop() that found a child to signal returns nil only once that child is *)
(* reaped and the program STOPPED.                                         *)
StopWaits ==
  [][\A r \in Requests :
       ReturnsNow(r, "stop", "ok") /\ ccmd'[r] # 0
         => child'[ccmd'[r]] = "reaped" /\ state' = "STOPPED"]_vars

(* Restart() that returns nil has started a child after the end of every   *)
(* earlier one, as long as no Kill() has failed.                           *)
RestartReplaces ==
  [][\A r \in Requests :
       ReturnsNow(r, "restart", "ok") /\ ~KillFailed
         => /\ child'[tries'] = "alive"
            /\ \A i \in 1..(tries' - 1) : child'[i] \in {"reaped", "failed"}]_vars

(* "Done. No restart.": a program that is STOPPED or FATAL spawns nothing  *)
(* until a Start() has moved it to STARTING.                               *)
StoppedStaysDown ==
  [][(state \in {"STOPPED", "FATAL"}) => UNCHANGED tries]_tries

(* What the status does is what the abstract life cycle allows.            *)
StatusFollowsLifecycle == LC!Spec

(***************************************************************************)
(* Liveness, under FairSpec.                                               *)
(***************************************************************************)
(* Stop() comes back, whatever the child does with the polite signal.      *)
StopReturns ==
  \A r \in Requests : cop[r] = "stop" ~> cpc[r] = "returned"

(* With autorestart = always a child that exits is replaced, unless a Stop *)
(* or the retry budget ended the program.                                  *)
AlwaysRestarted ==
  \A i \in Attempts :
    child[i] = "zombie" /\ cfg.policy = "always" ~>
      \/ tries > i \/ i = MaxSpawns
      \/ state \in {"STOPPING", "STOPPED", "FATAL"}
=============================================================================
