----------------------------- MODULE Supervisor -----------------------------
(***************************************************************************)
(* The daemon around its programs: internal/supervisor/supervisor.go, the  *)
(* dispatch of internal/ipc/server.go and main() of cmd/direktord.         *)
(*                                                                         *)
(* The Supervisor keeps a map from names to Process objects.  Handlers of  *)
(* the control socket and of the web API, the signal goroutine and main()  *)
(* call into it; Reload and AddProcess start goroutines that nobody waits  *)
(* for.  A call of Start, Stop or Restart on an object is a frame in       *)
(* calls.  What a Process does by itself is reduced to what its callers    *)
(* can tell: the children of an object are numbered, a Stop waits for the  *)
(* child it found, and a child's death, the monitor's decision and the     *)
(* close of the done channel are one step (module Process takes it apart). *)
(***************************************************************************)
EXTENDS Integers, FiniteSets, Sequences

CONSTANTS
  Names,        \* names of programs
  Confs,        \* what a section says of a program: [auto, prio, restarts]
  Files,        \* the contents the configuration file may have
  Operators,    \* clients of the socket or the web API, and senders of signals
  Script,       \* the commands each of them may give, one each
  MaxObjects,   \* bound: Process objects ever made
  MaxKids       \* bound: children of one object

Signals  == {"hup", "term"}
Calls    == {"start", "stop", "restart"}
Verbs    == Calls \cup Signals \cup {"add", "remove", "reload", "shutdown"}
Commands == [do : Verbs, names : Seq(Names)]
Nothing  == [do |-> "none", names |-> <<>>]
Objects  == 1..MaxObjects
Kids     == 1..MaxKids

ASSUME SupervisorAssumption ==
  /\ MaxObjects \in Nat /\ MaxKids \in Nat
  /\ Confs \subseteq [auto : BOOLEAN, prio : Int, restarts : BOOLEAN]
  /\ Files \subseteq UNION {[N -> Confs] : N \in SUBSET Names}
  /\ \A f \in Files : Cardinality(DOMAIN f) <= MaxObjects
  /\ IsFiniteSet(Names)
  /\ Script \in [Operators -> SUBSET Commands]
  /\ \A p \in Operators : \A c \in Script[p] :
       c.do \in {"add", "remove"} => Len(c.names) = 1
  /\ {"signal", "boot", "go"} \cap Operators = {}

VARIABLES
  processes, listed,            \* Supervisor.processes, names of cfg.Programs
  made, nameOf, conf, status,   \* the Process objects ...
  alive, latest, due,           \* ... their children and pending respawns
  calls,                        \* the calls under way on them
  boot, todo,                   \* main(): how far Start() is
  opc, doing, rest, reply,      \* the handlers
  down, look,                   \* the Shutdown()s: where, still to look at
  sig,                          \* the signal channel
  cancelled, gone,              \* ctx is cancelled; the daemon has exited
  calm, marked                  \* history, see the properties

mapVars   == <<processes, listed>>
objVars   == <<made, nameOf, conf, status, alive, latest, due>>
opVars    == <<opc, doing, rest, reply>>
downVars  == <<down, look>>
endVars   == <<cancelled, gone>>
vars == <<mapVars, objVars, calls, boot, todo, opVars, downVars, sig, endVars,
          calm, marked>>

Statuses == {"STOPPED", "STARTING", "RUNNING", "BACKOFF",
             "STOPPING", "EXITED", "FATAL"}
Downs    == Operators \cup {"signal"}
Frames   == [by : Downs \cup {"boot", "go"}, obj : Objects,
             pc : {"start", "spawn", "stop", "term", "wait", "restart", "remove",
                   "look"},
             child : 0..MaxKids, again : BOOLEAN]

TypeOK ==
  /\ DOMAIN processes \subseteq Names /\ listed = DOMAIN processes
  /\ made \in 0..MaxObjects
  /\ \A n \in DOMAIN processes :
       processes[n] \in 1..made /\ nameOf[processes[n]] = n
  /\ nameOf \in [1..made -> Names] /\ conf \in [1..made -> Confs]
  /\ status \in [Objects -> Statuses]
  /\ alive \in [Objects -> SUBSET Kids]
  /\ latest \in [Objects -> 0..MaxKids] /\ due \in [Objects -> 0..MaxKids]
  /\ calls \subseteq Frames
  /\ boot \in {"new", "starting", "done"} /\ todo \subseteq Objects
  /\ opc \in [Operators -> {"idle", "next", "call", "over"}]
  /\ doing \in [Operators -> Commands \cup {Nothing}]
  /\ rest \in [Operators -> Seq(Names)]
  /\ reply \in [Operators -> {"none", "ok", "err"}]
  /\ down \in [Downs -> {"none", "looking", "over"}]
  /\ look \in [Downs -> SUBSET Objects]
  /\ sig \in Signals \cup {"none"}
  /\ cancelled \in BOOLEAN /\ gone \in BOOLEAN
  /\ calm \in BOOLEAN /\ marked \subseteq Objects \X Kids

Managed == {processes[n] : n \in DOMAIN processes}

(* New() makes an object for every section of the file; main() opens the   *)
(* control socket and the web server before it calls Start().              *)
Init ==
  /\ \E f \in Files :
       /\ listed = DOMAIN f /\ made = Cardinality(DOMAIN f)
       /\ processes \in [DOMAIN f -> 1..made]
       /\ \A m, n \in DOMAIN f : processes[m] = processes[n] => m = n
       /\ nameOf = [o \in 1..made |-> CHOOSE n \in DOMAIN f : processes[n] = o]
       /\ conf = [o \in 1..made |-> f[nameOf[o]]]
  /\ status = [o \in Objects |-> "STOPPED"]
  /\ alive = [o \in Objects |-> {}]
  /\ latest = [o \in Objects |-> 0] /\ due = [o \in Objects |-> 0]
  /\ calls = {} /\ boot = "new" /\ todo = {}
  /\ opc = [p \in Operators |-> "idle"]
  /\ doing = [p \in Operators |-> Nothing]
  /\ rest = [p \in Operators |-> <<>>] /\ reply = [p \in Operators |-> "none"]
  /\ down = [d \in Downs |-> "none"] /\ look = [d \in Downs |-> {}]
  /\ sig = "none" /\ cancelled = FALSE /\ gone = FALSE
  /\ calm = TRUE /\ marked = {}

-----------------------------------------------------------------------------
(* Process: the part of it that its callers can tell.                      *)

Up(o) == status[o] \in {"STARTING", "RUNNING"}

Frame(who, o, pc) ==
  [by |-> who, obj |-> o, pc |-> pc, child |-> 0, again |-> FALSE]

Goes(c, d) == calls' = (calls \ {c}) \cup {d} /\ UNCHANGED opVars

(* A call returns: to a handler, which goes on with its next name, answers *)
(* or, having removed the program, ignores the error; or to a goroutine    *)
(* that logs what it gets.                                                 *)
Ends(c, value) ==
  /\ calls' = calls \ {c}
  /\ IF c.by \in Operators /\ opc[c.by] = "call"
     THEN LET p    == c.by
              fine == value = "ok" \/ doing[p].do = "remove"
              last == ~fine \/ Len(rest[p]) = 1
          IN /\ opc' = [opc EXCEPT ![p] = IF last THEN "over" ELSE "next"]
             /\ reply' = [reply EXCEPT ![p] =
                  IF ~last THEN "none" ELSE IF fine THEN "ok" ELSE "err"]
             /\ rest' = [rest EXCEPT ![p] = Tail(@)]
             /\ UNCHANGED doing
     ELSE UNCHANGED opVars

KeepsRest == UNCHANGED <<mapVars, boot, todo, downVars, sig, endVars, marked>>

BeginStart(c) ==
  LET o == c.obj IN
  /\ c.pc = "start"
  /\ \/ Up(o) /\ Ends(c, "err") /\ UNCHANGED status
     \/ /\ ~Up(o) /\ Goes(c, [c EXCEPT !.pc = "spawn"])
        /\ status' = [status EXCEPT ![o] = "STARTING"]
  /\ KeepsRest /\ UNCHANGED <<made, nameOf, conf, alive, latest, due, calm>>

SpawnsChild(o) ==
  /\ latest[o] < MaxKids
  /\ latest' = [latest EXCEPT ![o] = latest[o] + 1]
  /\ alive' = [alive EXCEPT ![o] = alive[o] \cup {latest[o] + 1}]
  /\ UNCHANGED status

SpawnFails(o) ==
  /\ status' = [status EXCEPT ![o] = "FATAL"]
  /\ UNCHANGED <<latest, alive>>

Spawn(c) ==
  /\ c.pc = "spawn"
  /\ \/ SpawnsChild(c.obj) /\ Ends(c, "ok")
     \/ SpawnFails(c.obj) /\ Ends(c, "err")
  /\ KeepsRest /\ UNCHANGED <<made, nameOf, conf, due, calm>>

BeginStop(c) ==
  LET o == c.obj IN
  /\ c.pc = "stop"
  /\ \/ ~Up(o) /\ Ends(c, "err") /\ UNCHANGED status
     \/ /\ Up(o) /\ Goes(c, [c EXCEPT !.pc = "term"])
        /\ status' = [status EXCEPT ![o] = "STOPPING"]
  /\ KeepsRest /\ UNCHANGED <<made, nameOf, conf, alive, latest, due, calm>>

(* terminate(): a nil cmd is success, after which Restart waits for a child *)
(* that is still to be spawned, if it does not wait on New()'s channel.    *)
Terminate(c) ==
  LET o == c.obj IN
  /\ c.pc = "term"
  /\ \/ latest[o] = 0 /\ ~c.again /\ Ends(c, "ok")
     \/ /\ latest[o] # 0 \/ c.again
        /\ Goes(c, [c EXCEPT !.pc = "wait", !.child = latest[o]])
  /\ KeepsRest /\ UNCHANGED <<objVars, calm>>

(* The mutant reports a stop while the child dies.                         *)
StopEnds_NoWait(c) ==
  /\ c.pc = "wait"
  /\ IF c.again THEN Goes(c, Frame(c.by, c.obj, "start")) ELSE Ends(c, "ok")
  /\ KeepsRest /\ UNCHANGED <<objVars, calm>>

(* The child is gone.  An error: it went as it was to be killed, or, in    *)
(* Restart, too late or on a channel that nobody closes.                   *)
StopEnds(c) ==
  LET last == latest[c.obj] IN
  /\ c.pc = "wait" /\ c.child \notin alive[c.obj]
  /\ \/ /\ c.again /\ (c.child = 0 => last # 0 /\ last \notin alive[c.obj])
        /\ Goes(c, Frame(c.by, c.obj, "start"))
     \/ ~c.again /\ Ends(c, "ok")
     \/ Ends(c, "err")
  /\ KeepsRest /\ UNCHANGED <<objVars, calm>>

BeginRestart(c) ==
  /\ c.pc = "restart"
  /\ Goes(c, IF Up(c.obj) THEN [c EXCEPT !.pc = "stop", !.again = TRUE]
                          ELSE [c EXCEPT !.pc = "start"])
  /\ KeepsRest /\ UNCHANGED <<objVars, calm>>

(* The mutant overlooks a program that is STARTING, as Reload() does.      *)
RemoveLooks_RunningOnly(c) ==
  /\ c.pc = "remove"
  /\ IF status[c.obj] = "RUNNING" THEN Goes(c, [c EXCEPT !.pc = "stop"])
                                  ELSE Ends(c, "ok")
  /\ KeepsRest /\ UNCHANGED <<objVars, calm>>

(* RemoveProcess() after its Unlock reads the state, ...                   *)
RemoveLooks(c) ==
  /\ c.pc = "remove"
  /\ Goes(c, [c EXCEPT !.pc = IF status[c.obj] = "RUNNING" THEN "stop" ELSE "look"])
  /\ KeepsRest /\ UNCHANGED <<objVars, calm>>

(* ... and, like Shutdown(), when it was not RUNNING reads it once more.   *)
(* What was promoted in between is neither RUNNING for the first read nor  *)
(* STARTING for the second, and is passed over.                            *)
LooksAgain(c) ==
  LET o == c.obj IN
  /\ c.pc = "look"
  /\ IF status[o] = "STARTING" THEN Goes(c, [c EXCEPT !.pc = "stop"])
                               ELSE Ends(c, "ok")
  /\ calm' = (calm /\ status[o] # "RUNNING")
  /\ KeepsRest /\ UNCHANGED objVars

CallStep(c) ==
  \/ BeginStart(c) \/ Spawn(c) \/ BeginStop(c) \/ Terminate(c) \/ StopEnds(c)
  \/ BeginRestart(c) \/ RemoveLooks(c) \/ LooksAgain(c)

(* startsecs have passed.                                                  *)
Promote(o) ==
  /\ status[o] = "STARTING" /\ alive[o] # {}
  /\ status' = [status EXCEPT ![o] = "RUNNING"]
  /\ KeepsRest
  /\ UNCHANGED <<made, nameOf, conf, alive, latest, due, calls, opVars, calm>>

(* monitor(): child k has died, and what becomes of the object.  restarts  *)
(* stands for a policy and a budget that make the monitor respawn.         *)
Exits(o, k) ==
  /\ k \in alive[o]
  /\ alive' = [alive EXCEPT ![o] = alive[o] \ {k}]
  /\ \E to \in Statuses :
       /\ CASE status[o] = "STOPPING" -> to = "STOPPED"
            [] Up(o) -> to \in {"EXITED", "FATAL"}
                                 \cup IF conf[o].restarts THEN {"BACKOFF"} ELSE {}
            [] OTHER -> to = "EXITED"
       /\ status' = [status EXCEPT ![o] = to]
       /\ IF to \in {"BACKOFF", "EXITED"} /\ conf[o].restarts
          THEN due' = [due EXCEPT ![o] = due[o] + 1] /\ calm' = FALSE
          ELSE UNCHANGED <<due, calm>>
  /\ KeepsRest /\ UNCHANGED <<made, nameOf, conf, latest, calls, opVars>>

(* ... and its respawn, which looks at nothing.                            *)
Respawn(o) ==
  /\ due[o] > 0 /\ due' = [due EXCEPT ![o] = due[o] - 1]
  /\ SpawnsChild(o) \/ SpawnFails(o)
  /\ KeepsRest /\ UNCHANGED <<made, nameOf, conf, calls, opVars, calm>>

-----------------------------------------------------------------------------
(* Commands.                                                               *)

(* Nothing is under way and nothing will start or end by itself, unless a  *)
(* child dies; every child is that of a program one can still name.        *)
Settled ==
  /\ boot = "done" /\ calls = {} /\ sig = "none"
  /\ \A d \in Downs : down[d] = "none"
  /\ \A p \in Operators : opc[p] \in {"idle", "over"}
  /\ \A o \in Objects :
       due[o] = 0 /\ (alive[o] # {} => Up(o) /\ o \in Managed)

Takes(p, do) ==
  /\ opc[p] = "idle"
  /\ \E c \in Script[p] : c.do = do /\ doing' = [doing EXCEPT ![p] = c]

Begins(p, do) == Takes(p, do) /\ calm' = (calm /\ Settled)

Answers(p, value) ==
  /\ opc' = [opc EXCEPT ![p] = "over"] /\ reply' = [reply EXCEPT ![p] = value]

(* start, stop or restart of some names: none is an error.                 *)
Call(p) ==
  /\ \E do \in Calls : Begins(p, do)
  /\ rest' = [rest EXCEPT ![p] = doing'[p].names]
  /\ IF rest'[p] = <<>>
     THEN Answers(p, "err")
     ELSE opc' = [opc EXCEPT ![p] = "next"] /\ UNCHANGED reply
  /\ KeepsRest /\ UNCHANGED <<objVars, calls>>

(* StartProcess() and its like look the next name up.                      *)
NextName(p) ==
  LET n == Head(rest[p]) IN
  /\ opc[p] = "next"
  /\ IF n \in DOMAIN processes
     THEN /\ calls' = calls \cup {Frame(p, processes[n], doing[p].do)}
          /\ opc' = [opc EXCEPT ![p] = "call"] /\ UNCHANGED reply
     ELSE Answers(p, "err") /\ UNCHANGED calls
  /\ KeepsRest /\ UNCHANGED <<objVars, doing, rest, calm>>

(* Objects for the programs of f that have none: New() and, for what is to *)
(* start by itself, a goroutine.                                           *)
Makes(f) ==
  /\ made' = made + Cardinality(DOMAIN f) /\ made' <= MaxObjects
  /\ \E number \in [DOMAIN f -> (made + 1)..made'] :
       /\ \A m, n \in DOMAIN f : number[m] = number[n] => m = n
       /\ nameOf' = [o \in 1..made' |->
            IF o \in 1..made THEN nameOf[o]
                             ELSE CHOOSE n \in DOMAIN f : number[n] = o]

Autostarts == {Frame("go", o, "start") : o \in
                 {q \in (made + 1)..made' : conf'[q].auto}}

(* s.mu cannot be had for writing while Start() starts programs.           *)
Writable == boot # "starting"

AddProcess(p) ==
  /\ Writable /\ Begins(p, "add")
  /\ LET n == Head(doing'[p].names) IN
     IF n \in DOMAIN processes
     THEN Answers(p, "err") /\ UNCHANGED <<mapVars, made, nameOf, conf, calls>>
     ELSE \E c \in Confs :
       /\ Makes([m \in {n} |-> c])
       /\ conf' = [o \in 1..made' |-> IF o = made' THEN c ELSE conf[o]]
       /\ processes' = [m \in DOMAIN processes \cup {n} |->
                          IF m = n THEN made' ELSE processes[m]]
       /\ listed' = listed \cup {n}
       /\ calls' = calls \cup Autostarts
       /\ Answers(p, "ok")
  /\ UNCHANGED <<status, alive, latest, due, boot, todo, rest, downVars, sig,
                 endVars, marked>>

(* The mutant leaves the section in cfg.Programs.                          *)
Forget_NotListed(n) ==
  /\ processes' = [m \in DOMAIN processes \ {n} |-> processes[m]]
  /\ UNCHANGED listed

Forget(n) ==
  /\ processes' = [m \in DOMAIN processes \ {n} |-> processes[m]]
  /\ listed' = listed \ {n}

(* RemoveProcess(): forgets the object and then stops it.                  *)
RemoveProcess(p) ==
  /\ Writable /\ Begins(p, "remove")
  /\ rest' = [rest EXCEPT ![p] = doing'[p].names]
  /\ LET n == Head(doing'[p].names) IN
     IF n \in DOMAIN processes
     THEN /\ Forget(n)
          /\ calls' = calls \cup {Frame(p, processes[n], "remove")}
          /\ opc' = [opc EXCEPT ![p] = "call"] /\ UNCHANGED reply
     ELSE Answers(p, "err") /\ UNCHANGED <<mapVars, calls>>
  /\ UNCHANGED <<objVars, boot, todo, downVars, sig, endVars, marked>>

(* What f drops, and what of it Reload() stops: only what is RUNNING.      *)
Dropped(f)  == {processes[n] : n \in DOMAIN processes \ DOMAIN f}
DropStops(f) == {Frame("go", o, "stop") : o \in
                   {q \in Dropped(f) : status[q] = "RUNNING"}}

(* Reload() of a file that parses.                                         *)
Install(f) ==
  LET fresh == DOMAIN f \ DOMAIN processes IN
  /\ Writable
  /\ Makes([n \in fresh |-> f[n]])
  /\ processes' = [n \in DOMAIN f |->
       IF n \in fresh THEN CHOOSE o \in (made + 1)..made' : nameOf'[o] = n
                      ELSE processes[n]]
  /\ conf' = [o \in 1..made' |-> IF o > made \/ o \in Managed \ Dropped(f)
                                 THEN f[nameOf'[o]] ELSE conf[o]]
  /\ listed' = DOMAIN f
  /\ calls' = calls \cup Autostarts \cup DropStops(f)
  /\ UNCHANGED <<status, alive, latest, due>>

HasStarting(f) == \E o \in Dropped(f) : status[o] = "STARTING"

Reload(p) ==
  /\ Takes(p, "reload")
  /\ \/ \E f \in Files : /\ Install(f) /\ Answers(p, "ok")
                         /\ calm' = (calm /\ Settled /\ ~HasStarting(f))
     \/ /\ Answers(p, "err")                         \* it does not parse
        /\ calm' = (calm /\ Settled)
        /\ UNCHANGED <<mapVars, objVars, calls>>
  /\ UNCHANGED <<boot, todo, rest, downVars, sig, endVars, marked>>

-----------------------------------------------------------------------------
(* Shutdown(), by the goroutine d.                                         *)

Snapshot(d) ==
  /\ down' = [down EXCEPT ![d] = "looking"]
  /\ look' = [look EXCEPT ![d] = Managed]
  /\ marked' = marked \cup {m \in Managed \X Kids : m[2] \in alive[m[1]]}

(* The socket's handler answers at once.                                   *)
Shutdown(p) ==
  /\ Begins(p, "shutdown") /\ Snapshot(p) /\ Answers(p, "ok")
  /\ UNCHANGED <<mapVars, objVars, calls, boot, todo, rest, sig, endVars>>

(* The loop reads the state of the next program; if it is not RUNNING, the *)
(* second read comes before the program after it.                          *)
ShutdownLooks(d, o) ==
  /\ o \in look[d] /\ look' = [look EXCEPT ![d] = look[d] \ {o}]
  /\ \A c \in calls : c.by = d => c.pc # "look"
  /\ calls' = calls \cup
       {Frame(d, o, IF status[o] = "RUNNING" THEN "stop" ELSE "look")}
  /\ UNCHANGED <<mapVars, objVars, boot, todo, opVars, down, sig, endVars, calm,
                 marked>>

(* The first mutant does not wait, the second one never wakes main().      *)
ShutdownEnds_NoWait(d) ==
  /\ down[d] = "looking" /\ look[d] = {}
  /\ down' = [down EXCEPT ![d] = "over"] /\ cancelled' = TRUE
  /\ UNCHANGED <<mapVars, objVars, calls, boot, todo, opVars, look, sig, gone,
                 calm, marked>>


(* wg.Wait() and s.cancel().                                               *)
ShutdownEnds(d) ==
  /\ down[d] = "looking" /\ look[d] = {}
  /\ \A c \in calls : c.by # d
  /\ down' = [down EXCEPT ![d] = "over"] /\ cancelled' = TRUE
  /\ UNCHANGED <<mapVars, objVars, calls, boot, todo, opVars, look, sig, gone,
                 calm, marked>>

-----------------------------------------------------------------------------
(* Signals: until Start() has installed its handler they kill the daemon;  *)
(* then the channel has room for one.                                      *)
Kill(p) ==
  /\ \E s \in Signals :
       /\ Begins(p, s)
       /\ gone' = (boot # "done")
       /\ sig' = IF boot = "done" /\ sig = "none" THEN s ELSE sig
  /\ Answers(p, "none")
  /\ UNCHANGED <<mapVars, objVars, calls, boot, todo, rest, downVars, cancelled,
                 marked>>

Listening == boot = "done" /\ down["signal"] = "none"

SignalReload ==
  /\ Listening /\ sig = "hup" /\ sig' = "none"
  /\ \/ \E f \in Files : Install(f) /\ calm' = (calm /\ ~HasStarting(f))
     \/ UNCHANGED <<mapVars, objVars, calls, calm>>  \* it does not parse
  /\ UNCHANGED <<boot, todo, opVars, downVars, endVars, marked>>

SignalShutdown ==
  /\ Listening /\ sig = "term" /\ sig' = "none"
  /\ Snapshot("signal")
  /\ UNCHANGED <<mapVars, objVars, calls, boot, todo, opVars, endVars, calm>>

-----------------------------------------------------------------------------
(* main(): Start(), with s.mu held for reading, and Wait().                *)
BootBegins ==
  /\ boot = "new" /\ boot' = "starting"
  /\ todo' = {o \in Managed : conf[o].auto}
  /\ UNCHANGED <<mapVars, objVars, calls, opVars, downVars, sig, endVars, calm,
                 marked>>

(* The mutant sorts the other way round.                                   *)
BootStarts_HighestFirst(o) ==
  /\ boot = "starting" /\ \A c \in calls : c.by # "boot"
  /\ o \in todo /\ \A q \in todo : conf[q].prio <= conf[o].prio
  /\ todo' = todo \ {o}
  /\ calls' = calls \cup {Frame("boot", o, "start")}
  /\ UNCHANGED <<mapVars, objVars, boot, opVars, downVars, sig, endVars, calm,
                 marked>>

(* One after the other, the lowest priority first.                         *)
BootStarts(o) ==
  /\ boot = "starting" /\ \A c \in calls : c.by # "boot"
  /\ o \in todo /\ \A q \in todo : conf[o].prio <= conf[q].prio
  /\ todo' = todo \ {o}
  /\ calls' = calls \cup {Frame("boot", o, "start")}
  /\ UNCHANGED <<mapVars, objVars, boot, opVars, downVars, sig, endVars, calm,
                 marked>>

BootEnds ==
  /\ boot = "starting" /\ todo = {} /\ \A c \in calls : c.by # "boot"
  /\ boot' = "done"
  /\ UNCHANGED <<mapVars, objVars, calls, todo, opVars, downVars, sig, endVars,
                 calm, marked>>

(* The daemon ends; its children, in their own process groups, do not.     *)
Exit ==
  /\ boot = "done" /\ cancelled /\ gone' = TRUE
  /\ UNCHANGED <<mapVars, objVars, calls, boot, todo, opVars, downVars, sig,
                 cancelled, calm, marked>>

OperatorStep(p) ==
  \/ Call(p) \/ AddProcess(p) \/ RemoveProcess(p) \/ Reload(p) \/ Shutdown(p)
  \/ Kill(p)

(* What the goroutines of the daemon do by themselves, once asked to.      *)
Goroutines ==
  \/ \E p \in Operators : NextName(p)
  \/ \E c \in calls : CallStep(c)
  \/ BootBegins \/ BootEnds \/ \E o \in Objects : BootStarts(o)
  \/ \E d \in Downs : ShutdownEnds(d) \/ \E o \in Objects : ShutdownLooks(d, o)
  \/ SignalReload \/ SignalShutdown \/ Exit

Next ==
  /\ ~gone
  /\ \/ \E p \in Operators : OperatorStep(p)
     \/ Goroutines
     \/ \E o \in Objects : Promote(o) \/ Respawn(o)
     \/ \E o \in Objects, k \in Kids : Exits(o, k)

Spec == Init /\ [][Next]_vars

(* Goroutines that can run do, and a child whose Stop is waited for dies   *)
(* at last, by SIGKILL.  Finitely many commands make finitely many steps   *)
(* of the first kind, so one condition for all of them is enough.  Nobody  *)
(* owes us a command, a respawn or any other death.                        *)
Fairness ==
  /\ WF_vars(~gone /\ Goroutines)
  /\ WF_vars(~gone /\ \E c \in calls : c.pc = "wait" /\ Exits(c.obj, c.child))

FairSpec == Spec /\ Fairness

-----------------------------------------------------------------------------
(* Properties.  calm: no command was given before everything before it was *)
(* over, no autostart, signal or Shutdown included, nothing was restarted  *)
(* automatically, no reload dropped a program that was STARTING, and no    *)
(* promotion fell between the two reads that RemoveProcess() or Shutdown() *)
(* makes of one program's state.                                           *)

Nobody == \A o \in Objects : alive[o] = {}

(* supervisor.go:198-199: a Shutdown in a calm daemon leaves nothing       *)
(* running, whether asked for over the socket or by a signal, whatever     *)
(* dies meanwhile and whatever gets promoted, unless between two reads.    *)
ShutdownIsComplete == calm /\ cancelled /\ gone => Nobody

(* What monitor() has respawned, and shows BACKOFF or EXITED for good      *)
(* (process.go:426-438), does not outlive the daemon either                *)
(* (supervisor.go:198: "Shutdown stops everything in parallel").           *)
ShutdownStopsRespawned ==
  cancelled /\ gone => \A m \in marked :
    status[m[1]] \in {"BACKOFF", "EXITED"} => m[2] \notin alive[m[1]]

(* In a calm daemon a program that was removed, by RemoveProcess or by a   *)
(* reload, runs only as long as somebody is about to stop it or waits for  *)
(* its end (supervisor.go:391: "stops the process (if it's up) and         *)
(* forgets").                                                              *)
RemovedIsGone ==
  calm => \A o \in Objects : alive[o] # {} =>
    \/ o \in Managed
    \/ \E c \in calls :
         c.obj = o /\ c.pc \in {"remove", "look", "stop", "term", "wait"}

(* "stopped: a, b" is said only when neither has a child.                  *)
RepliesAreTrue ==
  [][\A p \in Operators :
       calm /\ opc[p] = "call" /\ opc'[p] = "over" /\ reply'[p] = "ok"
            /\ doing[p].do = "stop"
         => \A o \in 1..made :
              nameOf[o] \in {doing[p].names[i] : i \in DOMAIN doing[p].names}
                => alive'[o] = {}]_vars

(* It has or had a child, failed to get one, or somebody's Start() is      *)
(* about to spawn it.                                                      *)
Spawned(o) == latest[o] > 0 \/ status[o] = "FATAL"
Begun(o)   == Spawned(o) \/ \E c \in calls : c.obj = o /\ c.pc = "spawn"

(* Of the programs that main() starts by itself, what o has to wait for.   *)
Before(o) == {q \in Managed : conf[q].auto /\ conf[q].prio < conf[o].prio}

(* supervisor.go:412-416, "your DB before your app": whatever clients do   *)
(* meanwhile, the boot spawns nothing before all that comes before it has  *)
(* begun.  Not more: a client's Start() that has not spawned yet makes the *)
(* boot's own an error, after which the boot goes on.                      *)
BootInOrder ==
  \A c \in calls : c.by = "boot" /\ c.pc = "spawn" =>
    \A q \in Before(c.obj) : Begun(q)

=============================================================================
