------------------------------- MODULE Control -------------------------------
(***************************************************************************)
(* The daemon as others see it: cmd/direktord/main.go, the listeners of    *)
(* internal/ipc and internal/web, the PID file that Supervisor.Start       *)
(* writes, and their clients: direktorctl over the socket, browsers over   *)
(* HTTP.  What a command does to programs is in module Supervisor; here it *)
(* takes its time or has none to take.                                     *)
(*                                                                         *)
(* A daemon may be killed at any moment, and then leaves its files behind; *)
(* a new one may be launched at any moment, also beside a live one.        *)
(***************************************************************************)
EXTENDS Naturals

CONSTANTS
  Daemons,      \* launches of direktord with one configuration, in order
  Calls         \* requests, each made once: a retry is another one

ASSUME ControlAssumption == Daemons \subseteq Nat \ {0} /\ "signal" \notin Calls

VARIABLES
  at,           \* main() of each daemon
  halts,        \* calls of Supervisor.Shutdown under way
  cancelled,    \* daemons whose ctx is cancelled
  socket,       \* the socket file: who bound it, 0 if there is none
  listening,    \* daemons that accept connections on a socket they bound
  port,         \* who listens for HTTP, or 0
  pidfile,      \* whose PID the file holds, 0 if there is none
  call,         \* the requests
  alone,        \* history: those not killed that no other one has overlapped
  early         \* history: those asked to shut down before Start() returned

files == <<socket, port, pidfile>>
vars == <<at, halts, cancelled, files, listening, call, alone, early>>

Over  == {"off", "failed", "exited", "dead"}
Phase == Over \cup {"remove", "listen", "web", "pid", "boot", "wait", "drain",
                    "close", "cleanup", "exit"}
Up(d) == at[d] \notin Over

Idle     == [stage |-> "none", door |-> "socket", to |-> 0]
Finished == [Idle EXCEPT !.stage = "over"]
Stages   == {"none", "queued", "working", "over"}
Call     == [stage : Stages, door : {"socket", "web"}, to : Daemons \cup {0}]
Halt     == [of : Daemons, by : Calls \cup {"signal"}, pc : {"stopping", "cancel"}]

TypeOK ==
  /\ at \in [Daemons -> Phase] /\ call \in [Calls -> Call]
  /\ halts \subseteq Halt
  /\ cancelled \subseteq Daemons /\ listening \subseteq Daemons
  /\ socket \in Daemons \cup {0} /\ port \in Daemons \cup {0}
  /\ pidfile \in Daemons \cup {0}
  /\ alone \subseteq Daemons /\ early \subseteq Daemons

Init ==
  /\ at = [d \in Daemons |-> "off"] /\ call = [c \in Calls |-> Idle]
  /\ halts = {} /\ cancelled = {} /\ listening = {}
  /\ socket = 0 /\ port = 0 /\ pidfile = 0
  /\ alone = {} /\ early = {}

Goes(d, from, to) == at[d] = from /\ at' = [at EXCEPT ![d] = to]

-----------------------------------------------------------------------------
(* main().                                                                 *)

Launch(d) ==
  /\ Goes(d, "off", "remove") /\ \A e \in Daemons : e < d => at[e] # "off"
  /\ alone' = {e \in alone : ~Up(e)} \cup {e \in {d} : \A x \in Daemons : ~Up(x)}
  /\ UNCHANGED <<halts, cancelled, files, listening, call, early>>

(* Variant: the file is left for Listen to trip over.                      *)
RemoveStale_Skips(d) ==
  /\ Goes(d, "remove", "listen")
  /\ UNCHANGED <<halts, cancelled, files, listening, call, alone, early>>

(* createListener(): whatever is at the path goes, ...                     *)
RemoveStale(d) ==
  /\ Goes(d, "remove", "listen") /\ socket' = 0
  /\ UNCHANGED <<halts, cancelled, port, pidfile, listening, call, alone, early>>

(* ... but if there is something again, the daemon gives up.               *)
Listen(d) ==
  /\ \/ /\ socket = 0 /\ Goes(d, "listen", "web")
        /\ socket' = d /\ listening' = listening \cup {d}
     \/ /\ socket # 0 /\ Goes(d, "listen", "failed")
        /\ UNCHANGED <<socket, listening>>
  /\ UNCHANGED <<halts, cancelled, port, pidfile, call, alone, early>>

(* A port that is taken is not fatal.                                      *)
StartWeb(d) ==
  /\ Goes(d, "web", "pid")
  /\ port' = IF port = 0 THEN d ELSE port
  /\ UNCHANGED <<halts, cancelled, socket, pidfile, listening, call, alone, early>>

(* Start(): the PID file; that it cannot be written is not fatal either.   *)
WritePid(d) ==
  /\ Goes(d, "pid", "boot")
  /\ pidfile' \in {d, pidfile}
  /\ UNCHANGED <<halts, cancelled, socket, port, listening, call, alone, early>>

(* The programs are started and the signal handler is installed.           *)
Boot(d) ==
  /\ Goes(d, "boot", "wait")
  /\ UNCHANGED <<halts, cancelled, files, listening, call, alone, early>>

(* Calls to d by the door and at the stages given lose their connection.   *)
Cut(d, doors, stages) ==
  call' = [c \in Calls |->
    IF call[c].to = d /\ call[c].door \in doors /\ call[c].stage \in stages
    THEN Finished ELSE call[c]]

(* Wait() returns; the deferred Stop()s, the web server's first: it closes *)
(* its listener and drains.                                                *)
Wake(d) ==
  /\ d \in cancelled /\ Goes(d, "wait", IF port = d THEN "drain" ELSE "close")
  /\ port' = IF port = d THEN 0 ELSE port
  /\ Cut(d, {"web"}, {"queued"})
  /\ UNCHANGED <<halts, cancelled, socket, pidfile, listening, alone, early>>

(* Variant: there is no limit to the draining.                             *)
Drained_Patiently(d) ==
  /\ Goes(d, "drain", "close")
  /\ \A c \in Calls : call[c].to # d \/ call[c].door # "web"
  /\ UNCHANGED <<halts, cancelled, files, listening, call, alone, early>>

(* The requests in flight are over, or ten seconds are.                    *)
Drained(d) ==
  /\ Goes(d, "drain", "close")
  /\ UNCHANGED <<halts, cancelled, files, listening, call, alone, early>>

(* ipcServer.Stop(): Close unlinks the path that was bound, then           *)
(* cleanupListener does, each whatever is there now.                       *)
CloseListener(d) ==
  /\ Goes(d, "close", "cleanup")
  /\ socket' = 0 /\ listening' = listening \ {d}
  /\ Cut(d, {"socket"}, {"queued"})
  /\ UNCHANGED <<halts, cancelled, port, pidfile, alone, early>>

Cleanup(d) ==
  /\ Goes(d, "cleanup", "exit") /\ socket' = 0
  /\ UNCHANGED <<halts, cancelled, port, pidfile, listening, call, alone, early>>

Ends(d) ==
  /\ Cut(d, {"socket", "web"}, Stages)
  /\ halts' = {h \in halts : h.of # d} /\ cancelled' = cancelled \ {d}
  /\ UNCHANGED <<socket, pidfile>>

(* main() returns, whatever other goroutines are doing.                    *)
Exit(d) ==
  /\ Goes(d, "exit", "exited") /\ Ends(d)
  /\ UNCHANGED <<port, listening, alone, early>>

(* SIGKILL, a panic, or SIGTERM before there is a handler for it.          *)
Dies(d) ==
  /\ Up(d) /\ at' = [at EXCEPT ![d] = "dead"] /\ Ends(d)
  /\ listening' = listening \ {d} /\ port' = IF port = d THEN 0 ELSE port
  /\ alone' = alone \ {d} /\ early' = early \ {d}

-----------------------------------------------------------------------------
(* Supervisor.Shutdown(), on a goroutine of its own.                       *)

Begins(d, who) ==
  /\ halts' = halts \cup {[of |-> d, by |-> who, pc |-> "stopping"]}
  /\ early' = IF at[d] = "wait" THEN early ELSE early \cup {d}

(* The signal goroutine takes one SIGTERM and ends with ctx.               *)
Term(d) ==
  /\ at[d] = "wait" /\ d \notin cancelled
  /\ \A h \in halts : h.of = d => h.by # "signal"
  /\ Begins(d, "signal")
  /\ UNCHANGED <<at, cancelled, files, listening, call, alone>>

Moves(h, pc) == h \in halts /\ halts' = (halts \ {h}) \cup {[h EXCEPT !.pc = pc]}

(* The programs are down: the PID file goes, whoever wrote it, ...         *)
RemovePid(h) ==
  /\ h.pc = "stopping" /\ Moves(h, "cancel") /\ pidfile' = 0
  /\ UNCHANGED <<at, cancelled, socket, port, listening, call, alone, early>>

(* ... and main() is woken.                                                *)
Cancel(h) ==
  /\ h.pc = "cancel" /\ h \in halts /\ halts' = halts \ {h}
  /\ cancelled' = cancelled \cup {h.of}
  /\ UNCHANGED <<at, files, listening, call, alone, early>>

-----------------------------------------------------------------------------
(* Requests.                                                               *)

Rest == UNCHANGED <<at, halts, cancelled, files, listening, alone, early>>

(* Dial(): refused, or a place in the backlog.                             *)
Dial(c) ==
  /\ call[c].stage = "none"
  /\ \E door \in {"socket", "web"} :
       LET there == IF door = "web" THEN port
                    ELSE IF socket \in listening THEN socket ELSE 0
       IN call' = [call EXCEPT ![c] =
            IF there = 0 THEN Finished
            ELSE [stage |-> "queued", door |-> door, to |-> there]]
  /\ Rest

(* Variant: acceptLoop() without the go.                                   *)
Accept_InTurn(c) ==
  /\ call[c].stage = "queued"
  /\ \A e \in Calls : call[e].to = call[c].to => call[e].stage # "working"
  /\ call' = [call EXCEPT ![c].stage = "working"] /\ Rest

(* acceptLoop(), Serve(): each connection gets a goroutine for its handler.*)
Accept(c) ==
  /\ call[c].stage = "queued"
  /\ call' = [call EXCEPT ![c].stage = "working"] /\ Rest

Answers(c) ==
  call[c].stage = "working" /\ call' = [call EXCEPT ![c] = Finished]

(* What the handler asked of the Supervisor ends, if it does, or it had    *)
(* nothing to ask: a status, or what is malformed, unknown, not authorised.*)
Finish(c) == Answers(c) /\ Rest

(* "shutdown", which only the socket knows, is answered at once.           *)
AskShutdown(c) ==
  /\ call[c].door = "socket" /\ Answers(c) /\ Begins(call[c].to, c)
  /\ UNCHANGED <<at, cancelled, files, listening, alone>>

-----------------------------------------------------------------------------
Main(d) ==
  \/ RemoveStale(d) \/ Listen(d) \/ StartWeb(d) \/ WritePid(d) \/ Boot(d)
  \/ Wake(d) \/ Drained(d) \/ CloseListener(d) \/ Cleanup(d) \/ Exit(d)

(* Variant: main() is woken before the PID file goes.                      *)
Shutdown_WakesFirst(h) ==
  /\ \/ /\ h.pc = "stopping" /\ Moves(h, "cancel")
        /\ cancelled' = cancelled \cup {h.of} /\ UNCHANGED pidfile
     \/ /\ h.pc = "cancel" /\ h \in halts /\ halts' = halts \ {h}
        /\ pidfile' = 0 /\ UNCHANGED cancelled
  /\ UNCHANGED <<at, socket, port, listening, call, alone, early>>

Shutdown(h) == RemovePid(h) \/ Cancel(h)

Next ==
  \/ \E d \in Daemons : Launch(d) \/ Main(d) \/ Dies(d) \/ Term(d)
  \/ \E h \in halts : Shutdown(h)
  \/ \E c \in Calls : Dial(c) \/ Accept(c) \/ AskShutdown(c) \/ Finish(c)

Spec == Init /\ [][Next]_vars

(* Goroutines that can go on do.  They make finitely many steps, so one    *)
(* condition for all of them is enough.  Nobody owes us a launch, a request*)
(* or a death, and a handler's call may never end (Finish), but a Shutdown *)
(* does: see ShutdownEndsDaemon in Supervisor.                             *)
Goroutines ==
  \/ \E d \in Daemons : Main(d)
  \/ \E h \in halts : Shutdown(h)
  \/ \E c \in Calls : Accept(c)

FairSpec == Spec /\ WF_vars(Goroutines)

-----------------------------------------------------------------------------
(* Properties.                                                             *)

(* A daemon that has always been the only one gets its socket and its port,*)
(* however earlier ones have ended, and whoever dials reaches it until it  *)
(* is told to stop (ipc_unix.go:14-17, main.go:57-59).                     *)
LoneDaemonServes ==
  \A d \in alone :
    /\ at[d] # "failed"
    /\ at[d] \in {"web", "pid", "boot", "wait"} => socket = d /\ d \in listening
    /\ at[d] \in {"pid", "boot", "wait"} => port = d

(* A daemon that was shut down once it was up leaves neither its socket nor *)
(* its PID in the file, even with another one beside it (ipc.Server.Stop and*)
(* Shutdown's "clean up if we wrote one").                                 *)
TidyExit ==
  \A d \in Daemons \ early :
    at[d] = "exited" => socket # d /\ pidfile # d

(* A Shutdown, by socket or signal and at any moment of the boot, ends the *)
(* daemon, whatever its web clients still wait for (server.go:102-103).    *)
ShutdownEnds ==
  \A d \in Daemons : (\E h \in halts : h.of = d) ~> ~Up(d)

(* A connection is served, or cut: none is left waiting behind another     *)
(* one's work (server.go:92).                                              *)
CallsAreServed ==
  \A c \in Calls : call[c].stage = "queued" ~> call[c].stage # "queued"
=============================================================================
