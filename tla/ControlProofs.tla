---------------------------- MODULE ControlProofs ----------------------------
(***************************************************************************)
(* Proofs about module Control, for any number of launches and requests.   *)
(***************************************************************************)
EXTENDS Control, TLAPS

(* A request that somebody has is some daemon's.                           *)
Addressed ==
  \A c \in Calls :
    call[c].stage \in {"queued", "working"} => call[c].to \in Daemons

TypeInv == TypeOK /\ Addressed

(* What main() has opened it closes before it ends, or never has.          *)
Closed ==
  \A d \in Daemons :
    at[d] \in {"off", "remove", "listen", "failed", "cleanup", "exit", "exited"}
      => socket # d

(* Whoever has the port is past StartWeb and not yet told to stop.         *)
PortHeld == port # 0 => at[port] \in {"pid", "boot", "wait"}

(* A daemon that no other has overlapped: while it is up, nobody else is,  *)
(* so that what it has done to the files still stands.                     *)
Lone ==
  \A d \in alone :
    /\ at[d] \notin {"off", "failed", "dead"}
    /\ Up(d) => \A e \in Daemons : Up(e) => e = d
    /\ at[d] = "listen" => socket = 0
    /\ at[d] \in {"web", "pid", "boot", "wait"} => socket = d /\ d \in listening
    /\ at[d] \in {"pid", "boot", "wait"} => port = d

(* A Shutdown that found the daemon up runs after the PID was written, and *)
(* removes it before it wakes main().                                      *)
Told(d) == d \in cancelled \/ \E h \in halts : h.of = d

PidIsGone(d) ==
  \/ d \in cancelled
  \/ \E h \in halts : h.of = d /\ h.pc = "cancel"
  \/ at[d] \in {"drain", "close", "cleanup", "exit", "exited"}

Tidy ==
  \A d \in Daemons \ early :
    /\ Told(d) => at[d] \in {"wait", "drain", "close", "cleanup", "exit"}
    /\ PidIsGone(d) => pidfile # d

-----------------------------------------------------------------------------
(* Types.                                                                  *)

LEMMA CutTyped ==
  ASSUME TypeInv, NEW d, NEW doors, NEW stages, Cut(d, doors, stages)
  PROVE  call' \in [Calls -> Call] /\ Addressed'
BY DEF TypeInv, TypeOK, Addressed, Cut, Call, Finished, Idle, Stages

LEMMA MainTyped ==
  ASSUME TypeInv, NEW d \in Daemons, Main(d)
  PROVE  TypeInv'
<1> USE DEF TypeInv, TypeOK, Goes, files, Phase, Over
<1>1. CASE RemoveStale(d)
  BY <1>1 DEF RemoveStale, Addressed
<1>2. CASE Listen(d)
  BY <1>2 DEF Listen, Addressed
<1>3. CASE StartWeb(d)
  BY <1>3 DEF StartWeb, Addressed
<1>4. CASE WritePid(d)
  BY <1>4 DEF WritePid, Addressed
<1>5. CASE Boot(d)
  BY <1>5 DEF Boot, Addressed
<1>6. CASE Wake(d)
  BY <1>6, CutTyped DEF Wake
<1>7. CASE Drained(d)
  BY <1>7 DEF Drained, Addressed
<1>8. CASE CloseListener(d)
  BY <1>8, CutTyped DEF CloseListener
<1>9. CASE Cleanup(d)
  BY <1>9 DEF Cleanup, Addressed
<1>10. CASE Exit(d)
  BY <1>10, CutTyped DEF Exit, Ends
<1> QED
  BY <1>1, <1>2, <1>3, <1>4, <1>5, <1>6, <1>7, <1>8, <1>9, <1>10 DEF Main

LEMMA ShutdownTyped ==
  ASSUME TypeInv, NEW h \in halts, Shutdown(h)
  PROVE  TypeInv'
<1> USE DEF TypeInv, TypeOK, files, Addressed
<1>1. h \in Halt
  OBVIOUS
<1>2. CASE RemovePid(h)
  BY <1>1, <1>2 DEF RemovePid, Moves, Halt
<1>3. CASE Cancel(h)
  BY <1>1, <1>3 DEF Cancel, Halt
<1> QED
  BY <1>2, <1>3 DEF Shutdown

LEMMA CallTyped ==
  ASSUME TypeInv, NEW c \in Calls, Dial(c) \/ Accept(c) \/ AskShutdown(c) \/ Finish(c)
  PROVE  TypeInv'
<1> USE DEF TypeInv, TypeOK, files, Rest
<1>1. call[c] \in Call
  OBVIOUS
<1>2. CASE Dial(c)
  BY <1>1, <1>2, ControlAssumption
  DEF Dial, Addressed, Call, Finished, Idle, Stages
<1>3. CASE Accept(c)
  BY <1>1, <1>3 DEF Accept, Addressed, Call, Stages
<1>4. CASE AskShutdown(c)
  <2>1. call' \in [Calls -> Call] /\ Addressed'
    BY <1>1, <1>4 DEF AskShutdown, Answers, Addressed, Call, Finished, Idle, Stages
  <2>2. call[c].to \in Daemons
    BY <1>4 DEF AskShutdown, Answers, Addressed
  <2> QED
    BY <1>4, <2>1, <2>2 DEF AskShutdown, Begins, Halt
<1>5. CASE Finish(c)
  BY <1>1, <1>5 DEF Finish, Answers, Addressed, Call, Finished, Idle, Stages
<1> QED
  BY <1>2, <1>3, <1>4, <1>5

LEMMA TypeStep ==
  ASSUME TypeInv, [Next]_vars
  PROVE  TypeInv'
<1>1. CASE UNCHANGED vars
  BY <1>1 DEF vars, files, TypeInv, TypeOK, Addressed
<1>2. ASSUME NEW d \in Daemons, Launch(d)
      PROVE  TypeInv'
  BY <1>2 DEF Launch, Goes, files, TypeInv, TypeOK, Addressed, Phase, Over
<1>3. ASSUME NEW d \in Daemons, Dies(d)
      PROVE  TypeInv'
  BY <1>3, CutTyped DEF Dies, Ends, TypeInv, TypeOK, Phase, Over
<1>4. ASSUME NEW d \in Daemons, Term(d)
      PROVE  TypeInv'
  BY <1>4 DEF Term, Begins, files, TypeInv, TypeOK, Addressed, Halt
<1> QED
  BY <1>1, <1>2, <1>3, <1>4, MainTyped, ShutdownTyped, CallTyped DEF Next

LEMMA TypeInit ==
  Init => TypeInv
BY DEF Init, TypeInv, TypeOK, Addressed, Call, Idle, Stages, Phase, Over

(* Every state is well typed, whatever daemons and clients do.             *)
THEOREM TypeCorrect == Spec => []TypeOK
<1>1. TypeInv => TypeOK
  BY DEF TypeInv
<1> QED
  BY <1>1, TypeInit, TypeStep, PTL DEF Spec

-----------------------------------------------------------------------------
(* What a call does touches none of the files.                             *)
LEMMA CallsLeaveFiles ==
  ASSUME NEW c \in Calls, Dial(c) \/ Accept(c) \/ AskShutdown(c) \/ Finish(c)
  PROVE  UNCHANGED <<at, cancelled, socket, port, pidfile, listening, alone>>
BY DEF Dial, Accept, AskShutdown, Finish, Rest, files

-----------------------------------------------------------------------------
(* Socket and port.                                                        *)

LEMMA ClosedStep ==
  ASSUME TypeInv, Closed, [Next]_vars
  PROVE  Closed'
<1> USE DEF TypeInv, TypeOK, Closed, Goes, files
<1>1. CASE UNCHANGED vars
  BY <1>1 DEF vars
<1>2. ASSUME NEW d \in Daemons, Launch(d)
      PROVE  Closed'
  BY <1>2 DEF Launch
<1>3. ASSUME NEW d \in Daemons, Main(d)
      PROVE  Closed'
  <2>1. CASE Listen(d)
    BY <2>1 DEF Listen
  <2>2. CASE RemoveStale(d) \/ CloseListener(d) \/ Cleanup(d)
    BY <2>2, ControlAssumption DEF RemoveStale, CloseListener, Cleanup
  <2>3. CASE StartWeb(d) \/ WritePid(d) \/ Boot(d) \/ Wake(d) \/ Drained(d)
    BY <2>3 DEF StartWeb, WritePid, Boot, Wake, Drained
  <2>4. CASE Exit(d)
    BY <2>4 DEF Exit, Ends
  <2> QED
    BY <1>3, <2>1, <2>2, <2>3, <2>4 DEF Main
<1>4. ASSUME NEW d \in Daemons, Dies(d)
      PROVE  Closed'
  BY <1>4 DEF Dies, Ends
<1>5. ASSUME NEW d \in Daemons, Term(d)
      PROVE  Closed'
  BY <1>5 DEF Term, Begins
<1>6. ASSUME NEW h \in halts, Shutdown(h)
      PROVE  Closed'
  BY <1>6 DEF Shutdown, RemovePid, Cancel
<1> QED
  BY <1>1, <1>2, <1>3, <1>4, <1>5, <1>6, CallsLeaveFiles DEF Next

LEMMA PortStep ==
  ASSUME TypeInv, PortHeld, [Next]_vars
  PROVE  PortHeld'
<1> USE DEF TypeInv, TypeOK, PortHeld, Goes, files
<1>1. CASE UNCHANGED vars
  BY <1>1 DEF vars
<1>2. ASSUME NEW d \in Daemons, Launch(d)
      PROVE  PortHeld'
  BY <1>2 DEF Launch
<1>3. ASSUME NEW d \in Daemons, Main(d)
      PROVE  PortHeld'
  BY <1>3 DEF Main, RemoveStale, Listen, StartWeb, WritePid, Boot, Wake, Drained,
              CloseListener, Cleanup, Exit, Ends
<1>4. ASSUME NEW d \in Daemons, Dies(d)
      PROVE  PortHeld'
  BY <1>4 DEF Dies, Ends
<1>5. ASSUME NEW d \in Daemons, Term(d)
      PROVE  PortHeld'
  BY <1>5 DEF Term, Begins
<1>6. ASSUME NEW h \in halts, Shutdown(h)
      PROVE  PortHeld'
  BY <1>6 DEF Shutdown, RemovePid, Cancel
<1> QED
  BY <1>1, <1>2, <1>3, <1>4, <1>5, <1>6, CallsLeaveFiles DEF Next

-----------------------------------------------------------------------------
(* The lone daemon.                                                        *)

(* main() of a daemon that is up is the only one there is, if one daemon   *)
(* is alone and up.                                                        *)
LEMMA OnlyMain ==
  ASSUME TypeInv, Lone, NEW d \in alone, Up(d), NEW e \in Daemons, Main(e)
  PROVE  e = d
<1>1. Up(e)
  BY DEF Main, RemoveStale, Listen, StartWeb, WritePid, Boot, Wake, Drained,
         CloseListener, Cleanup, Exit, Goes, Up, Over
<1> QED
  BY <1>1 DEF Lone

LEMMA LoneMain ==
  ASSUME TypeInv, PortHeld, Lone, NEW e \in Daemons, Main(e)
  PROVE  Lone'
<1> USE DEF TypeInv, TypeOK, Goes, files, Up, Over
<1>1. alone' = alone /\ (\A d \in Daemons : Up(d)' => Up(d))
  BY DEF Main, RemoveStale, Listen, StartWeb, WritePid, Boot, Wake, Drained,
         CloseListener, Cleanup, Exit, Ends
<1>2. ASSUME NEW d \in alone, Up(d)
      PROVE  /\ at[d]' \notin {"off", "failed", "dead"}
             /\ at[d]' = "listen" => socket' = 0
             /\ at[d]' \in {"web", "pid", "boot", "wait"}
                  => socket' = d /\ d \in listening'
             /\ at[d]' \in {"pid", "boot", "wait"} => port' = d
  <2>1. e = d
    BY <1>2, OnlyMain
  <2>2. at[d] = "web" => port = 0
    BY <1>2 DEF PortHeld, Lone
  <2> QED
    BY <1>2, <2>1, <2>2
    DEF Main, RemoveStale, Listen, StartWeb, WritePid, Boot, Wake, Drained,
        CloseListener, Cleanup, Exit, Ends, Lone
<1>3. ASSUME NEW d \in alone, ~Up(d)
      PROVE  at[d]' = at[d]
  BY <1>3 DEF Main, RemoveStale, Listen, StartWeb, WritePid, Boot, Wake, Drained,
              CloseListener, Cleanup, Exit, Ends
<1> QED
  BY <1>1, <1>2, <1>3 DEF Lone

LEMMA LoneStep ==
  ASSUME TypeInv, PortHeld, Lone, [Next]_vars
  PROVE  Lone'
<1> USE DEF TypeInv, TypeOK, Goes, files, Up, Over
<1>1. CASE UNCHANGED vars
  BY <1>1 DEF vars, Lone
<1>2. ASSUME NEW d \in Daemons, Launch(d)
      PROVE  Lone'
  BY <1>2 DEF Launch, Lone
<1>3. ASSUME NEW d \in Daemons, Dies(d)
      PROVE  Lone'
  BY <1>3 DEF Dies, Ends, Lone
<1>4. ASSUME NEW d \in Daemons, Term(d)
      PROVE  Lone'
  BY <1>4 DEF Term, Begins, Lone
<1>5. ASSUME NEW h \in halts, Shutdown(h)
      PROVE  Lone'
  BY <1>5 DEF Shutdown, RemovePid, Cancel, Lone
<1>6. ASSUME NEW c \in Calls, Dial(c) \/ Accept(c) \/ AskShutdown(c) \/ Finish(c)
      PROVE  Lone'
  BY <1>6, CallsLeaveFiles DEF Lone
<1> QED
  BY <1>1, <1>2, <1>3, <1>4, <1>5, <1>6, LoneMain DEF Next

-----------------------------------------------------------------------------
(* The PID file.                                                           *)

LEMMA TidyMain ==
  ASSUME TypeInv, Tidy, NEW e \in Daemons, Main(e)
  PROVE  Tidy'
<1> USE DEF TypeInv, TypeOK, Goes, files, Tidy, Told, PidIsGone
<1>1. CASE RemoveStale(e)
  BY <1>1 DEF RemoveStale
<1>2. CASE Listen(e)
  BY <1>2 DEF Listen
<1>3. CASE StartWeb(e)
  BY <1>3 DEF StartWeb
<1>4. CASE WritePid(e)
  BY <1>4 DEF WritePid
<1>5. CASE Boot(e)
  BY <1>5 DEF Boot
<1>6. CASE Wake(e)
  BY <1>6 DEF Wake
<1>7. CASE Drained(e)
  BY <1>7 DEF Drained
<1>8. CASE CloseListener(e)
  BY <1>8 DEF CloseListener
<1>9. CASE Cleanup(e)
  BY <1>9 DEF Cleanup
<1>10. CASE Exit(e)
  <2>1. ~Told(e)'
    BY <1>10 DEF Exit, Ends
  <2>2. halts' \subseteq halts /\ cancelled' \subseteq cancelled
    BY <1>10 DEF Exit, Ends
  <2>3. PidIsGone(e)
    BY <1>10 DEF Exit
  <2> QED
    BY <1>10, <2>1, <2>2, <2>3 DEF Exit, Ends
<1> QED
  BY <1>1, <1>2, <1>3, <1>4, <1>5, <1>6, <1>7, <1>8, <1>9, <1>10 DEF Main

LEMMA TidyCalls ==
  ASSUME TypeInv, Tidy, NEW d \in Daemons, NEW who,
         Begins(d, who), UNCHANGED <<at, cancelled, pidfile>>
  PROVE  Tidy'
<1> SUFFICES ASSUME NEW e \in Daemons, e \notin early'
             PROVE  /\ Told(e)' => at[e]' \in {"wait", "drain", "close", "cleanup", "exit"}
                    /\ PidIsGone(e)' => pidfile' # e
  BY DEF Tidy
<1>1. e \notin early /\ (e = d => at[d] = "wait")
  BY DEF Begins
<1>2. ASSUME NEW h \in halts', h.of = e
      PROVE  h \in halts \/ (e = d /\ h.pc = "stopping")
  BY <1>2 DEF Begins
<1>3. Told(e)' => Told(e) \/ e = d
  BY <1>2 DEF Told
<1>4. PidIsGone(e)' => PidIsGone(e)
  BY <1>2 DEF PidIsGone
<1> QED
  BY <1>1, <1>3, <1>4 DEF Tidy

LEMMA TidyStep ==
  ASSUME TypeInv, Tidy, [Next]_vars
  PROVE  Tidy'
<1> USE DEF TypeInv, TypeOK, Goes, files, Told, PidIsGone
<1>1. CASE UNCHANGED vars
  BY <1>1 DEF vars, Tidy
<1>2. ASSUME NEW d \in Daemons, Launch(d)
      PROVE  Tidy'
  BY <1>2 DEF Launch, Tidy
<1>3. ASSUME NEW d \in Daemons, Dies(d)
      PROVE  Tidy'
  BY <1>3 DEF Dies, Ends, Tidy
<1>4. ASSUME NEW d \in Daemons, Term(d)
      PROVE  Tidy'
  BY <1>4, TidyCalls DEF Term
<1>5. ASSUME NEW h \in halts, RemovePid(h)
      PROVE  Tidy'
  BY <1>5, ControlAssumption DEF RemovePid, Moves, Halt, Tidy
<1>6. ASSUME NEW h \in halts, Cancel(h)
      PROVE  Tidy'
  BY <1>6 DEF Cancel, Halt, Tidy
<1>7. ASSUME NEW c \in Calls, AskShutdown(c)
      PROVE  Tidy'
  <2>1. call[c].to \in Daemons
    BY <1>7 DEF AskShutdown, Answers, Addressed
  <2> QED
    BY <1>7, <2>1, TidyCalls DEF AskShutdown
<1>8. ASSUME NEW c \in Calls, Dial(c) \/ Accept(c) \/ Finish(c)
      PROVE  Tidy'
  BY <1>8 DEF Dial, Accept, Finish, Rest, Tidy
<1> QED
  BY <1>1, <1>2, <1>3, <1>4, <1>5, <1>6, <1>7, <1>8, TidyMain DEF Next, Shutdown

-----------------------------------------------------------------------------
LEMMA InitInv ==
  Init => Closed /\ PortHeld /\ Lone /\ Tidy
BY ControlAssumption DEF Init, Closed, PortHeld, Lone, Tidy, Told, PidIsGone

(* A daemon that has always been the only one has its socket and its port  *)
(* from the moment it asks for them until it is told to stop, whatever     *)
(* earlier daemons have left behind.                                       *)
THEOREM LoneDaemonIsReached == Spec => []LoneDaemonServes
<1>1. Lone => LoneDaemonServes
  BY DEF Lone, LoneDaemonServes
<1> QED
  BY <1>1, InitInv, TypeInit, TypeStep, PortStep, LoneStep, PTL DEF Spec

(* A daemon that was up when it was told to stop leaves nothing of its own.*)
THEOREM ExitsAreTidy == Spec => []TidyExit
<1>1. Closed /\ Tidy => TidyExit
  BY DEF Closed, Tidy, PidIsGone, TidyExit
<1> QED
  BY <1>1, InitInv, TypeInit, TypeStep, ClosedStep, TidyStep, PTL DEF Spec
=============================================================================
