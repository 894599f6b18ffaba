-------------------------- MODULE SupervisorProofs --------------------------
(***************************************************************************)
(* Proofs about module Supervisor: however commands, signals, reloads and  *)
(* respawns overlap, the map is well typed and the boot keeps its order;   *)
(* and a daemon that is given its commands one at a time leaves nothing    *)
(* running that it has stopped, removed or shut down.                      *)
(***************************************************************************)
EXTENDS Supervisor, FiniteSetTheorems, SequenceTheorems, TLAPS

-----------------------------------------------------------------------------
(* Types.  TypeOK in five parts, each with what it needs to be inductive.  *)

(* The map and the objects it has names for.                               *)
MapTyped ==
  /\ DOMAIN processes \subseteq Names /\ listed = DOMAIN processes
  /\ made \in 0..MaxObjects
  /\ \A n \in DOMAIN processes :
       processes[n] \in 1..made /\ nameOf[processes[n]] = n
  /\ nameOf \in [1..made -> Names] /\ conf \in [1..made -> Confs]

(* The objects: a child that is due has a number to get, since every       *)
(* respawn follows a death.                                                *)
ObjTyped ==
  /\ status \in [Objects -> Statuses]
  /\ alive \in [Objects -> SUBSET Kids]
  /\ latest \in [Objects -> 0..MaxKids] /\ due \in [Objects -> 0..MaxKids]
  /\ \A o \in Objects : alive[o] \subseteq 1..latest[o]
                        /\ due[o] + Cardinality(alive[o]) <= latest[o]

CallTyped ==
  /\ calls \subseteq Frames /\ \A c \in calls : c.obj \in 1..made
  /\ todo \subseteq 1..made /\ \A d \in Downs : look[d] \subseteq 1..made

(* The handlers: one that is busy has a name to go on with.                *)
Busy(p) == opc[p] \in {"next", "call"}

OpTyped ==
  /\ opc \in [Operators -> {"idle", "next", "call", "over"}]
  /\ doing \in [Operators -> Commands \cup {Nothing}]
  /\ rest \in [Operators -> Seq(Names)]
  /\ reply \in [Operators -> {"none", "ok", "err"}]
  /\ \A p \in Operators : Busy(p) =>
       /\ rest[p] # <<>> /\ doing[p].do \in Calls \cup {"remove"}
       /\ opc[p] = "next" => doing[p].do \in Calls
       /\ doing[p].do = "remove" => Len(rest[p]) = 1

RestTyped ==
  /\ boot \in {"new", "starting", "done"}
  /\ down \in [Downs -> {"none", "looking", "over"}]
  /\ look \in [Downs -> SUBSET Objects]
  /\ sig \in Signals \cup {"none"}
  /\ cancelled \in BOOLEAN /\ gone \in BOOLEAN
  /\ calm \in BOOLEAN /\ marked \subseteq Objects \X Kids

Typed == MapTyped /\ ObjTyped /\ CallTyped /\ OpTyped /\ RestTyped

LEMMA TypedIsTypeOK == Typed => TypeOK
<1> SUFFICES ASSUME Typed PROVE TypeOK
  OBVIOUS
<1>1. 1..made \subseteq Objects
  BY SupervisorAssumption DEF Typed, MapTyped, Objects
<1> QED
  BY <1>1
  DEF Typed, MapTyped, ObjTyped, CallTyped, OpTyped, RestTyped, TypeOK

(* As many numbers as names, and no two the same: every number is used.    *)
LEMMA NumbersAreUsed ==
  ASSUME NEW S, IsFiniteSet(S), NEW lo \in Nat, NEW hi \in Nat,
         hi = lo + Cardinality(S), NEW g \in [S -> (lo + 1)..hi],
         \A m, n \in S : g[m] = g[n] => m = n
  PROVE  \A o \in (lo + 1)..hi : \E n \in S : g[n] = o
<1> DEFINE T == (lo + 1)..hi
<1>1. g \in Injection(S, T)
  BY DEF Injection, IsInjective
<1>2. Cardinality(S) \in Nat
  BY FS_CardinalityType
<1>3. IsFiniteSet(T) /\ Cardinality(T) = Cardinality(S)
  <2>1. lo + 1 \in Int /\ hi \in Int
    OBVIOUS
  <2>2. /\ IsFiniteSet(T)
        /\ Cardinality(T) = IF lo + 1 > hi THEN 0 ELSE hi - (lo + 1) + 1
    BY <2>1, FS_Interval
  <2> HIDE DEF T
  <2> QED
    BY <1>2, <2>2
<1> HIDE DEF T
<1>4. g \in Surjection(S, T)
  BY <1>1, <1>3, FS_Injection
<1> QED
  BY <1>4 DEF Surjection, T

(* New objects, one for each name of f.                                    *)
LEMMA MadeForNames ==
  ASSUME MapTyped, NEW f, DOMAIN f \subseteq Names, Makes(f)
  PROVE  /\ made' \in made..MaxObjects /\ made' = made + Cardinality(DOMAIN f)
         /\ nameOf' \in [1..made' -> Names]
         /\ \A o \in 1..made : nameOf'[o] = nameOf[o]
         /\ \A o \in (made + 1)..made' : nameOf'[o] \in DOMAIN f
         /\ \A n \in DOMAIN f : \E o \in (made + 1)..made' : nameOf'[o] = n
         /\ \A o, q \in (made + 1)..made' : nameOf'[o] = nameOf'[q] => o = q
<1>1. IsFiniteSet(DOMAIN f) /\ Cardinality(DOMAIN f) \in Nat
  BY FS_Subset, FS_CardinalityType, SupervisorAssumption
<1>2. /\ made \in Nat /\ made' \in Nat /\ made' = made + Cardinality(DOMAIN f)
      /\ made <= made' /\ made' <= MaxObjects
  BY <1>1, SupervisorAssumption DEF MapTyped, Makes
<1>3. PICK number \in [DOMAIN f -> (made + 1)..made'] :
        /\ \A m, n \in DOMAIN f : number[m] = number[n] => m = n
        /\ nameOf' = [o \in 1..made' |->
             IF o \in 1..made THEN nameOf[o]
                              ELSE CHOOSE n \in DOMAIN f : number[n] = o]
  BY DEF Makes
<1>4. \A o \in (made + 1)..made' : \E n \in DOMAIN f : number[n] = o
  BY <1>1, <1>2, <1>3, NumbersAreUsed
<1>5. \A o \in (made + 1)..made' :
        nameOf'[o] \in DOMAIN f /\ number[nameOf'[o]] = o
  BY <1>2, <1>3, <1>4
<1>6. ASSUME NEW o \in 1..made
      PROVE  nameOf'[o] = nameOf[o] /\ nameOf[o] \in Names
  <2>1. o \in 1..made'
    BY <1>2
  <2>2. nameOf'[o] = nameOf[o]
    BY <1>3, <2>1
  <2> QED
    BY <2>2 DEF MapTyped
<1>7. nameOf' \in [1..made' -> Names]
  <2>1. \A o \in 1..made' : o \in 1..made \/ o \in (made + 1)..made'
    BY <1>2
  <2> QED
    BY <1>3, <1>4, <1>5, <1>6, <2>1
<1>8. ASSUME NEW n \in DOMAIN f
      PROVE  \E o \in (made + 1)..made' : nameOf'[o] = n
  BY <1>3, <1>5
<1>9. \A o, q \in (made + 1)..made' : nameOf'[o] = nameOf'[q] => o = q
  BY <1>5
<1>10. made' \in made..MaxObjects
  BY <1>2, SupervisorAssumption
<1> QED
  BY <1>2, <1>5, <1>6, <1>7, <1>8, <1>9, <1>10

(* Who changes the map; who makes objects.                                 *)
LEMMA WhoMovesTheMap ==
  ASSUME [Next]_vars
  PROVE  \/ UNCHANGED <<processes, listed, made, nameOf, conf>>
         \/ \E p \in Operators : AddProcess(p) \/ RemoveProcess(p)
         \/ \E f \in Files : Install(f)
<1>1. CASE vars' = vars
  BY <1>1 DEF vars, mapVars, objVars
<1>2. ASSUME NEW p \in Operators, Call(p) \/ Shutdown(p) \/ Kill(p) \/ NextName(p)
      PROVE  UNCHANGED <<processes, listed, made, nameOf, conf>>
  BY <1>2 DEF Call, Shutdown, Kill, NextName, KeepsRest, mapVars, objVars
<1>3. ASSUME NEW p \in Operators, Reload(p)
      PROVE  \/ UNCHANGED <<processes, listed, made, nameOf, conf>>
             \/ \E f \in Files : Install(f)
  BY <1>3 DEF Reload, mapVars, objVars
<1>4. ASSUME NEW c \in calls, CallStep(c)
      PROVE  UNCHANGED <<processes, listed, made, nameOf, conf>>
  BY <1>4
  DEF CallStep, BeginStart, Spawn, BeginStop, Terminate, StopEnds, BeginRestart,
      RemoveLooks, LooksAgain, KeepsRest, mapVars, objVars
<1>5. ASSUME \/ BootBegins \/ BootEnds \/ \E o \in Objects : BootStarts(o)
             \/ \E d \in Downs : ShutdownEnds(d) \/ \E o \in Objects : ShutdownLooks(d, o)
             \/ SignalShutdown \/ Exit
      PROVE  UNCHANGED <<processes, listed, made, nameOf, conf>>
  BY <1>5
  DEF BootBegins, BootEnds, BootStarts, ShutdownEnds, ShutdownLooks,
      SignalShutdown, Exit, mapVars, objVars
<1>6. ASSUME SignalReload
      PROVE  \/ UNCHANGED <<processes, listed, made, nameOf, conf>>
             \/ \E f \in Files : Install(f)
  BY <1>6 DEF SignalReload, mapVars, objVars
<1>7. ASSUME \E o \in Objects : \/ Promote(o) \/ Respawn(o)
                               \/ \E k \in Kids : Exits(o, k)
      PROVE  UNCHANGED <<processes, listed, made, nameOf, conf>>
  BY <1>7 DEF Promote, Respawn, Exits, KeepsRest, mapVars
<1> QED
  BY <1>1, <1>2, <1>3, <1>4, <1>5, <1>6, <1>7
  DEF Next, OperatorStep, Goroutines

LEMMA FilesAreSections ==
  ASSUME NEW f \in Files
  PROVE  DOMAIN f \subseteq Names /\ \A n \in DOMAIN f : f[n] \in Confs
  BY SupervisorAssumption

LEMMA TakenTyped ==
  ASSUME OpTyped, NEW p \in Operators, NEW do, Takes(p, do)
  PROVE  /\ doing' \in [Operators -> Commands \cup {Nothing}]
         /\ doing'[p] \in Script[p] /\ doing'[p].do = do
         /\ doing'[p].names \in Seq(Names)
         /\ \A q \in Operators \ {p} : doing'[q] = doing[q]
         /\ do \in {"add", "remove"} =>
              Len(doing'[p].names) = 1 /\ Head(doing'[p].names) \in Names
<1>1. PICK c \in Script[p] : c.do = do /\ doing' = [doing EXCEPT ![p] = c]
  BY DEF Takes
<1>2. c \in Commands
  BY SupervisorAssumption
<1>3. /\ doing'[p] = c /\ c.names \in Seq(Names)
      /\ doing' \in [Operators -> Commands \cup {Nothing}]
      /\ \A q \in Operators \ {p} : doing'[q] = doing[q]
  BY <1>1, <1>2 DEF OpTyped, Commands
<1>4. ASSUME do \in {"add", "remove"}
      PROVE  Len(c.names) = 1 /\ Head(c.names) \in Names
  <2>1. Len(c.names) = 1
    BY <1>1, <1>4, SupervisorAssumption
  <2> QED
    BY <1>3, <2>1
<1> QED
  BY <1>1, <1>3, <1>4

LEMMA AddMakes ==
  ASSUME MapTyped, OpTyped, NEW p \in Operators, AddProcess(p)
  PROVE  MapTyped'
<1> DEFINE n == Head(doing'[p].names)
<1>1. n \in Names
  BY TakenTyped DEF AddProcess, Begins
<1>2. CASE n \in DOMAIN processes
  BY <1>2 DEF AddProcess, mapVars, MapTyped
<1>3. CASE n \notin DOMAIN processes
  <2>1. PICK c \in Confs :
          /\ Makes([m \in {n} |-> c])
          /\ conf' = [o \in 1..made' |-> IF o = made' THEN c ELSE conf[o]]
          /\ processes' = [m \in DOMAIN processes \cup {n} |->
                             IF m = n THEN made' ELSE processes[m]]
          /\ listed' = listed \cup {n}
    BY <1>3 DEF AddProcess
  <2> DEFINE f == [m \in {n} |-> c]
  <2>2. DOMAIN f = {n} /\ DOMAIN f \subseteq Names /\ Cardinality({n}) = 1
    BY <1>1, FS_Singleton
  <2>3. /\ made' \in made..MaxObjects /\ made' = made + 1 /\ made \in Nat
        /\ nameOf' \in [1..made' -> Names]
        /\ \A o \in 1..made : nameOf'[o] = nameOf[o]
        /\ \A o \in (made + 1)..made' : nameOf'[o] \in {n}
    <3>1. made \in Nat
      BY SupervisorAssumption DEF MapTyped
    <3> HIDE DEF f
    <3> QED
      BY <2>1, <2>2, <3>1, MadeForNames DEF f
  <2>4. nameOf'[made'] = n /\ made' \in 1..made' /\ 1..made \subseteq 1..made'
    BY <2>3
  <2>5. conf' \in [1..made' -> Confs]
    BY <2>1, <2>3 DEF MapTyped
  <2>6. DOMAIN processes' \subseteq Names /\ listed' = DOMAIN processes'
    BY <1>1, <2>1 DEF MapTyped
  <2>7. ASSUME NEW m \in DOMAIN processes'
        PROVE  processes'[m] \in 1..made' /\ nameOf'[processes'[m]] = m
    BY <2>1, <2>3, <2>4 DEF MapTyped
  <2>8. made' \in 0..MaxObjects
    BY <2>3
  <2> QED
    BY <2>3, <2>5, <2>6, <2>7, <2>8 DEF MapTyped
<1> QED
  BY <1>2, <1>3

LEMMA ForgetKeeps ==
  ASSUME MapTyped, NEW p \in Operators, RemoveProcess(p)
  PROVE  MapTyped'
<1> DEFINE n == Head(doing'[p].names)
<1>1. UNCHANGED <<made, nameOf, conf>>
  BY DEF RemoveProcess, objVars
<1>2. \/ UNCHANGED <<processes, listed>>
      \/ /\ processes' = [m \in DOMAIN processes \ {n} |-> processes[m]]
         /\ listed' = listed \ {n}
  BY DEF RemoveProcess, Forget, mapVars
<1> HIDE DEF n
<1> QED
  BY <1>1, <1>2 DEF MapTyped

LEMMA InstallMakes ==
  ASSUME MapTyped, NEW f \in Files, Install(f)
  PROVE  MapTyped'
<1> DEFINE fresh == DOMAIN f \ DOMAIN processes
           g == [n \in fresh |-> f[n]]
<1>1. DOMAIN g = fresh /\ fresh \subseteq Names
  BY FilesAreSections
<1>2. Makes(g)
  BY DEF Install
<1>3. /\ made' \in made..MaxObjects /\ made \in Nat
      /\ nameOf' \in [1..made' -> Names]
      /\ \A o \in 1..made : nameOf'[o] = nameOf[o]
      /\ \A o \in (made + 1)..made' : nameOf'[o] \in fresh
      /\ \A n \in fresh : \E o \in (made + 1)..made' : nameOf'[o] = n
  <2>1. made \in Nat
    BY SupervisorAssumption DEF MapTyped
  <2> HIDE DEF g
  <2> QED
    BY <1>1, <1>2, <2>1, MadeForNames
<1>4. /\ processes' = [n \in DOMAIN f |->
           IF n \in fresh THEN CHOOSE o \in (made + 1)..made' : nameOf'[o] = n
                          ELSE processes[n]]
      /\ conf' = [o \in 1..made' |-> IF o > made \/ o \in Managed \ Dropped(f)
                                     THEN f[nameOf'[o]] ELSE conf[o]]
      /\ listed' = DOMAIN f
  BY DEF Install
<1>5. ASSUME NEW n \in DOMAIN f
      PROVE  processes'[n] \in 1..made' /\ nameOf'[processes'[n]] = n
  <2>1. CASE n \in fresh
    <3>1. /\ processes'[n] \in (made + 1)..made' /\ nameOf'[processes'[n]] = n
      BY <1>3, <1>4, <2>1
    <3> QED
      BY <1>3, <3>1
  <2>2. CASE n \notin fresh
    <3>1. processes'[n] = processes[n] /\ n \in DOMAIN processes
      BY <1>4, <2>2
    <3> QED
      BY <1>3, <3>1 DEF MapTyped
  <2> QED
    BY <2>1, <2>2
<1>6. ASSUME NEW o \in 1..made' PROVE conf'[o] \in Confs
  <2>1. CASE o > made
    <3>1. nameOf'[o] \in DOMAIN f
      BY <1>3, <2>1
    <3> QED
      BY <1>4, <2>1, <3>1, FilesAreSections
  <2>2. CASE ~(o > made) /\ o \in Managed \ Dropped(f)
    <3>1. PICK n \in DOMAIN processes : o = processes[n]
      BY <2>2 DEF Managed
    <3>2. n \in DOMAIN f /\ nameOf'[o] = n
      BY <1>3, <2>2, <3>1 DEF Dropped, MapTyped
    <3> QED
      BY <1>4, <2>2, <3>2, FilesAreSections
  <2>3. CASE ~(o > made) /\ o \notin Managed \ Dropped(f)
    <3>1. o \in 1..made /\ conf'[o] = conf[o]
      BY <1>3, <1>4, <2>3
    <3> QED
      BY <3>1 DEF MapTyped
  <2> QED
    BY <2>1, <2>2, <2>3
<1>7. DOMAIN processes' = DOMAIN f /\ made' \in 0..MaxObjects
  BY <1>3, <1>4
<1>8. conf' \in [1..made' -> Confs]
  BY <1>4, <1>6
<1> QED
  BY <1>3, <1>4, <1>5, <1>7, <1>8, FilesAreSections DEF MapTyped

LEMMA NextMap == ASSUME Typed, [Next]_vars PROVE MapTyped'
<1>1. CASE UNCHANGED <<processes, listed, made, nameOf, conf>>
  BY <1>1 DEF Typed, MapTyped
<1> QED
  BY <1>1, WhoMovesTheMap, AddMakes, ForgetKeeps, InstallMakes DEF Typed

LEMMA KidsAreFinite == IsFiniteSet(Kids)
<1>1. 1 \in Int /\ MaxKids \in Int
  BY SupervisorAssumption
<1> QED
  BY <1>1, FS_Interval DEF Kids

(* A child that is started is the next one; one that is due moves to alive *)
(* when it is started, and out of it when it dies.                         *)
LEMMA SpawnTyped ==
  ASSUME ObjTyped, NEW o \in Objects, SpawnsChild(o) \/ SpawnFails(o),
         \/ UNCHANGED due
         \/ due[o] > 0 /\ due' = [due EXCEPT ![o] = due[o] - 1]
  PROVE  ObjTyped'
<1>0. MaxKids \in Nat /\ latest[o] \in 0..MaxKids /\ due[o] \in 0..MaxKids
      /\ alive[o] \subseteq 1..latest[o]
      /\ due[o] + Cardinality(alive[o]) <= latest[o]
  BY SupervisorAssumption DEF ObjTyped
<1>1. \A q \in Objects : IsFiniteSet(alive[q]) /\ Cardinality(alive[q]) \in Nat
  BY KidsAreFinite, FS_Subset, FS_CardinalityType DEF ObjTyped
<1>2. CASE SpawnsChild(o) /\ UNCHANGED due
  <2> DEFINE k == latest[o] + 1
  <2>1. k \in Kids /\ k \notin alive[o] /\ k \in 0..MaxKids
    BY <1>0, <1>2 DEF SpawnsChild, Kids
  <2>2. Cardinality(alive[o] \cup {k}) = Cardinality(alive[o]) + 1
    BY <1>1, <2>1, FS_AddElement
  <2>3. /\ latest' = [latest EXCEPT ![o] = k] /\ status' = status
        /\ alive' = [alive EXCEPT ![o] = alive[o] \cup {k}]
    BY <1>2 DEF SpawnsChild
  <2>4. /\ alive[o] \cup {k} \subseteq 1..k
        /\ due[o] + Cardinality(alive[o] \cup {k}) <= k
    BY <1>0, <1>1, <2>2
  <2> HIDE DEF k
  <2> QED
    BY <1>2, <2>1, <2>3, <2>4 DEF ObjTyped
<1>3. CASE SpawnsChild(o) /\ due[o] > 0 /\ due' = [due EXCEPT ![o] = due[o] - 1]
  <2> DEFINE k == latest[o] + 1
  <2>1. k \in Kids /\ k \notin alive[o] /\ k \in 0..MaxKids
    BY <1>0, <1>3 DEF SpawnsChild, Kids
  <2>2. Cardinality(alive[o] \cup {k}) = Cardinality(alive[o]) + 1
    BY <1>1, <2>1, FS_AddElement
  <2>3. /\ latest' = [latest EXCEPT ![o] = k] /\ status' = status
        /\ alive' = [alive EXCEPT ![o] = alive[o] \cup {k}]
    BY <1>3 DEF SpawnsChild
  <2>4. /\ alive[o] \cup {k} \subseteq 1..k
        /\ due[o] - 1 + Cardinality(alive[o] \cup {k}) <= k
        /\ due[o] - 1 \in 0..MaxKids
    BY <1>0, <1>1, <1>3, <2>2
  <2> HIDE DEF k
  <2> QED
    BY <1>3, <2>1, <2>3, <2>4 DEF ObjTyped
<1>4. CASE SpawnFails(o)
  <2>1. /\ status' = [status EXCEPT ![o] = "FATAL"] /\ UNCHANGED <<latest, alive>>
        /\ "FATAL" \in Statuses
    BY <1>4 DEF SpawnFails, Statuses
  <2>2. due'[o] \in 0..MaxKids /\ due'[o] <= due[o]
        /\ due' \in [Objects -> 0..MaxKids]
        /\ \A q \in Objects \ {o} : due'[q] = due[q]
    BY <1>0 DEF ObjTyped
  <2>3. \A q \in Objects : due'[q] + Cardinality(alive[q]) <= latest[q]
    BY <1>0, <1>1, <2>2 DEF ObjTyped
  <2> QED
    BY <2>1, <2>2, <2>3 DEF ObjTyped
<1> QED
  BY <1>2, <1>3, <1>4

LEMMA ExitTyped ==
  ASSUME ObjTyped, NEW o \in Objects, NEW k \in Kids, Exits(o, k)
  PROVE  ObjTyped'
<1>0. MaxKids \in Nat /\ latest[o] \in 0..MaxKids /\ due[o] \in 0..MaxKids
      /\ alive[o] \subseteq 1..latest[o] /\ k \in alive[o]
      /\ due[o] + Cardinality(alive[o]) <= latest[o]
  BY SupervisorAssumption DEF ObjTyped, Exits
<1>1. IsFiniteSet(alive[o]) /\ Cardinality(alive[o]) \in Nat
  BY KidsAreFinite, FS_Subset, FS_CardinalityType DEF ObjTyped
<1>2. Cardinality(alive[o] \ {k}) = Cardinality(alive[o]) - 1
      /\ Cardinality(alive[o] \ {k}) \in Nat
  BY <1>0, <1>1, FS_RemoveElement, FS_CardinalityType
<1>3. PICK to \in Statuses : status' = [status EXCEPT ![o] = to]
  BY DEF Exits
<1>4. /\ alive' = [alive EXCEPT ![o] = alive[o] \ {k}] /\ latest' = latest
      /\ UNCHANGED due \/ due' = [due EXCEPT ![o] = due[o] + 1]
  BY DEF Exits
<1>5. /\ due[o] + 1 + Cardinality(alive[o] \ {k}) <= latest[o]
      /\ due[o] + 1 \in 0..MaxKids
      /\ due[o] + Cardinality(alive[o] \ {k}) <= latest[o]
  BY <1>0, <1>1, <1>2
<1> QED
  BY <1>0, <1>3, <1>4, <1>5 DEF ObjTyped

LEMMA NextObjects == ASSUME Typed, [Next]_vars PROVE ObjTyped'
<1>1. CASE UNCHANGED <<status, alive, latest, due>>
  BY <1>1 DEF Typed, ObjTyped
<1>2. ASSUME NEW o, NEW to \in Statuses, status' = [status EXCEPT ![o] = to],
             UNCHANGED <<alive, latest, due>>
      PROVE  ObjTyped'
  BY <1>2 DEF Typed, ObjTyped
<1>3. ASSUME NEW c \in calls, CallStep(c) PROVE ObjTyped'
  <2>1. CASE Spawn(c)
    <3>1. c.obj \in Objects
      BY DEF Typed, CallTyped, Frames
    <3> QED
      BY <2>1, <3>1, SpawnTyped DEF Spawn, Typed
  <2>2. CASE BeginStart(c) \/ BeginStop(c)
    <3>1. \/ UNCHANGED <<status, alive, latest, due>>
          \/ /\ UNCHANGED <<alive, latest, due>>
             /\ \E to \in Statuses : status' = [status EXCEPT ![c.obj] = to]
      BY <2>2 DEF BeginStart, BeginStop, Statuses
    <3> QED
      BY <1>1, <1>2, <3>1
  <2>3. CASE \/ Terminate(c) \/ StopEnds(c) \/ BeginRestart(c) \/ RemoveLooks(c)
             \/ LooksAgain(c)
    BY <1>1, <2>3
    DEF Terminate, StopEnds, BeginRestart, RemoveLooks, LooksAgain, objVars
  <2> QED
    BY <1>3, <2>1, <2>2, <2>3 DEF CallStep
<1>4. ASSUME NEW o \in Objects, Promote(o) PROVE ObjTyped'
  BY <1>2, <1>4 DEF Promote, Statuses
<1>5. ASSUME NEW o \in Objects, Respawn(o) PROVE ObjTyped'
  BY <1>5, SpawnTyped DEF Respawn, Typed
<1>6. ASSUME NEW o \in Objects, NEW k \in Kids, Exits(o, k) PROVE ObjTyped'
  BY <1>6, ExitTyped DEF Typed
<1>7. ASSUME \/ \E p \in Operators : OperatorStep(p) \/ NextName(p)
             \/ BootBegins \/ BootEnds \/ \E o \in Objects : BootStarts(o)
             \/ \E d \in Downs : ShutdownEnds(d) \/ \E o \in Objects : ShutdownLooks(d, o)
             \/ SignalReload \/ SignalShutdown \/ Exit
      PROVE  UNCHANGED <<status, alive, latest, due>>
  <2>1. ASSUME NEW p \in Operators, OperatorStep(p) \/ NextName(p)
        PROVE  UNCHANGED <<status, alive, latest, due>>
    BY <2>1
    DEF OperatorStep, Call, AddProcess, RemoveProcess, Reload, Install, Shutdown,
        Kill, NextName, objVars
  <2>2. ASSUME BootBegins \/ BootEnds \/ \E o \in Objects : BootStarts(o)
        PROVE  UNCHANGED <<status, alive, latest, due>>
    BY <2>2 DEF BootBegins, BootEnds, BootStarts, objVars
  <2>3. ASSUME NEW d \in Downs,
               ShutdownEnds(d) \/ \E o \in Objects : ShutdownLooks(d, o)
        PROVE  UNCHANGED <<status, alive, latest, due>>
    BY <2>3 DEF ShutdownEnds, ShutdownLooks, objVars
  <2>4. ASSUME SignalReload \/ SignalShutdown \/ Exit
        PROVE  UNCHANGED <<status, alive, latest, due>>
    BY <2>4 DEF SignalReload, SignalShutdown, Exit, Install, objVars
  <2> QED
    BY <1>7, <2>1, <2>2, <2>3, <2>4
<1>8. CASE vars' = vars
  BY <1>1, <1>8 DEF vars, objVars
<1> QED
  BY <1>1, <1>3, <1>4, <1>5, <1>6, <1>7, <1>8 DEF Next, Goroutines

(* A call as it goes on: the same object, the same caller.                 *)
LEMMA FrameTyped ==
  ASSUME NEW who \in Downs \cup {"boot", "go"}, NEW o \in Objects,
         NEW pc \in {"start", "spawn", "stop", "term", "wait", "restart", "remove",
                   "look"}
  PROVE  Frame(who, o, pc) \in Frames
  BY SupervisorAssumption DEF Frame, Frames

LEMMA CallMoves ==
  ASSUME Typed, NEW c \in calls, CallStep(c)
  PROVE  \/ calls' = calls \ {c}
         \/ \E d \in Frames : /\ calls' = (calls \ {c}) \cup {d}
                              /\ d.obj = c.obj /\ d.by = c.by
                              /\ UNCHANGED opVars
<1>1. /\ c \in Frames /\ c.by \in Downs \cup {"boot", "go"} /\ c.obj \in Objects
      /\ latest[c.obj] \in 0..MaxKids
  BY DEF Typed, CallTyped, ObjTyped, Frames
<1>2. ASSUME NEW d \in Frames, d.obj = c.obj, d.by = c.by, Goes(c, d)
      PROVE  \E e \in Frames : /\ calls' = (calls \ {c}) \cup {e}
                               /\ e.obj = c.obj /\ e.by = c.by
                               /\ UNCHANGED opVars
  BY <1>2 DEF Goes
<1>3. ASSUME NEW v, Ends(c, v) PROVE calls' = calls \ {c}
  BY <1>3 DEF Ends
<1>4. ASSUME NEW x \in {"start", "spawn", "stop", "term", "wait", "restart", "remove",
                         "look"},
             NEW k \in 0..MaxKids, NEW again \in BOOLEAN
      PROVE  LET d == [c EXCEPT !.pc = x, !.child = k, !.again = again]
             IN  d \in Frames /\ d.obj = c.obj /\ d.by = c.by
  BY <1>1 DEF Frames
<1>5. ASSUME NEW x \in {"start", "spawn", "stop", "term", "wait", "restart", "remove",
                         "look"}
      PROVE  /\ [c EXCEPT !.pc = x] \in Frames
             /\ [c EXCEPT !.pc = x].obj = c.obj /\ [c EXCEPT !.pc = x].by = c.by
  BY <1>1 DEF Frames
<1>6. /\ Frame(c.by, c.obj, "start") \in Frames
      /\ Frame(c.by, c.obj, "start").obj = c.obj
      /\ Frame(c.by, c.obj, "start").by = c.by
  BY <1>1, FrameTyped DEF Frame
<1>7. CASE BeginStart(c)
  BY <1>2, <1>3, <1>5, <1>7 DEF BeginStart
<1>8. CASE Spawn(c)
  BY <1>3, <1>8 DEF Spawn
<1>9. CASE BeginStop(c)
  BY <1>2, <1>3, <1>5, <1>9 DEF BeginStop
<1>10. CASE Terminate(c)
  <2>1. LET d == [c EXCEPT !.pc = "wait", !.child = latest[c.obj]]
        IN  d \in Frames /\ d.obj = c.obj /\ d.by = c.by
    BY <1>1 DEF Frames
  <2> QED
    BY <1>2, <1>3, <1>10, <2>1 DEF Terminate
<1>11. CASE StopEnds(c)
  BY <1>2, <1>3, <1>6, <1>11 DEF StopEnds
<1>12. CASE BeginRestart(c)
  <2>1. LET d == [c EXCEPT !.pc = "stop", !.again = TRUE]
        IN  d \in Frames /\ d.obj = c.obj /\ d.by = c.by
    BY <1>1 DEF Frames
  <2> QED
    BY <1>2, <1>5, <1>12, <2>1 DEF BeginRestart
<1>13. CASE RemoveLooks(c)
  BY <1>2, <1>5, <1>13 DEF RemoveLooks
<1>14. CASE LooksAgain(c)
  BY <1>2, <1>3, <1>5, <1>14 DEF LooksAgain
<1> QED
  BY <1>7, <1>8, <1>9, <1>10, <1>11, <1>12, <1>13, <1>14 DEF CallStep

LEMMA ManagedTyped ==
  ASSUME MapTyped
  PROVE  Managed \subseteq 1..made /\ 1..made \subseteq Objects
  BY SupervisorAssumption DEF MapTyped, Managed, Objects

(* The calls that commands, signals and the boot begin.                    *)
LEMMA NextCalls == ASSUME Typed, [Next]_vars PROVE CallTyped'
<1>0. /\ made \in Nat /\ made' \in Nat /\ made <= made'
      /\ 1..made \subseteq 1..made' /\ 1..made' \subseteq Objects
  <2>1. MapTyped' /\ MapTyped
    BY NextMap DEF Typed
  <2>2. made' >= made
    <3>1. CASE made' = made
      BY <2>1, <3>1 DEF MapTyped
    <3>2. CASE \E p \in Operators : AddProcess(p) \/ RemoveProcess(p)
      <4>1. CASE UNCHANGED made
        BY <3>1, <4>1
      <4>2. ASSUME NEW n, NEW c, Makes([m \in {n} |-> c]) PROVE made' >= made
        <5>1. made' = made + Cardinality({n})
          BY <4>2 DEF Makes
        <5>2. Cardinality({n}) = 1
          BY FS_Singleton
        <5>3. made \in Int
          BY <2>1 DEF MapTyped
        <5> QED
          BY <5>1, <5>2, <5>3
      <4> QED
        BY <3>2, <4>1, <4>2 DEF AddProcess, RemoveProcess, objVars
    <3>3. ASSUME NEW f \in Files, Install(f) PROVE made' >= made
      <4> DEFINE fresh == DOMAIN f \ DOMAIN processes
                 g == [n \in fresh |-> f[n]]
      <4>1. DOMAIN g \subseteq Names
        BY FilesAreSections
      <4>2. Makes(g)
        BY <3>3 DEF Install
      <4>3. made' \in made..MaxObjects
        <5> HIDE DEF g
        <5> QED
          BY <2>1, <4>1, <4>2, MadeForNames
      <4> QED
        BY <4>3
    <3> QED
      BY <3>1, <3>2, <3>3, WhoMovesTheMap
  <2> QED
    BY <2>1, <2>2, SupervisorAssumption DEF MapTyped, Objects
<1>1. CASE UNCHANGED <<calls, todo, look>>
  BY <1>0, <1>1 DEF Typed, CallTyped
<1>2. ASSUME NEW new, calls' = calls \cup new, new \subseteq Frames,
             \A c \in new : c.obj \in 1..made', UNCHANGED <<todo, look>>
      PROVE  CallTyped'
  BY <1>0, <1>2 DEF Typed, CallTyped
<1>2a. ASSUME NEW e \in Frames, calls' = calls \cup {e}, e.obj \in 1..made',
              UNCHANGED <<todo, look>>
       PROVE  CallTyped'
  BY <1>0, <1>2a DEF Typed, CallTyped
<1>2b. Autostarts \subseteq Frames /\ \A c \in Autostarts : c.obj \in 1..made'
  <2> SUFFICES ASSUME NEW c \in Autostarts PROVE c \in Frames /\ c.obj \in 1..made'
    OBVIOUS
  <2>1. PICK q \in (made + 1)..made' : c = Frame("go", q, "start")
    BY DEF Autostarts
  <2>2. q \in 1..made' /\ q \in Objects
    BY <1>0
  <2> QED
    BY <2>1, <2>2, FrameTyped DEF Frame
<1>3. ASSUME NEW c \in calls, CallStep(c) PROVE CallTyped'
  <2>1. UNCHANGED <<todo, look, made>>
    BY <1>3
    DEF CallStep, BeginStart, Spawn, BeginStop, Terminate, StopEnds, BeginRestart,
        RemoveLooks, LooksAgain, KeepsRest, objVars, downVars
  <2> QED
    BY <1>3, <2>1, CallMoves DEF Typed, CallTyped
<1>4. ASSUME NEW p \in Operators, NextName(p) PROVE CallTyped'
  <2>1. CASE UNCHANGED calls
    BY <1>1, <1>4, <2>1 DEF NextName, KeepsRest, downVars
  <2>2. CASE calls' = calls \cup {Frame(p, processes[Head(rest[p])], doing[p].do)}
             /\ Head(rest[p]) \in DOMAIN processes
    <3>1. /\ processes[Head(rest[p])] \in 1..made
          /\ doing[p].do \in Calls
      BY <1>4, <2>2 DEF NextName, Typed, MapTyped, OpTyped, Busy
    <3>2. Frame(p, processes[Head(rest[p])], doing[p].do) \in Frames
      BY <1>0, <3>1, FrameTyped DEF Calls, Downs
    <3>3. made' = made /\ UNCHANGED <<todo, look>>
      BY <1>4 DEF NextName, KeepsRest, objVars, downVars
    <3> QED
      BY <1>2a, <2>2, <3>1, <3>2, <3>3 DEF Frame
  <2> QED
    BY <1>4, <2>1, <2>2 DEF NextName
<1>5. ASSUME NEW p \in Operators, AddProcess(p) PROVE CallTyped'
  <2>1. UNCHANGED calls \/ calls' = calls \cup Autostarts
    BY <1>5 DEF AddProcess
  <2>2. UNCHANGED <<todo, look>>
    BY <1>5 DEF AddProcess, downVars
  <2> QED
    BY <1>1, <1>2, <1>2b, <2>1, <2>2
<1>6. ASSUME NEW p \in Operators, RemoveProcess(p) PROVE CallTyped'
  <2> DEFINE n == Head(doing'[p].names)
  <2>1. \/ UNCHANGED calls
        \/ n \in DOMAIN processes /\ calls' = calls \cup {Frame(p, processes[n], "remove")}
    BY <1>6 DEF RemoveProcess
  <2>2. n \in DOMAIN processes => processes[n] \in 1..made
    BY DEF Typed, MapTyped
  <2>3. n \in DOMAIN processes => Frame(p, processes[n], "remove") \in Frames
    BY <1>0, <2>2, FrameTyped DEF Downs
  <2>4. UNCHANGED <<todo, look, made>>
    BY <1>6 DEF RemoveProcess, downVars, objVars
  <2> HIDE DEF n
  <2> QED
    BY <1>1, <1>2a, <2>1, <2>2, <2>3, <2>4 DEF Frame
<1>7. ASSUME NEW f \in Files, Install(f), UNCHANGED <<todo, look>> PROVE CallTyped'
  <2>1. calls' = calls \cup (Autostarts \cup DropStops(f))
    BY <1>7 DEF Install
  <2>2. ASSUME NEW c \in DropStops(f) PROVE c \in Frames /\ c.obj \in 1..made'
    <3>1. PICK q \in Dropped(f) : c = Frame("go", q, "stop")
      BY DEF DropStops
    <3>2. q \in 1..made' /\ q \in Objects
      BY <1>0, <3>1 DEF Dropped, Typed, MapTyped
    <3> QED
      BY <3>1, <3>2, FrameTyped DEF Frame
  <2> DEFINE new == Autostarts \cup DropStops(f)
  <2>3. new \subseteq Frames /\ \A c \in new : c.obj \in 1..made'
    BY <1>2b, <2>2
  <2> HIDE DEF new
  <2> QED
    BY <1>2, <1>7, <2>1, <2>3 DEF new
<1>8. ASSUME NEW d \in Downs, Snapshot(d), UNCHANGED <<calls, todo, made>>
      PROVE  CallTyped'
  BY <1>8, ManagedTyped DEF Snapshot, Typed, CallTyped, RestTyped
<1>9. ASSUME NEW d \in Downs, NEW o \in Objects, ShutdownLooks(d, o)
      PROVE  CallTyped'
  <2>1. o \in 1..made /\ o \in Objects /\ UNCHANGED <<todo, made>>
    BY <1>9 DEF ShutdownLooks, Typed, CallTyped, objVars
  <2>2. \A pc \in {"stop", "look"} :
          Frame(d, o, pc) \in Frames /\ Frame(d, o, pc).obj = o
    BY <2>1, FrameTyped DEF Frame
  <2> QED
    BY <1>9, <2>1, <2>2 DEF ShutdownLooks, Typed, CallTyped, RestTyped
<1>10. CASE BootBegins
  BY <1>0, <1>10, ManagedTyped
  DEF BootBegins, Typed, CallTyped, objVars, downVars
<1>11. ASSUME NEW o \in Objects, BootStarts(o) PROVE CallTyped'
  <2>1. o \in 1..made /\ UNCHANGED <<look, made>>
    BY <1>11 DEF BootStarts, Typed, CallTyped, objVars, downVars
  <2>2. Frame("boot", o, "start") \in Frames /\ Frame("boot", o, "start").obj = o
    BY FrameTyped DEF Frame
  <2> QED
    BY <1>11, <2>1, <2>2 DEF BootStarts, Typed, CallTyped
<1>12. ASSUME NEW p \in Operators, Call(p) \/ Kill(p) PROVE CallTyped'
  BY <1>1, <1>12 DEF Call, Kill, KeepsRest, downVars
<1>13. ASSUME NEW p \in Operators, Shutdown(p) PROVE CallTyped'
  BY <1>8, <1>13 DEF Shutdown, objVars, Downs
<1>14. ASSUME NEW p \in Operators, Reload(p) PROVE CallTyped'
  BY <1>1, <1>7, <1>14 DEF Reload, downVars
<1>15. CASE SignalReload
  BY <1>1, <1>7, <1>15 DEF SignalReload, downVars
<1>16. CASE SignalShutdown
  BY <1>8, <1>16 DEF SignalShutdown, objVars, Downs
<1>17. CASE BootEnds \/ Exit \/ \E d \in Downs : ShutdownEnds(d)
  BY <1>1, <1>17 DEF BootEnds, Exit, ShutdownEnds, downVars
<1>18. ASSUME \E o \in Objects : \/ Promote(o) \/ Respawn(o)
                                 \/ \E k \in Kids : Exits(o, k)
       PROVE  CallTyped'
  BY <1>1, <1>18 DEF Promote, Respawn, Exits, KeepsRest, downVars
<1>19. CASE vars' = vars
  BY <1>1, <1>19 DEF vars, downVars
<1> QED
  BY <1>3, <1>4, <1>5, <1>6, <1>9, <1>10, <1>11, <1>12, <1>13, <1>14, <1>15,
     <1>16, <1>17, <1>18, <1>19
  DEF Next, OperatorStep, Goroutines
LEMMA LongIsNotEmpty == ASSUME NEW s, Len(s) # 0 PROVE s # <<>>
<1>1. Len(<<>>) = 0
  BY EmptySeq, Zenon
<1> QED
  BY <1>1, Zenon

(* The handlers.                                                           *)
LEMMA AnswersTyped ==
  ASSUME OpTyped, NEW p \in Operators, NEW v \in {"none", "ok", "err"},
         Answers(p, v), rest' \in [Operators -> Seq(Names)],
         doing' \in [Operators -> Commands \cup {Nothing}],
         \A q \in Operators \ {p} : doing'[q] = doing[q] /\ rest'[q] = rest[q]
  PROVE  OpTyped'
<1>1. /\ opc' \in [Operators -> {"idle", "next", "call", "over"}]
      /\ opc'[p] = "over" /\ \A q \in Operators \ {p} : opc'[q] = opc[q]
      /\ reply' \in [Operators -> {"none", "ok", "err"}]
  BY DEF Answers, OpTyped
<1> QED
  BY <1>1 DEF OpTyped, Busy

(* A command is taken by somebody idle; who is handed on to a call has a   *)
(* name to do it for.                                                      *)
LEMMA HandedTyped ==
  ASSUME OpTyped, NEW p \in Operators, NEW do \in Calls \cup {"remove"}, Takes(p, do),
         rest' = [rest EXCEPT ![p] = doing'[p].names], rest'[p] # <<>>,
         opc' = [opc EXCEPT ![p] = IF do = "remove" THEN "call" ELSE "next"],
         UNCHANGED reply
  PROVE  OpTyped'
<1>1. /\ doing' \in [Operators -> Commands \cup {Nothing}]
      /\ doing'[p].do = do /\ doing'[p].names \in Seq(Names)
      /\ \A q \in Operators \ {p} : doing'[q] = doing[q]
      /\ do = "remove" => Len(doing'[p].names) = 1
  BY TakenTyped
<1>2. /\ rest' \in [Operators -> Seq(Names)] /\ rest'[p] = doing'[p].names
      /\ \A q \in Operators \ {p} : rest'[q] = rest[q] /\ opc'[q] = opc[q]
      /\ opc' \in [Operators -> {"idle", "next", "call", "over"}]
      /\ opc'[p] = IF do = "remove" THEN "call" ELSE "next"
  BY <1>1 DEF OpTyped
<1>3. do = "remove" => do \notin Calls
  BY DEF Calls
<1> QED
  BY <1>1, <1>2, <1>3 DEF OpTyped, Busy

LEMMA EndsTyped ==
  ASSUME OpTyped, NEW c, NEW v, Ends(c, v)
  PROVE  OpTyped'
<1>1. CASE UNCHANGED opVars
  BY <1>1 DEF OpTyped, Busy, opVars
<1>2. CASE c.by \in Operators /\ opc[c.by] = "call"
  <2> DEFINE p    == c.by
             fine == v = "ok" \/ doing[p].do = "remove"
             last == ~fine \/ Len(rest[p]) = 1
  <2>1. /\ opc' = [opc EXCEPT ![p] = IF last THEN "over" ELSE "next"]
        /\ reply' = [reply EXCEPT ![p] =
             IF ~last THEN "none" ELSE IF fine THEN "ok" ELSE "err"]
        /\ rest' = [rest EXCEPT ![p] = Tail(@)]
        /\ UNCHANGED doing
    BY <1>2 DEF Ends
  <2>2. /\ p \in Operators /\ rest[p] \in Seq(Names) /\ rest[p] # <<>>
        /\ doing[p].do \in Calls \cup {"remove"}
        /\ doing[p].do = "remove" => Len(rest[p]) = 1
    BY <1>2 DEF OpTyped, Busy
  <2>3. /\ Tail(rest[p]) \in Seq(Names)
        /\ ~last => Tail(rest[p]) # <<>> /\ doing[p].do \in Calls
    <3>1. Tail(rest[p]) \in Seq(Names) /\ Len(Tail(rest[p])) = Len(rest[p]) - 1
      BY <2>2
    <3>2. Len(rest[p]) # 1 => Tail(rest[p]) # <<>>
      <4>1. Len(rest[p]) # 1 => Len(Tail(rest[p])) # 0
        BY <2>2, <3>1
      <4> QED
        BY <4>1, LongIsNotEmpty
    <3> QED
      BY <2>2, <3>1, <3>2
  <2>4. /\ rest' \in [Operators -> Seq(Names)] /\ rest'[p] = Tail(rest[p])
        /\ opc' \in [Operators -> {"idle", "next", "call", "over"}]
        /\ opc'[p] = IF last THEN "over" ELSE "next"
        /\ reply' \in [Operators -> {"none", "ok", "err"}]
        /\ \A q \in Operators \ {p} : rest'[q] = rest[q] /\ opc'[q] = opc[q]
    BY <2>1, <2>2, <2>3 DEF OpTyped
  <2>5. "remove" \notin Calls
    BY DEF Calls
  <2> HIDE DEF p, last
  <2> QED
    BY <2>1, <2>2, <2>3, <2>4, <2>5 DEF OpTyped, Busy
<1> QED
  BY <1>1, <1>2 DEF Ends

LEMMA NextOps == ASSUME Typed, [Next]_vars PROVE OpTyped'
<1>0. OpTyped
  BY DEF Typed
<1>1. CASE UNCHANGED opVars
  BY <1>0, <1>1 DEF OpTyped, Busy, opVars
<1>2. ASSUME NEW c, CallStep(c) PROVE OpTyped'
  <2>1. UNCHANGED opVars \/ \E v : Ends(c, v)
    BY <1>2
    DEF CallStep, BeginStart, Spawn, BeginStop, Terminate, StopEnds, BeginRestart,
        RemoveLooks, LooksAgain, Goes
  <2> QED
    BY <1>0, <1>1, <2>1, EndsTyped
<1>3. ASSUME NEW p \in Operators, NEW do, NEW v \in {"none", "ok", "err"},
             Takes(p, do), Answers(p, v),
             \/ UNCHANGED rest
             \/ rest' = [rest EXCEPT ![p] = doing'[p].names]
      PROVE  OpTyped'
  <2>1. /\ doing' \in [Operators -> Commands \cup {Nothing}]
        /\ doing'[p].names \in Seq(Names)
        /\ \A q \in Operators \ {p} : doing'[q] = doing[q]
    BY <1>0, <1>3, TakenTyped
  <2>2. rest' \in [Operators -> Seq(Names)]
        /\ \A q \in Operators \ {p} : rest'[q] = rest[q]
    BY <1>0, <1>3, <2>1 DEF OpTyped
  <2> QED
    BY <1>0, <1>3, <2>1, <2>2, AnswersTyped
<1>4. ASSUME NEW p \in Operators, Call(p) PROVE OpTyped'
  <2>1. PICK do \in Calls : Takes(p, do)
    BY <1>4 DEF Call, Begins
  <2>2. do \in Calls \cup {"remove"} /\ do # "remove"
    BY <2>1 DEF Calls
  <2>3. CASE rest'[p] = <<>>
    BY <1>3, <1>4, <2>1, <2>3 DEF Call
  <2>4. CASE rest'[p] # <<>>
    BY <1>0, <1>4, <2>1, <2>2, <2>4, HandedTyped DEF Call
  <2> QED
    BY <2>3, <2>4
<1>5. ASSUME NEW p \in Operators, NextName(p) PROVE OpTyped'
  <2>1. CASE Answers(p, "err")
    BY <1>0, <1>5, <2>1, AnswersTyped DEF NextName, OpTyped
  <2>2. CASE opc' = [opc EXCEPT ![p] = "call"] /\ UNCHANGED reply
    <3>1. /\ doing[p].do \in Calls /\ rest[p] # <<>> /\ UNCHANGED <<doing, rest>>
          /\ "remove" \notin Calls
      BY <1>0, <1>5 DEF NextName, OpTyped, Busy, Calls
    <3> QED
      BY <1>0, <2>2, <3>1 DEF OpTyped, Busy
  <2> QED
    BY <1>5, <2>1, <2>2 DEF NextName
<1>6. ASSUME NEW p \in Operators, AddProcess(p) PROVE OpTyped'
  <2>1. PICK v \in {"ok", "err"} : Answers(p, v)
    BY <1>6 DEF AddProcess
  <2> QED
    BY <1>3, <1>6, <2>1 DEF AddProcess, Begins
<1>7. ASSUME NEW p \in Operators, RemoveProcess(p) PROVE OpTyped'
  <2>1. Takes(p, "remove") /\ rest' = [rest EXCEPT ![p] = doing'[p].names]
    BY <1>7 DEF RemoveProcess, Begins
  <2>2. CASE Answers(p, "err")
    BY <1>3, <2>1, <2>2
  <2>3. CASE opc' = [opc EXCEPT ![p] = "call"] /\ UNCHANGED reply
    <3>1. Len(doing'[p].names) = 1 /\ rest'[p] = doing'[p].names
      BY <1>0, <2>1, TakenTyped DEF OpTyped
    <3>2. rest'[p] # <<>>
      <4>1. Len(rest'[p]) = 1
        BY <3>1, Zenon
      <4>2. Len(rest'[p]) # 0
        BY <4>1
      <4> QED
        BY <4>2, LongIsNotEmpty
    <3> QED
      BY <1>0, <2>1, <2>3, <3>2, HandedTyped
  <2> QED
    BY <1>7, <2>2, <2>3 DEF RemoveProcess
<1>8. ASSUME NEW p \in Operators, Reload(p) \/ Shutdown(p) \/ Kill(p) PROVE OpTyped'
  <2>1. PICK do : /\ Takes(p, do)
                  /\ \E v \in {"none", "ok", "err"} : Answers(p, v)
    BY <1>8 DEF Reload, Shutdown, Kill, Begins
  <2>2. UNCHANGED rest
    BY <1>8 DEF Reload, Shutdown, Kill
  <2> QED
    BY <1>3, <2>1, <2>2
<1>9. ASSUME \/ BootBegins \/ BootEnds \/ \E o \in Objects : BootStarts(o)
             \/ \E d \in Downs : ShutdownEnds(d) \/ \E o \in Objects : ShutdownLooks(d, o)
             \/ SignalReload \/ SignalShutdown \/ Exit
             \/ \E o \in Objects : \/ Promote(o) \/ Respawn(o)
                                   \/ \E k \in Kids : Exits(o, k)
             \/ vars' = vars
      PROVE  UNCHANGED opVars
  BY <1>9
  DEF BootBegins, BootEnds, BootStarts, ShutdownEnds, ShutdownLooks, SignalReload,
      SignalShutdown, Exit, Promote, Respawn, Exits, vars
<1> QED
  BY <1>1, <1>2, <1>4, <1>5, <1>6, <1>7, <1>8, <1>9
  DEF Next, OperatorStep, Goroutines
(* The rest; and whoever has cancelled the context has ended its Shutdown. *)
LEMMA NextRest == ASSUME Typed, [Next]_vars PROVE RestTyped'
<1>0. RestTyped /\ calm \in BOOLEAN
  BY DEF Typed, RestTyped
<1>1. CASE UNCHANGED <<boot, downVars, sig, endVars, marked>> /\ calm' \in BOOLEAN
  BY <1>0, <1>1 DEF RestTyped, downVars, endVars
<1>2. ASSUME NEW d \in Downs, Snapshot(d), UNCHANGED <<boot, endVars>>,
             calm' \in BOOLEAN, sig' \in Signals \cup {"none"}
      PROVE  RestTyped'
  <2>1. Managed \subseteq Objects
    BY ManagedTyped DEF Typed
  <2>2. marked' \subseteq Objects \X Kids
    BY <1>0, <1>2, <2>1 DEF Snapshot, RestTyped
  <2>3. /\ look' \in [Downs -> SUBSET Objects]
        /\ down' \in [Downs -> {"none", "looking", "over"}]
    BY <1>0, <1>2, <2>1 DEF Snapshot, RestTyped
  <2> QED
    BY <1>0, <1>2, <2>2, <2>3 DEF RestTyped, endVars
<1>3. ASSUME NEW p \in Operators, Call(p) \/ NextName(p) PROVE RestTyped'
  BY <1>0, <1>1, <1>3 DEF Call, NextName, Begins, KeepsRest
<1>4. ASSUME NEW p \in Operators, AddProcess(p) \/ RemoveProcess(p) \/ Reload(p)
      PROVE  RestTyped'
  <2>1. calm' \in BOOLEAN
    BY <1>0, <1>4 DEF AddProcess, RemoveProcess, Reload, Begins
  <2> QED
    BY <1>1, <1>4, <2>1 DEF AddProcess, RemoveProcess, Reload
<1>5. ASSUME NEW p \in Operators, Shutdown(p) PROVE RestTyped'
  <2>1. calm' \in BOOLEAN /\ sig' \in Signals \cup {"none"}
    BY <1>0, <1>5 DEF Shutdown, Begins, RestTyped
  <2> QED
    BY <1>2, <1>5, <2>1 DEF Shutdown, Downs
<1>6. ASSUME NEW p \in Operators, Kill(p) PROVE RestTyped'
  <2>1. /\ calm' \in BOOLEAN /\ gone' \in BOOLEAN /\ sig' \in Signals \cup {"none"}
        /\ UNCHANGED <<boot, downVars, cancelled, marked>>
    BY <1>0, <1>6 DEF Kill, Begins, RestTyped
  <2> QED
    BY <1>0, <2>1 DEF RestTyped, downVars
<1>7. ASSUME NEW c, CallStep(c) PROVE RestTyped'
  BY <1>0, <1>1, <1>7
  DEF CallStep, BeginStart, Spawn, BeginStop, Terminate, StopEnds, BeginRestart,
      RemoveLooks, LooksAgain, KeepsRest
<1>8. ASSUME NEW o \in Objects, BootStarts(o) PROVE RestTyped'
  BY <1>0, <1>1, <1>8 DEF BootStarts
<1>9. CASE BootBegins \/ BootEnds
  BY <1>0, <1>9 DEF BootBegins, BootEnds, RestTyped, downVars, endVars
<1>10. ASSUME NEW d \in Downs, ShutdownEnds(d) PROVE RestTyped'
  BY <1>0, <1>10 DEF ShutdownEnds, RestTyped
<1>11. ASSUME NEW d \in Downs, NEW o \in Objects, ShutdownLooks(d, o)
       PROVE  RestTyped'
  BY <1>0, <1>11 DEF ShutdownLooks, RestTyped, endVars
<1>12. CASE SignalReload
  BY <1>0, <1>12 DEF SignalReload, RestTyped, downVars, endVars
<1>13. CASE SignalShutdown
  BY <1>0, <1>2, <1>13 DEF SignalShutdown, Downs
<1>14. CASE Exit
  BY <1>0, <1>14 DEF Exit, RestTyped, downVars
<1>15. ASSUME NEW o \in Objects,
              Promote(o) \/ Respawn(o) \/ \E k \in Kids : Exits(o, k)
       PROVE  RestTyped'
  <2>1. calm' \in BOOLEAN
    BY <1>0, <1>15 DEF Promote, Respawn, Exits
  <2> QED
    BY <1>1, <1>15, <2>1 DEF Promote, Respawn, Exits, KeepsRest
<1>16. CASE vars' = vars
  BY <1>0, <1>1, <1>16 DEF vars
<1> QED
  BY <1>3, <1>4, <1>5, <1>6, <1>7, <1>8, <1>9, <1>10, <1>11, <1>12, <1>13, <1>14,
     <1>15, <1>16
  DEF Next, OperatorStep, Goroutines

LEMMA InitTyped == ASSUME Init PROVE Typed
<1>1. PICK f \in Files :
        /\ listed = DOMAIN f /\ made = Cardinality(DOMAIN f)
        /\ processes \in [DOMAIN f -> 1..made]
        /\ \A m, n \in DOMAIN f : processes[m] = processes[n] => m = n
        /\ nameOf = [o \in 1..made |-> CHOOSE n \in DOMAIN f : processes[n] = o]
        /\ conf = [o \in 1..made |-> f[nameOf[o]]]
  BY DEF Init
<1>2. /\ DOMAIN f \subseteq Names /\ \A n \in DOMAIN f : f[n] \in Confs
      /\ IsFiniteSet(DOMAIN f) /\ made \in Nat
  <2>1. DOMAIN f \subseteq Names /\ \A n \in DOMAIN f : f[n] \in Confs
    BY FilesAreSections
  <2> QED
    BY <1>1, <2>1, FS_Subset, FS_CardinalityType, SupervisorAssumption
<1>3. \A o \in 1..made : \E n \in DOMAIN f : processes[n] = o
  <2>1. /\ 0 \in Nat /\ made = 0 + Cardinality(DOMAIN f)
        /\ processes \in [DOMAIN f -> (0 + 1)..made]
    BY <1>1, <1>2
  <2>2. \A o \in (0 + 1)..made : \E n \in DOMAIN f : processes[n] = o
    BY <1>1, <1>2, <2>1, NumbersAreUsed
  <2> QED
    BY <2>2
<1>4. \A o \in 1..made : nameOf[o] \in DOMAIN f /\ processes[nameOf[o]] = o
  BY <1>1, <1>3
<1>5. made <= MaxObjects
  BY <1>1, SupervisorAssumption
<1>6. MapTyped
  <2>1. \A n \in DOMAIN processes :
          processes[n] \in 1..made /\ nameOf[processes[n]] = n
    BY <1>1, <1>4
  <2> QED
    BY <1>1, <1>2, <1>4, <1>5, <2>1, SupervisorAssumption DEF MapTyped
<1>7. ObjTyped
  BY FS_EmptySet, SupervisorAssumption DEF Init, ObjTyped, Statuses
<1>8. CallTyped /\ OpTyped /\ RestTyped
  BY EmptySeq DEF Init, CallTyped, OpTyped, RestTyped, Busy
<1> QED
  BY <1>6, <1>7, <1>8 DEF Typed

(* Typed, however commands, signals, reloads and deaths overlap.           *)
LEMMA NextTyped == ASSUME Typed, [Next]_vars PROVE Typed'
BY NextMap, NextObjects, NextCalls, NextOps, NextRest DEF Typed

(* TypeOK: the map points at objects made for its names and lists exactly  *)
(* cfg.Programs, whatever is added, removed or reloaded meanwhile          *)
(* (supervisor.go:51-87, 248-284, 361-410).                                *)
THEOREM SupervisorTypes == Spec => []TypeOK
<1>1. Init => Typed
  BY InitTyped
<1>2. Typed /\ [Next]_vars => Typed'
  BY NextTyped
<1>3. Typed => TypeOK
  BY TypedIsTypeOK
<1> QED
  BY <1>1, <1>2, <1>3, PTL DEF Spec
-----------------------------------------------------------------------------
(* A calm daemon does one thing at a time, and a child is always either    *)
(* the one child of a program that is up and can be named, or the business *)
(* of a call under way.  The invariant says so of each thing it may be     *)
(* doing; TypeOK and the properties do not, and are not inductive alone.   *)

Unshut == \A d \in Downs : down[d] = "none"
Unbusy == \A p \in Operators : ~Busy(p)
Ending(c) == c.pc \in {"remove", "look", "stop", "term", "wait"}
Stopping(c) == c.pc \in {"stop", "term", "wait"} /\ ~c.again

(* Start() starts programs of the map, while nobody else does anything.    *)
WhileBoot == boot # "done" =>
  /\ sig = "none" /\ Unshut /\ Unbusy
  /\ \A c \in calls : c.by = "boot"
  /\ todo \subseteq Managed

WhileSignal == sig # "none" => boot = "done" /\ calls = {} /\ Unshut /\ Unbusy

(* One handler is busy, and the only call is its own.                      *)
WhileBusy == \A p \in Operators : Busy(p) =>
  /\ boot = "done" /\ sig = "none" /\ Unshut
  /\ \A q \in Operators : Busy(q) => q = p
  /\ opc[p] = "next" => calls = {}
  /\ opc[p] = "call" => \E c \in calls : calls = {c} /\ c.by = p

(* What runs is still to be looked at by the Shutdown, or being stopped.   *)
WhileDown == \A d \in Downs : down[d] # "none" =>
  /\ boot = "done" /\ sig = "none" /\ Unbusy
  /\ \A e \in Downs : down[e] # "none" => e = d
  /\ \A c \in calls : /\ c.by = d /\ c.obj \notin look[d]
                      /\ Stopping(c) \/ c.pc = "look"
  /\ \A o \in Objects :
       alive[o] # {} => o \in look[d] \/ \E c \in calls : c.obj = o
  /\ down[d] = "over" => calls = {} /\ look[d] = {}

Ended ==
  /\ cancelled => \E d \in Downs : down[d] = "over"
  /\ \A d \in Downs : look[d] # {} => down[d] = "looking"

OneCall  == \A c, d \in calls : c.obj = d.obj => c = d
OneChild == \A o \in Objects : due[o] = 0 /\ alive[o] \subseteq {latest[o]}

Tended == \A o \in Objects : alive[o] # {} =>
  /\ Up(o) \/ \E c \in calls : c.obj = o /\ c.pc \in {"term", "wait"}
  /\ o \in Managed \/ \E c \in calls : c.obj = o /\ Ending(c)

Sound(c) ==
  /\ c.pc = "spawn" => status[c.obj] = "STARTING" /\ alive[c.obj] = {}
  /\ c.pc = "wait" => c.child = latest[c.obj]
  /\ c.again \/ ~Ending(c) => c.obj \in Managed
  /\ c.again => c.pc \in {"stop", "term", "wait"}

Calling == \A c \in calls : Sound(c)

(* A handler that stops programs: none of those it has done has a child.   *)
Stopped(n) == \A o \in 1..made : nameOf[o] = n => alive[o] = {}

Told == \A p \in Operators : Busy(p) /\ doing[p].do = "stop" =>
  /\ opc[p] = "call" =>
       /\ Head(rest[p]) \in DOMAIN processes
       /\ \A c \in calls : c.obj = processes[Head(rest[p])] /\ Stopping(c)
  /\ \A i \in DOMAIN doing[p].names :
       \/ \E k \in DOMAIN rest[p] : rest[p][k] = doing[p].names[i]
       \/ Stopped(doing[p].names[i])

Calmly ==
  /\ WhileBoot /\ WhileSignal /\ WhileBusy /\ WhileDown /\ Ended
  /\ OneCall /\ OneChild /\ Tended /\ Calling /\ Told

CalmInv == Typed /\ (calm => Calmly)

(* Nothing is under way: what every command finds in a calm daemon.        *)
Quiet ==
  /\ boot = "done" /\ calls = {} /\ Unshut /\ Unbusy
  /\ \A o \in Objects : alive[o] # {} => Up(o) /\ o \in Managed

LEMMA CalmBefore == ASSUME Typed, [Next]_vars, calm' PROVE calm
<1>1. ASSUME NEW p \in Operators, OperatorStep(p) \/ NextName(p) PROVE calm
  BY <1>1
  DEF OperatorStep, Call, AddProcess, RemoveProcess, Reload, Shutdown, Kill,
      NextName, Begins
<1>2. ASSUME NEW c, CallStep(c) PROVE calm
  BY <1>2
  DEF CallStep, BeginStart, Spawn, BeginStop, Terminate, StopEnds, BeginRestart,
      RemoveLooks, LooksAgain
<1>3. ASSUME \/ BootBegins \/ BootEnds \/ \E o \in Objects : BootStarts(o)
             \/ \E d \in Downs : ShutdownEnds(d) \/ \E o \in Objects : ShutdownLooks(d, o)
             \/ SignalReload \/ SignalShutdown \/ Exit
             \/ \E o \in Objects : \/ Promote(o) \/ Respawn(o)
                                   \/ \E k \in Kids : Exits(o, k)
             \/ vars' = vars
      PROVE  calm
  BY <1>3
  DEF BootBegins, BootEnds, BootStarts, ShutdownEnds, ShutdownLooks, SignalReload,
      SignalShutdown, Exit, Promote, Respawn, Exits, vars
<1> QED
  BY <1>1, <1>2, <1>3 DEF Next, Goroutines

(* Nothing that the invariant reads changes.                               *)
LEMMA CalmIfUnchanged ==
  ASSUME Calmly,
         UNCHANGED <<processes, made, nameOf, status, alive, latest, due, calls,
                     boot, todo, opc, doing, rest, down, look, sig, cancelled>>
  PROVE  Calmly'
<1>1. WhileBoot' /\ WhileSignal' /\ WhileBusy' /\ WhileDown' /\ Ended'
  BY DEF Calmly, WhileBoot, WhileSignal, WhileBusy, WhileDown, Ended, Unshut,
         Unbusy, Busy, Managed
<1>2. OneCall' /\ OneChild' /\ Tended' /\ Calling'
  BY DEF Calmly, OneCall, OneChild, Tended, Calling, Sound, Ending, Managed, Up
<1>3. Told'
  BY DEF Calmly, Told, Busy, Stopped
<1> QED
  BY <1>1, <1>2, <1>3 DEF Calmly

LEMMA SettledIsQuiet == ASSUME Settled PROVE Quiet
BY DEF Settled, Quiet, Unshut, Unbusy, Busy

LEMMA CalmIsQuiet ==
  ASSUME Calmly, boot = "done", calls = {}, Unshut, Unbusy
  PROVE  Quiet
BY DEF Calmly, Quiet, Tended

LEMMA QuietEnds ==
  ASSUME Typed, Quiet, Calmly
  PROVE  ~cancelled /\ \A d \in Downs : look[d] = {} /\ down[d] = "none"
<1>1. \A d \in Downs : down[d] = "none"
  BY DEF Quiet, Unshut
<1> QED
  BY <1>1 DEF Calmly, Ended

(* The invariant in a state where nobody is busy and nothing shuts down.   *)
LEMMA CalmAnew ==
  ASSUME (boot = "done")', Unshut', Unbusy', OneChild',
         (calls # {} => sig = "none")',
         (~cancelled)', (\A d \in Downs : look[d] = {})',
         OneCall', Tended', Calling'
  PROVE  Calmly'
<1>1. WhileBoot' /\ WhileSignal'
  BY DEF WhileBoot, WhileSignal
<1>2. WhileBusy' /\ Told'
  BY DEF WhileBusy, Told, Unbusy
<1>3. WhileDown' /\ Ended'
  BY DEF WhileDown, Ended, Unshut
<1> QED
  BY <1>1, <1>2, <1>3 DEF Calmly

LEMMA QuietIsCalm ==
  ASSUME Quiet', OneChild', (~cancelled)', (\A d \in Downs : look[d] = {})'
  PROVE  Calmly'
<1>1. OneCall' /\ Tended' /\ Calling'
  BY DEF Quiet, OneCall, Tended, Calling
<1> QED
  BY <1>1, CalmAnew DEF Quiet
(* Commands.  What a handler does to itself.                               *)
LEMMA AnswerIsIdle ==
  ASSUME Typed, Unbusy, NEW p \in Operators, NEW v, Answers(p, v)
  PROVE  Unbusy'
<1>1. \A q \in Operators : opc'[q] = IF q = p THEN "over" ELSE opc[q]
  BY DEF Answers, Typed, OpTyped
<1> QED
  BY <1>1 DEF Unbusy, Busy

LEMMA CallIsCalm ==
  ASSUME Typed, Calmly, calm', NEW p \in Operators, Call(p)
  PROVE  Calmly'
<1>0. Settled /\ Quiet /\ sig = "none"
  <2>1. Settled
    BY DEF Call, Begins
  <2> QED
    BY <2>1, SettledIsQuiet DEF Settled
<1>1. /\ UNCHANGED <<processes, made, nameOf, status, alive, latest, due, calls,
                     boot, todo, down, look, sig, cancelled>>
      /\ ~cancelled /\ \A d \in Downs : look[d] = {}
  BY <1>0, QuietEnds
  DEF Call, KeepsRest, mapVars, objVars, downVars, endVars
<1>2. OneChild' /\ Unshut' /\ (boot = "done" /\ sig = "none" /\ calls = {})'
  BY <1>0, <1>1 DEF Calmly, OneChild, Quiet, Unshut
<1>3. CASE Answers(p, "err")
  <2>1. Unbusy'
    BY <1>0, <1>3, AnswerIsIdle DEF Quiet
  <2>2. Quiet'
    BY <1>0, <1>1, <1>2, <2>1 DEF Quiet, Up, Managed
  <2> QED
    BY <1>1, <1>2, <2>2, QuietIsCalm
<1>4. CASE opc' = [opc EXCEPT ![p] = "next"]
  <2>1. \A q \in Operators : opc'[q] = IF q = p THEN "next" ELSE opc[q]
    BY <1>4 DEF Typed, OpTyped
  <2>2. \A q \in Operators : (Busy(q))' => q = p
    BY <1>0, <2>1 DEF Quiet, Unbusy, Busy
  <2>3. rest'[p] = doing'[p].names
    BY DEF Call, Typed, OpTyped
  <2>4. WhileBoot' /\ WhileSignal' /\ WhileDown' /\ Ended'
    BY <1>1, <1>2 DEF WhileBoot, WhileSignal, WhileDown, Ended, Unshut
  <2>5. WhileBusy'
    BY <1>2, <2>1, <2>2 DEF WhileBusy
  <2>6. OneCall' /\ Tended' /\ Calling'
    BY <1>0, <1>1, <1>2 DEF OneCall, Tended, Calling, Quiet, Up, Managed
  <2>7. Told'
    BY <2>1, <2>2, <2>3 DEF Told
  <2> QED
    BY <1>2, <2>4, <2>5, <2>6, <2>7 DEF Calmly
<1> QED
  BY <1>3, <1>4 DEF Call

LEMMA KillIsCalm ==
  ASSUME Typed, Calmly, calm', NEW p \in Operators, Kill(p)
  PROVE  Calmly'
<1>0. Quiet
  BY SettledIsQuiet DEF Kill, Begins
<1>1. /\ UNCHANGED <<processes, status, alive, latest, due, calls, boot, down,
                     look, cancelled>>
      /\ ~cancelled /\ \A d \in Downs : look[d] = {}
  BY <1>0, QuietEnds DEF Kill, mapVars, objVars, downVars
<1>2. OneChild'
  BY <1>1 DEF Calmly, OneChild
<1>3. Unbusy'
  BY <1>0, AnswerIsIdle DEF Quiet, Kill
<1>4. Quiet'
  BY <1>0, <1>1, <1>3 DEF Quiet, Unshut, Up, Managed
<1> QED
  BY <1>1, <1>2, <1>4, QuietIsCalm

LEMMA SnapshotIsCalm ==
  ASSUME Typed, Quiet, Calmly, NEW d \in Downs, Snapshot(d), (sig = "none")', Unbusy',
         UNCHANGED <<processes, status, alive, latest, due, calls, boot, cancelled>>
  PROVE  Calmly'
<1>0. /\ ~cancelled /\ \A e \in Downs : look[e] = {} /\ down[e] = "none"
      /\ boot' = "done" /\ calls' = {} /\ sig' = "none" /\ ~cancelled'
  BY QuietEnds DEF Quiet
<1>1. \A e \in Downs : /\ down'[e] = IF e = d THEN "looking" ELSE "none"
                       /\ look'[e] = IF e = d THEN Managed ELSE {}
  BY <1>0 DEF Snapshot, Typed, RestTyped
<1>2. WhileBoot' /\ WhileSignal' /\ WhileBusy' /\ Told' /\ Ended'
  BY <1>0, <1>1
  DEF WhileBoot, WhileSignal, WhileBusy, Told, Ended, Unbusy
<1>3. WhileDown'
  BY <1>0, <1>1 DEF WhileDown, Quiet
<1>4. OneCall' /\ OneChild' /\ Tended' /\ Calling'
  BY <1>0 DEF OneCall, OneChild, Tended, Calling, Quiet, Calmly, Up, Managed
<1> QED
  BY <1>2, <1>3, <1>4 DEF Calmly

LEMMA ShutdownIsCalm ==
  ASSUME Typed, Calmly, calm', NEW p \in Operators, Shutdown(p)
  PROVE  Calmly'
<1>0. Quiet /\ sig = "none"
  BY SettledIsQuiet DEF Shutdown, Begins, Settled
<1>1. /\ UNCHANGED <<processes, status, alive, latest, due, calls, boot, cancelled>>
      /\ (sig = "none")'
  BY <1>0 DEF Shutdown, mapVars, objVars, endVars
<1>2. Unbusy'
  BY <1>0, AnswerIsIdle DEF Quiet, Shutdown
<1> QED
  BY <1>0, <1>1, <1>2, SnapshotIsCalm DEF Shutdown, Downs

LEMMA SignalShutdownIsCalm ==
  ASSUME Typed, Calmly, SignalShutdown
  PROVE  Calmly'
<1>1. boot = "done" /\ calls = {} /\ Unshut /\ Unbusy
  BY DEF SignalShutdown, Calmly, WhileSignal
<1>2. Quiet
  BY <1>1, CalmIsQuiet
<1>3. /\ UNCHANGED <<processes, status, alive, latest, due, calls, boot, cancelled>>
      /\ (sig = "none")' /\ UNCHANGED opc
  BY DEF SignalShutdown, mapVars, objVars, endVars, opVars
<1>4. Unbusy'
  BY <1>1, <1>3 DEF Unbusy, Busy
<1> QED
  BY <1>2, <1>3, <1>4, SnapshotIsCalm DEF SignalShutdown, Downs
LEMMA RemoveIsCalm ==
  ASSUME Typed, Calmly, calm', NEW p \in Operators, RemoveProcess(p)
  PROVE  Calmly'
<1> DEFINE n == Head(doing'[p].names)
<1>0. Quiet /\ sig = "none"
  BY SettledIsQuiet DEF RemoveProcess, Begins, Settled
<1>1. /\ UNCHANGED <<status, alive, latest, due, boot, down, look, sig, cancelled>>
      /\ ~cancelled /\ \A d \in Downs : look[d] = {}
  BY <1>0, QuietEnds DEF RemoveProcess, objVars, downVars, endVars
<1>2. OneChild' /\ Unshut' /\ (boot = "done" /\ sig = "none")' /\ calls = {}
  BY <1>0, <1>1 DEF Calmly, OneChild, Quiet, Unshut
<1>3. CASE Answers(p, "err") /\ UNCHANGED <<mapVars, calls>>
  <2>1. Unbusy'
    BY <1>0, <1>3, AnswerIsIdle DEF Quiet
  <2>2. Quiet'
    BY <1>0, <1>1, <1>2, <1>3, <2>1 DEF Quiet, Up, Managed, mapVars
  <2> QED
    BY <1>1, <1>2, <2>2, QuietIsCalm
<1>4. CASE /\ n \in DOMAIN processes /\ Forget(n)
           /\ calls' = calls \cup {Frame(p, processes[n], "remove")}
           /\ opc' = [opc EXCEPT ![p] = "call"]
  <2> DEFINE c == Frame(p, processes[n], "remove")
  <2>1. /\ calls' = {c} /\ c.by = p /\ c.obj = processes[n] /\ c.pc = "remove"
        /\ ~c.again /\ doing'[p].do = "remove"
    <3>1. doing'[p].do = "remove"
      BY TakenTyped DEF RemoveProcess, Begins, Typed
    <3> QED
      BY <1>2, <1>4, <3>1 DEF Frame
  <2>2. \A q \in Operators : opc'[q] = IF q = p THEN "call" ELSE opc[q]
    BY <1>4 DEF Typed, OpTyped
  <2>3. \A q \in Operators : (Busy(q))' => q = p
    BY <1>0, <2>2 DEF Quiet, Unbusy, Busy
  <2>4. \A o \in Managed : o \in Managed' \/ o = processes[n]
    <3>1. /\ DOMAIN processes' = DOMAIN processes \ {n}
          /\ \A m \in DOMAIN processes' : processes'[m] = processes[m]
      BY <1>4 DEF Forget
    <3> HIDE DEF n
    <3> QED
      BY <3>1 DEF Managed
  <2> HIDE DEF n, c
  <2>5. WhileBoot' /\ WhileSignal' /\ WhileDown' /\ Ended'
    BY <1>1, <1>2 DEF WhileBoot, WhileSignal, WhileDown, Ended, Unshut
  <2>6. WhileBusy'
    BY <1>2, <2>1, <2>2, <2>3 DEF WhileBusy
  <2>7. OneCall' /\ Calling' /\ Told'
    BY <2>1, <2>3 DEF OneCall, Calling, Sound, Ending, Told
  <2>8. Tended'
    BY <1>0, <1>1, <2>1, <2>4 DEF Tended, Quiet, Up, Ending
  <2> QED
    BY <1>2, <2>5, <2>6, <2>7, <2>8 DEF Calmly
<1> QED
  BY <1>3, <1>4 DEF RemoveProcess

LEMMA AddIsCalm ==
  ASSUME Typed, Calmly, calm', NEW p \in Operators, AddProcess(p)
  PROVE  Calmly'
<1> DEFINE n == Head(doing'[p].names)
<1>0. Quiet /\ sig = "none"
  BY SettledIsQuiet DEF AddProcess, Begins, Settled
<1>1. /\ UNCHANGED <<status, alive, latest, due, boot, down, look, sig, cancelled>>
      /\ ~cancelled /\ \A d \in Downs : look[d] = {}
  BY <1>0, QuietEnds DEF AddProcess, downVars, endVars
<1>2. OneChild' /\ Unshut' /\ (boot = "done" /\ sig = "none")' /\ calls = {}
  BY <1>0, <1>1 DEF Calmly, OneChild, Quiet, Unshut
<1>3. Unbusy'
  BY <1>0, AnswerIsIdle DEF Quiet, AddProcess
<1>4. CASE UNCHANGED <<mapVars, calls>>
  <2>1. Quiet'
    BY <1>0, <1>1, <1>2, <1>3, <1>4 DEF Quiet, Up, Managed, mapVars
  <2> QED
    BY <1>1, <1>2, <2>1, QuietIsCalm
<1>5. ASSUME n \notin DOMAIN processes, NEW c \in Confs, Makes([m \in {n} |-> c]),
             processes' = [m \in DOMAIN processes \cup {n} |->
                             IF m = n THEN made' ELSE processes[m]],
             calls' = calls \cup Autostarts
      PROVE  Calmly'
  <2>1. Managed \subseteq Managed' /\ made' \in Managed'
    <3> HIDE DEF n
    <3> QED
      BY <1>5 DEF Managed
  <2>2. made' = made + 1 /\ made \in Int
    <3>1. made' = made + Cardinality({n})
      BY <1>5 DEF Makes
    <3>2. Cardinality({n}) = 1
      BY FS_Singleton
    <3>3. made \in Int
      BY DEF Typed, MapTyped
    <3> QED
      BY <3>1, <3>2, <3>3
  <2>3. \A d \in calls' : d = Frame("go", made', "start")
    <3>1. \A d \in calls' : \E q \in (made + 1)..made' : d = Frame("go", q, "start")
      BY <1>2, <1>5 DEF Autostarts
    <3> QED
      BY <2>2, <3>1
  <2>4. \A d \in calls' : d.obj = made' /\ d.pc = "start" /\ ~d.again
    BY <2>3 DEF Frame
  <2>5. OneCall' /\ Calling'
    BY <2>1, <2>3, <2>4 DEF OneCall, Calling, Sound, Ending
  <2>6. Tended'
    BY <1>0, <1>1, <2>1 DEF Tended, Quiet, Up
  <2> QED
    BY <1>1, <1>2, <1>3, <2>5, <2>6, CalmAnew
<1> QED
  BY <1>4, <1>5 DEF AddProcess

(* A reload.  What it makes has new numbers, what it drops old ones; and a *)
(* program that it drops and that runs is RUNNING, so that it stops it.    *)
LEMMA InstallIsCalm ==
  ASSUME Typed, Calmly, Quiet, NEW f \in Files, Install(f), ~HasStarting(f),
         Unbusy', (sig = "none")', UNCHANGED <<boot, down, look, cancelled>>
  PROVE  Calmly'
<1> DEFINE fresh == DOMAIN f \ DOMAIN processes
           g == [m \in fresh |-> f[m]]
<1>1. /\ UNCHANGED <<status, alive, latest, due>> /\ calls = {}
      /\ ~cancelled' /\ \A d \in Downs : look'[d] = {}
  BY QuietEnds DEF Install, Quiet
<1>2. OneChild' /\ Unshut' /\ (boot = "done")'
  BY <1>1 DEF Calmly, OneChild, Quiet, Unshut
<1>3. /\ made \in Int /\ made' \in Int
      /\ \A n \in fresh : \E o \in (made + 1)..made' : nameOf'[o] = n
      /\ \A o \in (made + 1)..made' : nameOf'[o] \in fresh
      /\ \A o, q \in (made + 1)..made' : nameOf'[o] = nameOf'[q] => o = q
  <2>1. Makes(g) /\ DOMAIN g = fresh /\ fresh \subseteq Names
    BY FilesAreSections DEF Install
  <2>2. made \in Int /\ MapTyped
    BY DEF Typed, MapTyped
  <2> HIDE DEF g
  <2>3. /\ made' \in made..MaxObjects
        /\ \A o \in (made + 1)..made' : nameOf'[o] \in DOMAIN g
        /\ \A n \in DOMAIN g : \E o \in (made + 1)..made' : nameOf'[o] = n
        /\ \A o, q \in (made + 1)..made' : nameOf'[o] = nameOf'[q] => o = q
    BY <2>1, <2>2, MadeForNames
  <2> QED
    BY <2>1, <2>2, <2>3
<1>4. processes' = [n \in DOMAIN f |->
        IF n \in fresh THEN CHOOSE o \in (made + 1)..made' : nameOf'[o] = n
                       ELSE processes[n]]
  BY DEF Install
<1>5. ASSUME NEW o \in (made + 1)..made' PROVE o \in Managed'
  <2>1. nameOf'[o] \in fresh /\ processes'[nameOf'[o]] = o
    BY <1>3, <1>4
  <2> QED
    BY <1>4, <2>1 DEF Managed
<1>6. ASSUME NEW o \in Managed PROVE o \in Managed' \/ o \in Dropped(f)
  <2>1. PICK n \in DOMAIN processes : o = processes[n]
    BY DEF Managed
  <2>2. CASE n \in DOMAIN f
    BY <1>4, <2>1, <2>2 DEF Managed
  <2>3. CASE n \notin DOMAIN f
    BY <2>1, <2>3 DEF Dropped
  <2> QED
    BY <2>2, <2>3
<1>7. ASSUME NEW c \in calls'
      PROVE  \/ c.obj \in (made + 1)..made' /\ c = Frame("go", c.obj, "start")
             \/ c.obj \in 1..made /\ c = Frame("go", c.obj, "stop")
  <2>1. CASE c \in Autostarts
    BY <2>1 DEF Autostarts, Frame
  <2>2. CASE c \in DropStops(f)
    <3>1. PICK o \in Dropped(f) : c = Frame("go", o, "stop")
      BY <2>2 DEF DropStops
    <3>2. o \in 1..made
      BY <3>1 DEF Dropped, Typed, MapTyped
    <3> QED
      BY <3>1, <3>2 DEF Frame
  <2> QED
    BY <1>1, <2>1, <2>2 DEF Install
<1>8. OneCall'
  <2> SUFFICES ASSUME NEW c \in calls', NEW d \in calls', c.obj = d.obj PROVE c = d
    BY DEF OneCall
  <2> QED
    BY <1>3, <1>7
<1>9. Calling'
  <2> SUFFICES ASSUME NEW c \in calls' PROVE (Sound(c))'
    BY DEF Calling
  <2>1. CASE c.obj \in (made + 1)..made' /\ c = Frame("go", c.obj, "start")
    <3>1. c.pc = "start" /\ ~c.again /\ c.obj \in Managed'
      BY <1>5, <2>1 DEF Frame
    <3> QED
      BY <3>1 DEF Sound
  <2>2. CASE c.obj \in 1..made /\ c = Frame("go", c.obj, "stop")
    <3>1. c.pc = "stop" /\ ~c.again
      BY <2>2 DEF Frame
    <3> QED
      BY <3>1 DEF Sound, Ending
  <2> QED
    BY <1>7, <2>1, <2>2
<1>10. Tended'
  <2> SUFFICES ASSUME NEW o \in Objects, alive'[o] # {}
               PROVE  /\ (Up(o))'
                      /\ o \in Managed' \/ \E c \in calls' : c.obj = o /\ Ending(c)
    BY DEF Tended
  <2>1. alive[o] # {} /\ Up(o) /\ o \in Managed
    BY <1>1 DEF Quiet
  <2>2. (Up(o))'
    BY <1>1, <2>1 DEF Up
  <2>3. CASE o \in Dropped(f)
    <3>1. status[o] = "RUNNING"
      BY <2>1, <2>3 DEF HasStarting, Up
    <3>2. Frame("go", o, "stop") \in calls'
      BY <2>3, <3>1 DEF Install, DropStops
    <3> QED
      BY <2>2, <3>2 DEF Frame, Ending
  <2> QED
    BY <1>6, <2>1, <2>2, <2>3
<1>11. (calls # {} => sig = "none")'
  OBVIOUS
<1> QED
  BY <1>1, <1>2, <1>8, <1>9, <1>10, <1>11, CalmAnew

LEMMA ReloadIsCalm ==
  ASSUME Typed, Calmly, calm', NEW p \in Operators, Reload(p)
  PROVE  Calmly'
<1>0. Quiet /\ sig = "none"
  BY SettledIsQuiet DEF Reload, Settled
<1>1. /\ UNCHANGED <<boot, down, look, sig, cancelled>>
      /\ ~cancelled /\ \A d \in Downs : look[d] = {}
  BY <1>0, QuietEnds DEF Reload, downVars, endVars
<1>2. Unbusy'
  BY <1>0, AnswerIsIdle DEF Quiet, Reload
<1>3. ASSUME NEW f \in Files, Install(f), ~HasStarting(f) PROVE Calmly'
  BY <1>0, <1>1, <1>2, <1>3, InstallIsCalm
<1>4. CASE UNCHANGED <<mapVars, objVars, calls>>
  <2>1. Quiet' /\ OneChild'
    BY <1>0, <1>1, <1>2, <1>4
    DEF Quiet, Unshut, Up, Managed, mapVars, objVars, Calmly, OneChild
  <2> QED
    BY <1>1, <2>1, QuietIsCalm
<1> QED
  BY <1>3, <1>4 DEF Reload

LEMMA SignalReloadIsCalm ==
  ASSUME Typed, Calmly, calm', SignalReload
  PROVE  Calmly'
<1>0. boot = "done" /\ calls = {} /\ Unshut /\ Unbusy
  BY DEF SignalReload, Calmly, WhileSignal
<1>1. Quiet
  BY <1>0, CalmIsQuiet
<1>2. /\ UNCHANGED <<boot, down, look, cancelled, opc>> /\ sig' = "none"
      /\ ~cancelled /\ \A d \in Downs : look[d] = {}
  BY <1>1, QuietEnds DEF SignalReload, downVars, endVars, opVars
<1>3. Unbusy'
  BY <1>0, <1>2 DEF Unbusy, Busy
<1>4. ASSUME NEW f \in Files, Install(f), ~HasStarting(f) PROVE Calmly'
  BY <1>1, <1>2, <1>3, <1>4, InstallIsCalm
<1>5. CASE UNCHANGED <<mapVars, objVars, calls>>
  <2>1. Quiet' /\ OneChild'
    BY <1>1, <1>2, <1>3, <1>5
    DEF Quiet, Unshut, Up, Managed, mapVars, objVars, Calmly, OneChild
  <2> QED
    BY <1>2, <2>1, QuietIsCalm
<1> QED
  BY <1>4, <1>5 DEF SignalReload
(* The next name of a handler that starts, stops or restarts programs.     *)
LEMMA NextNameIsCalm ==
  ASSUME Typed, Calmly, NEW p \in Operators, NextName(p)
  PROVE  Calmly'
<1> DEFINE n == Head(rest[p])
<1>0. /\ opc[p] = "next" /\ Busy(p) /\ boot = "done" /\ sig = "none" /\ Unshut
      /\ calls = {} /\ \A q \in Operators : Busy(q) => q = p
  BY DEF NextName, Busy, Calmly, WhileBusy
<1>1. UNCHANGED <<processes, made, nameOf, status, alive, latest, due, boot, todo,
                  doing, rest, down, look, sig, cancelled>>
  BY DEF NextName, KeepsRest, mapVars, objVars, downVars, endVars
<1>2. ~cancelled' /\ \A d \in Downs : look'[d] = {} /\ down'[d] = "none"
  <2>1. \A d \in Downs : down[d] = "none"
    BY <1>0 DEF Unshut
  <2> QED
    BY <1>1, <2>1 DEF Calmly, Ended
<1>3. /\ OneChild' /\ Unshut' /\ (boot = "done" /\ sig = "none")'
      /\ \A o \in Objects : alive[o] # {} => Up(o) /\ o \in Managed
  BY <1>0, <1>1, <1>2 DEF Calmly, OneChild, Unshut, Tended
<1>4. CASE Answers(p, "err") /\ UNCHANGED calls
  <2>1. \A q \in Operators : opc'[q] = IF q = p THEN "over" ELSE opc[q]
    BY <1>4 DEF Answers, Typed, OpTyped
  <2>2. Unbusy'
    BY <1>0, <2>1 DEF Unbusy, Busy
  <2>3. Quiet'
    BY <1>0, <1>1, <1>3, <1>4, <2>2 DEF Quiet, Up, Managed
  <2> QED
    BY <1>2, <1>3, <2>3, QuietIsCalm
<1>5. CASE /\ n \in DOMAIN processes
           /\ calls' = calls \cup {Frame(p, processes[n], doing[p].do)}
           /\ opc' = [opc EXCEPT ![p] = "call"]
  <2> DEFINE c == Frame(p, processes[n], doing[p].do)
  <2>1. /\ calls' = {c} /\ c.by = p /\ c.obj = processes[n] /\ c.pc = doing[p].do
        /\ ~c.again
    BY <1>0, <1>5 DEF Frame
  <2>2. doing[p].do \in {"start", "stop", "restart"} /\ processes[n] \in Managed
    BY <1>0, <1>5 DEF Typed, OpTyped, Calls, Managed
  <2>3. \A q \in Operators : opc'[q] = IF q = p THEN "call" ELSE opc[q]
    BY <1>5 DEF Typed, OpTyped
  <2>4. \A q \in Operators : (Busy(q))' => q = p
    BY <1>0, <2>3 DEF Busy
  <2> HIDE DEF c
  <2>5. WhileBoot' /\ WhileSignal' /\ WhileDown' /\ Ended'
    BY <1>2, <1>3 DEF WhileBoot, WhileSignal, WhileDown, Ended
  <2>6. WhileBusy'
    BY <1>3, <2>1, <2>3, <2>4 DEF WhileBusy
  <2>7. OneCall'
    BY <2>1 DEF OneCall
  <2>8. Calling'
    BY <1>1, <2>1, <2>2 DEF Calling, Sound, Ending, Managed
  <2>9. Tended'
    BY <1>1, <1>3 DEF Tended, Up, Managed
  <2>10. Told'
    <3> SUFFICES ASSUME NEW q \in Operators, (Busy(q) /\ doing[q].do = "stop")'
                 PROVE  /\ Head(rest[q]) \in DOMAIN processes
                        /\ \A d \in calls' :
                             d.obj = processes[Head(rest[q])] /\ Stopping(d)
                        /\ \A i \in DOMAIN doing[q].names :
                             \/ \E k \in DOMAIN rest[q] : rest[q][k] = doing[q].names[i]
                             \/ Stopped(doing[q].names[i])
      BY <1>1 DEF Told, Stopped
    <3>1. q = p /\ doing[p].do = "stop"
      BY <1>1, <2>4
    <3>2. \A i \in DOMAIN doing[q].names :
            \/ \E k \in DOMAIN rest[q] : rest[q][k] = doing[q].names[i]
            \/ Stopped(doing[q].names[i])
      BY <1>0, <3>1 DEF Calmly, Told
    <3>3. Stopping(c)
      BY <2>1, <3>1 DEF Stopping
    <3> QED
      BY <1>5, <2>1, <3>1, <3>2, <3>3
  <2> QED
    BY <1>3, <2>5, <2>6, <2>7, <2>8, <2>9, <2>10 DEF Calmly
<1> QED
  BY <1>4, <1>5 DEF NextName

(* Shutdown().                                                             *)
LEMMA ShutdownLooksIsCalm ==
  ASSUME Typed, Calmly, NEW d \in Downs, NEW o \in Objects, ShutdownLooks(d, o)
  PROVE  Calmly'
<1>0. /\ o \in look[d] /\ down[d] = "looking" /\ boot = "done" /\ sig = "none"
      /\ Unbusy /\ \A e \in Downs : down[e] # "none" => e = d
      /\ \A c \in calls : /\ c.by = d /\ c.obj \notin look[d]
                          /\ Stopping(c) \/ c.pc = "look"
      /\ \A q \in Objects :
           alive[q] # {} => q \in look[d] \/ \E c \in calls : c.obj = q
  BY DEF ShutdownLooks, Calmly, Ended, WhileDown
<1>1. /\ UNCHANGED <<processes, made, nameOf, status, alive, latest, due, boot, todo,
                     opc, doing, rest, down, sig, cancelled>>
      /\ \A e \in Downs : look'[e] = IF e = d THEN look[d] \ {o} ELSE look[e]
  BY DEF ShutdownLooks, mapVars, objVars, opVars, endVars, Typed, RestTyped
<1> DEFINE c == Frame(d, o, IF status[o] = "RUNNING" THEN "stop" ELSE "look")
<1>2. c.by = d /\ c.obj = o /\ c.pc \in {"stop", "look"} /\ ~c.again
  BY DEF Frame
<1>3. calls' = calls \cup {c}
  BY DEF ShutdownLooks
<1> HIDE DEF c
<1>5. WhileBoot' /\ WhileSignal' /\ WhileBusy' /\ Told' /\ Ended'
  BY <1>0, <1>1
  DEF WhileBoot, WhileSignal, WhileBusy, Told, Unbusy, Busy, Calmly, Ended
<1>6. WhileDown'
  <2>1. \A b \in calls' : /\ b.by = d /\ b.obj \notin look'[d]
                          /\ Stopping(b) \/ b.pc = "look"
    BY <1>0, <1>1, <1>2, <1>3 DEF Stopping
  <2>2. \A q \in Objects :
          alive'[q] # {} => q \in look'[d] \/ \E b \in calls' : b.obj = q
    BY <1>0, <1>1, <1>2, <1>3
  <2> QED
    BY <1>0, <1>1, <2>1, <2>2 DEF WhileDown, Unbusy, Busy
<1>7. OneCall'
  BY <1>0, <1>2, <1>3 DEF Calmly, OneCall
<1>8. OneChild' /\ Tended'
  BY <1>1, <1>3 DEF Calmly, OneChild, Tended, Up, Managed
<1>9. Calling'
  BY <1>1, <1>2, <1>3 DEF Calmly, Calling, Sound, Ending, Managed
<1> QED
  BY <1>5, <1>6, <1>7, <1>8, <1>9 DEF Calmly

LEMMA ShutdownEndsIsCalm ==
  ASSUME Typed, Calmly, NEW d \in Downs, ShutdownEnds(d)
  PROVE  Calmly'
<1>0. /\ boot = "done" /\ sig = "none" /\ look[d] = {}
      /\ Unbusy /\ \A e \in Downs : down[e] # "none" => e = d
      /\ \A o \in Objects : alive[o] = {}
  BY DEF ShutdownEnds, Calmly, WhileDown
<1>1. /\ UNCHANGED <<processes, made, nameOf, status, alive, latest, due, calls,
                     boot, todo, opc, doing, rest, look, sig>>
      /\ \A e \in Downs : down'[e] = IF e = d THEN "over" ELSE down[e]
  BY DEF ShutdownEnds, mapVars, objVars, opVars, Typed, RestTyped
<1>2. calls = {}
  BY DEF ShutdownEnds, Calmly, WhileDown
<1>3. WhileBoot' /\ WhileSignal' /\ WhileBusy' /\ Told'
  BY <1>0, <1>1 DEF WhileBoot, WhileSignal, WhileBusy, Told, Unbusy, Busy
<1>4. WhileDown' /\ Ended'
  BY <1>0, <1>1, <1>2 DEF WhileDown, Unbusy, Busy, Calmly, Ended
<1>5. OneCall' /\ OneChild' /\ Tended' /\ Calling'
  BY <1>1, <1>2
  DEF Calmly, OneCall, OneChild, Tended, Calling, Up, Managed
<1> QED
  BY <1>3, <1>4, <1>5 DEF Calmly

(* main().                                                                 *)
LEMMA BootIsCalm ==
  ASSUME Typed, Calmly, BootBegins \/ BootEnds \/ \E o \in Objects : BootStarts(o)
  PROVE  Calmly'
<1>1. CASE BootBegins \/ BootEnds
  <2>1. UNCHANGED <<processes, made, nameOf, status, alive, latest, due, calls,
                    opc, doing, rest, down, look, sig, cancelled>>
    BY <1>1
    DEF BootBegins, BootEnds, mapVars, objVars, opVars, downVars, endVars
  <2>2. boot # "done" /\ sig = "none" /\ Unshut /\ Unbusy
        /\ \A c \in calls : c.by = "boot"
    BY <1>1 DEF BootBegins, BootEnds, Calmly, WhileBoot
  <2>3. boot' = "done" \/ todo' \subseteq Managed
    BY <1>1 DEF BootBegins, BootEnds
  <2>4. WhileBoot' /\ WhileSignal' /\ WhileBusy' /\ WhileDown' /\ Told' /\ Ended'
    BY <2>1, <2>2, <2>3
    DEF WhileBoot, WhileSignal, WhileBusy, WhileDown, Told, Unbusy, Busy, Unshut,
        Managed, Calmly, Ended
  <2>5. OneCall' /\ OneChild' /\ Tended' /\ Calling'
    BY <2>1
    DEF Calmly, OneCall, OneChild, Tended, Calling, Sound, Ending, Up, Managed
  <2> QED
    BY <2>4, <2>5 DEF Calmly
<1>2. ASSUME NEW o \in Objects, BootStarts(o) PROVE Calmly'
  <2>1. /\ UNCHANGED <<processes, made, nameOf, status, alive, latest, due,
                       boot, opc, doing, rest, down, look, sig, cancelled>>
        /\ todo' \subseteq todo
    BY <1>2 DEF BootStarts, mapVars, objVars, opVars, downVars, endVars
  <2>2. boot # "done" /\ sig = "none" /\ Unshut /\ Unbusy /\ todo \subseteq Managed
        /\ calls = {} /\ o \in Managed
    BY <1>2 DEF BootStarts, Calmly, WhileBoot
  <2> DEFINE c == Frame("boot", o, "start")
  <2>3. c.by = "boot" /\ c.obj = o /\ c.pc = "start" /\ ~c.again /\ calls' = {c}
    BY <1>2, <2>2 DEF BootStarts, Frame
  <2> HIDE DEF c
  <2>4. WhileBoot' /\ WhileSignal' /\ WhileBusy' /\ WhileDown' /\ Told' /\ Ended'
    BY <2>1, <2>2, <2>3
    DEF WhileBoot, WhileSignal, WhileBusy, WhileDown, Told, Unbusy, Busy, Unshut,
        Managed, Calmly, Ended
  <2>5. OneCall' /\ Calling'
    BY <2>1, <2>2, <2>3 DEF OneCall, Calling, Sound, Ending, Managed
  <2>6. OneChild' /\ Tended'
    BY <2>1, <2>2 DEF Calmly, OneChild, Tended, Up, Managed
  <2> QED
    BY <2>4, <2>5, <2>6 DEF Calmly
<1> QED
  BY <1>1, <1>2

(* What happens by itself: a child that dies is its object's only one.     *)
LEMMA PromoteIsCalm ==
  ASSUME Typed, Calmly, NEW o \in Objects, Promote(o)
  PROVE  Calmly'
<1>1. /\ UNCHANGED <<processes, made, nameOf, alive, latest, due, calls, boot, todo,
                     opc, doing, rest, down, look, sig, cancelled>>
      /\ alive[o] # {} /\ status[o] = "STARTING"
      /\ \A q \in Objects : status'[q] = IF q = o THEN "RUNNING" ELSE status[q]
  BY DEF Promote, KeepsRest, mapVars, opVars, downVars, endVars, Typed, ObjTyped
<1>2. WhileBoot' /\ WhileSignal' /\ WhileBusy' /\ WhileDown' /\ Ended' /\ Told'
  BY <1>1
  DEF Calmly, WhileBoot, WhileSignal, WhileBusy, WhileDown, Ended, Told, Unshut,
      Unbusy, Busy, Managed, Stopped
<1>3. OneCall' /\ OneChild' /\ Tended'
  BY <1>1 DEF Calmly, OneCall, OneChild, Tended, Up, Managed
<1>4. Calling'
  BY <1>1 DEF Calmly, Calling, Sound, Managed, Typed, CallTyped, Frames
<1> QED
  BY <1>2, <1>3, <1>4 DEF Calmly

LEMMA ExitsIsCalm ==
  ASSUME Typed, Calmly, calm', NEW o \in Objects, NEW k \in Kids, Exits(o, k)
  PROVE  Calmly'
<1>1. /\ UNCHANGED <<processes, made, nameOf, latest, due, calls, boot, todo,
                     opc, doing, rest, down, look, sig, cancelled>>
      /\ \A q \in Objects \ {o} : status'[q] = status[q] /\ alive'[q] = alive[q]
  BY DEF Exits, KeepsRest, mapVars, opVars, downVars, endVars, Typed, ObjTyped
<1>2. alive[o] # {} /\ alive'[o] = {}
  BY DEF Exits, Calmly, OneChild, Typed, ObjTyped
<1>3. \A q \in Objects : alive'[q] # {} => q # o /\ alive'[q] = alive[q]
  BY <1>1, <1>2
<1>4. WhileBoot' /\ WhileSignal' /\ WhileBusy' /\ Ended'
  BY <1>1
  DEF Calmly, WhileBoot, WhileSignal, WhileBusy, Ended, Unshut, Unbusy, Busy,
      Managed
<1>5. WhileDown'
  BY <1>1, <1>3 DEF Calmly, WhileDown, Unbusy, Busy
<1>6. Told'
  <2>1. \A n : Stopped(n) => (Stopped(n))'
    <3>1. 1..made \subseteq Objects
      BY ManagedTyped DEF Typed
    <3> QED
      BY <1>1, <1>3, <3>1 DEF Stopped
  <2> QED
    BY <1>1, <2>1 DEF Calmly, Told, Busy
<1>7. OneCall' /\ OneChild'
  BY <1>1, <1>3 DEF Calmly, OneCall, OneChild
<1>8. Tended'
  BY <1>1, <1>3 DEF Calmly, Tended, Up, Managed
<1>9. Calling'
  BY <1>1, <1>2 DEF Calmly, Calling, Sound, Managed, Typed, CallTyped, Frames
<1> QED
  BY <1>4, <1>5, <1>6, <1>7, <1>8, <1>9 DEF Calmly
(* Calls.  One that finds its object down, or the child it waits for gone, *)
(* leaves no child behind.                                                 *)
LEMMA NoChildWhenDown ==
  ASSUME Typed, Calmly, NEW c \in calls
  PROVE  /\ ~Up(c.obj) /\ c.pc \notin {"term", "wait"} => alive[c.obj] = {}
         /\ latest[c.obj] = 0 => alive[c.obj] = {}
         /\ c.pc = "wait" /\ c.child \notin alive[c.obj] => alive[c.obj] = {}
<1>1. c.obj \in Objects
  BY DEF Typed, CallTyped, Frames
<1>2. ~Up(c.obj) /\ c.pc \notin {"term", "wait"} => alive[c.obj] = {}
  BY <1>1 DEF Calmly, Tended, OneCall
<1>3. /\ alive[c.obj] \subseteq {latest[c.obj]} /\ 0 \notin alive[c.obj]
      /\ c.pc = "wait" => c.child = latest[c.obj]
  BY <1>1 DEF Calmly, OneChild, Calling, Sound, Typed, ObjTyped, Kids
<1> QED
  BY <1>2, <1>3

(* What a step of c does, as far as the invariant is concerned.            *)
Returns(c) == \E v : Ends(c, v)
GoesOn(c, d) == /\ calls' = (calls \ {c}) \cup {d} /\ UNCHANGED opVars
                /\ d.obj = c.obj /\ d.by = c.by

LEMMA CallStepKeeps ==
  ASSUME Typed, NEW c, CallStep(c)
  PROVE  UNCHANGED <<processes, made, nameOf, conf, due, boot, todo, down, look,
                     sig, cancelled, gone, doing>>
<1>1. UNCHANGED <<processes, made, nameOf, conf, due, boot, todo, down, look, sig,
                  cancelled, gone>>
  BY DEF CallStep, BeginStart, Spawn, BeginStop, Terminate, StopEnds, BeginRestart,
         RemoveLooks, LooksAgain, KeepsRest, mapVars, objVars, downVars, endVars
<1>2. UNCHANGED doing
  BY DEF CallStep, BeginStart, Spawn, BeginStop, Terminate, StopEnds, BeginRestart,
         RemoveLooks, LooksAgain, Goes, Ends, opVars
<1> QED
  BY <1>1, <1>2

(* What it does to its object, and what the next call is.                  *)
LEMMA CallStepDoes ==
  ASSUME Typed, Calmly, NEW c \in calls, CallStep(c), calm'
  PROVE  /\ \A o \in Objects \ {c.obj} :
              status'[o] = status[o] /\ alive'[o] = alive[o] /\ latest'[o] = latest[o]
         /\ alive'[c.obj] \subseteq {latest'[c.obj]}
         /\ \/ c.pc = "spawn"
            \/ alive'[c.obj] = alive[c.obj] /\ latest'[c.obj] = latest[c.obj]
         /\ \/ /\ Returns(c)
               /\ \/ alive'[c.obj] = {}
                  \/ ~Ending(c) /\ ~c.again /\ (Up(c.obj))'
            \/ \E d :
                 /\ GoesOn(c, d) /\ (Sound(d))'
                 /\ Stopping(c) => Stopping(d)
                 /\ c.pc = "look" => Stopping(d)
                 /\ alive'[c.obj] # {} =>
                      /\ d.pc \in {"term", "wait"} \/ (Up(c.obj))'
                      /\ Ending(d) \/ c.obj \in Managed
<1> DEFINE o == c.obj
<1>0. /\ o \in Objects /\ Sound(c) /\ alive[o] \subseteq {latest[o]}
      /\ latest[o] \in 0..MaxKids /\ c \in Frames
      /\ c.pc \in {"start", "spawn", "stop", "term", "wait", "restart", "remove",
                   "look"}
  BY DEF Typed, CallTyped, ObjTyped, Frames, Calmly, OneChild, Calling
<1>1. /\ ~Up(o) /\ c.pc \notin {"term", "wait"} => alive[o] = {}
      /\ latest[o] = 0 => alive[o] = {}
      /\ c.pc = "wait" /\ c.child \notin alive[o] => alive[o] = {}
  BY NoChildWhenDown
<1>2. ASSUME NEW v, Ends(c, v) PROVE Returns(c)
  BY <1>2 DEF Returns
<1>3. processes' = processes
  BY CallStepKeeps
<1>4. CASE BeginStart(c)
  <2>0. UNCHANGED <<alive, latest>> /\ c.pc = "start"
    BY <1>4 DEF BeginStart
  <2>1. CASE Up(o) /\ Ends(c, "err") /\ UNCHANGED status
    <3>1. (Up(o))' /\ ~Ending(c) /\ ~c.again
      BY <1>0, <2>0, <2>1 DEF Up, Ending, Sound
    <3> QED
      BY <1>0, <1>2, <2>0, <2>1, <3>1
  <2>2. CASE /\ ~Up(o) /\ Goes(c, [c EXCEPT !.pc = "spawn"])
             /\ status' = [status EXCEPT ![o] = "STARTING"]
    <3> DEFINE d == [c EXCEPT !.pc = "spawn"]
    <3>1. /\ d.pc = "spawn" /\ d.obj = c.obj /\ d.by = c.by /\ ~d.again
          /\ o \in Managed
      BY <1>0, <2>0 DEF Frames, Sound, Ending
    <3>2. status'[o] = "STARTING" /\ \A q \in Objects \ {o} : status'[q] = status[q]
      BY <1>0, <2>2 DEF Typed, ObjTyped
    <3>3. GoesOn(c, d)
      BY <2>2, <3>1 DEF Goes, GoesOn
    <3> HIDE DEF d
    <3>4. alive[o] = {} /\ (Sound(d))' /\ ~Stopping(c)
      BY <1>1, <1>3, <2>0, <2>2, <3>1, <3>2 DEF Sound, Ending, Managed, Stopping
    <3> QED
      BY <1>0, <2>0, <3>2, <3>3, <3>4
  <2> QED
    BY <1>4, <2>1, <2>2 DEF BeginStart
<1>5. CASE Spawn(c)
  <2>0. c.pc = "spawn" /\ status[o] = "STARTING" /\ alive[o] = {} /\ ~c.again
        /\ ~Ending(c)
    BY <1>0, <1>5 DEF Spawn, Sound, Ending
  <2>1. CASE SpawnsChild(o) /\ Ends(c, "ok")
    <3>1. /\ UNCHANGED status /\ alive'[o] = {latest[o] + 1}
          /\ latest'[o] = latest[o] + 1
          /\ \A q \in Objects \ {o} : alive'[q] = alive[q] /\ latest'[q] = latest[q]
      BY <1>0, <2>0, <2>1 DEF SpawnsChild, Typed, ObjTyped
    <3>2. (Up(o))'
      BY <2>0, <3>1 DEF Up
    <3> QED
      BY <1>2, <2>0, <2>1, <3>1, <3>2
  <2>2. CASE SpawnFails(o) /\ Ends(c, "err")
    <3>1. /\ UNCHANGED <<alive, latest>>
          /\ \A q \in Objects \ {o} : status'[q] = status[q]
      BY <2>2 DEF SpawnFails, Typed, ObjTyped
    <3> QED
      BY <1>0, <1>2, <2>0, <2>2, <3>1
  <2> QED
    BY <1>5, <2>1, <2>2 DEF Spawn
<1>6. CASE BeginStop(c)
  <2>0. UNCHANGED <<alive, latest>> /\ c.pc = "stop"
    BY <1>6 DEF BeginStop
  <2>1. CASE ~Up(o) /\ Ends(c, "err") /\ UNCHANGED status
    BY <1>0, <1>1, <1>2, <2>0, <2>1
  <2>2. CASE /\ Up(o) /\ Goes(c, [c EXCEPT !.pc = "term"])
             /\ status' = [status EXCEPT ![o] = "STOPPING"]
    <3> DEFINE d == [c EXCEPT !.pc = "term"]
    <3>1. /\ d.pc = "term" /\ d.obj = c.obj /\ d.by = c.by /\ d.again = c.again
      BY <1>0, <2>0 DEF Frames
    <3>2. \A q \in Objects \ {o} : status'[q] = status[q]
      BY <2>2 DEF Typed, ObjTyped
    <3>3. GoesOn(c, d)
      BY <2>2, <3>1 DEF Goes, GoesOn
    <3> HIDE DEF d
    <3>4. (Sound(d))' /\ Ending(d) /\ (Stopping(c) => Stopping(d))
      BY <1>0, <1>3, <3>1 DEF Sound, Ending, Managed, Stopping
    <3> QED
      BY <1>0, <2>0, <3>1, <3>2, <3>3, <3>4
  <2> QED
    BY <1>6, <2>1, <2>2 DEF BeginStop
<1>7. CASE Terminate(c)
  <2>0. UNCHANGED <<status, alive, latest>> /\ c.pc = "term"
    BY <1>7 DEF Terminate, objVars
  <2>1. CASE latest[o] = 0 /\ Ends(c, "ok")
    BY <1>0, <1>1, <1>2, <2>0, <2>1
  <2>2. CASE Goes(c, [c EXCEPT !.pc = "wait", !.child = latest[o]])
    <3>0. PICK d : d = [c EXCEPT !.pc = "wait", !.child = latest[o]]
      OBVIOUS
    <3>1. /\ d.pc = "wait" /\ d.obj = c.obj /\ d.by = c.by /\ d.again = c.again
          /\ d.child = latest[o]
      BY <1>0, <3>0 DEF Frames
    <3>2. GoesOn(c, d)
      BY <2>2, <3>0, <3>1 DEF Goes, GoesOn
    <3>3. Ending(d) /\ (Stopping(c) => Stopping(d))
      BY <3>1 DEF Ending, Stopping
    <3>4. d.child = latest'[d.obj] /\ (d.again => d.obj \in Managed')
      BY <1>0, <1>3, <2>0, <3>1 DEF Sound, Managed
    <3>5. (Sound(d))'
      BY <3>1, <3>3, <3>4 DEF Sound, Ending
    <3> QED
      BY <1>0, <2>0, <3>1, <3>2, <3>3, <3>5
  <2> QED
    BY <1>7, <2>1, <2>2 DEF Terminate
<1>8. CASE StopEnds(c)
  <2>0. /\ UNCHANGED <<status, alive, latest>> /\ c.pc = "wait"
        /\ alive[o] = {}
    BY <1>1, <1>8 DEF StopEnds, objVars
  <2>1. CASE \E v : Ends(c, v)
    BY <1>0, <1>2, <2>0, <2>1
  <2>2. CASE c.again /\ Goes(c, Frame(c.by, c.obj, "start"))
    <3> DEFINE d == Frame(c.by, c.obj, "start")
    <3>1. d.pc = "start" /\ d.obj = c.obj /\ d.by = c.by /\ ~d.again
      BY DEF Frame
    <3>2. GoesOn(c, d)
      BY <2>2, <3>1 DEF Goes, GoesOn
    <3> HIDE DEF d
    <3>3. (Sound(d))' /\ ~Stopping(c)
      BY <1>0, <1>3, <2>2, <3>1 DEF Sound, Managed, Stopping
    <3> QED
      BY <1>0, <2>0, <3>2, <3>3
  <2> QED
    BY <1>8, <2>1, <2>2 DEF StopEnds
<1>9. CASE BeginRestart(c)
  <2>0. UNCHANGED <<status, alive, latest>> /\ c.pc = "restart" /\ ~c.again
        /\ o \in Managed /\ ~Stopping(c)
    BY <1>0, <1>9 DEF BeginRestart, objVars, Sound, Ending, Stopping
  <2>1. CASE Up(o) /\ Goes(c, [c EXCEPT !.pc = "stop", !.again = TRUE])
    <3> DEFINE d == [c EXCEPT !.pc = "stop", !.again = TRUE]
    <3>1. d.pc = "stop" /\ d.obj = c.obj /\ d.by = c.by
      BY <1>0 DEF Frames
    <3>2. GoesOn(c, d)
      BY <2>1, <3>1 DEF Goes, GoesOn
    <3> HIDE DEF d
    <3>3. (Sound(d))' /\ (Up(o))'
      BY <1>3, <2>0, <2>1, <3>1 DEF Sound, Managed, Up
    <3> QED
      BY <1>0, <2>0, <3>2, <3>3
  <2>2. CASE ~Up(o) /\ Goes(c, [c EXCEPT !.pc = "start"])
    <3> DEFINE d == [c EXCEPT !.pc = "start"]
    <3>1. d.pc = "start" /\ d.obj = c.obj /\ d.by = c.by
      BY <1>0 DEF Frames
    <3>2. GoesOn(c, d)
      BY <2>2, <3>1 DEF Goes, GoesOn
    <3>3. d.again = c.again
      BY <1>0 DEF Frames
    <3> HIDE DEF d
    <3>4. (Sound(d))' /\ alive[o] = {}
      BY <1>1, <1>3, <2>0, <2>2, <3>1, <3>3 DEF Sound, Managed
    <3> QED
      BY <1>0, <2>0, <3>2, <3>4
  <2> QED
    BY <1>9, <2>1, <2>2 DEF BeginRestart
<1>10. CASE RemoveLooks(c)
  <2>0. UNCHANGED <<status, alive, latest>> /\ c.pc = "remove" /\ ~c.again
        /\ ~Stopping(c)
    BY <1>0, <1>10 DEF RemoveLooks, objVars, Sound, Stopping
  <2>1. PICK d :
          d = [c EXCEPT !.pc = IF status[o] = "RUNNING" THEN "stop" ELSE "look"]
    OBVIOUS
  <2>2. /\ d.pc \in {"stop", "look"} /\ d.obj = c.obj /\ d.by = c.by
        /\ d.again = c.again
    BY <1>0, <2>1 DEF Frames
  <2>3. GoesOn(c, d)
    BY <1>10, <2>1, <2>2 DEF RemoveLooks, Goes, GoesOn
  <2>4. (Sound(d))' /\ Ending(d)
    BY <2>0, <2>2 DEF Sound, Ending
  <2>5. alive'[o] # {} => (Up(o))'
    BY <1>1, <2>0 DEF Up
  <2> QED
    BY <1>0, <2>0, <2>3, <2>4, <2>5
<1>11. CASE LooksAgain(c)
  <2>0. UNCHANGED <<status, alive, latest>> /\ c.pc = "look" /\ ~c.again
        /\ ~Stopping(c) /\ status[o] # "RUNNING"
    BY <1>0, <1>11 DEF LooksAgain, objVars, Sound, Stopping
  <2>1. CASE status[o] = "STARTING" /\ Goes(c, [c EXCEPT !.pc = "stop"])
    <3> DEFINE d == [c EXCEPT !.pc = "stop"]
    <3>1. d.pc = "stop" /\ d.obj = c.obj /\ d.by = c.by /\ d.again = c.again
      BY <1>0 DEF Frames
    <3>2. GoesOn(c, d)
      BY <2>1, <3>1 DEF Goes, GoesOn
    <3> HIDE DEF d
    <3>3. (Sound(d))' /\ (Up(o))' /\ Ending(d) /\ Stopping(d)
      BY <2>0, <2>1, <3>1 DEF Sound, Up, Ending, Stopping
    <3> QED
      BY <1>0, <2>0, <3>2, <3>3
  <2>2. CASE status[o] # "STARTING" /\ Ends(c, "ok")
    <3>1. alive[o] = {}
      BY <1>1, <2>0, <2>2 DEF Up
    <3> QED
      BY <1>0, <1>2, <2>0, <2>2, <3>1
  <2> QED
    BY <1>11, <2>1, <2>2 DEF LooksAgain
<1> QED
  BY <1>4, <1>5, <1>6, <1>7, <1>8, <1>9, <1>10, <1>11 DEF CallStep
(* A handler whose call returns.                                           *)
LEMMA ReturnsTo ==
  ASSUME Typed, NEW c, Returns(c)
  PROVE  /\ calls' = calls \ {c}
         /\ \/ UNCHANGED opVars
            \/ /\ c.by \in Operators /\ opc[c.by] = "call"
               /\ opc'[c.by] \in {"next", "over"}
               /\ \A q \in Operators \ {c.by} : opc'[q] = opc[q] /\ rest'[q] = rest[q]
               /\ rest'[c.by] = Tail(rest[c.by]) /\ UNCHANGED doing
<1>1. PICK v : Ends(c, v)
  BY DEF Returns
<1> QED
  BY <1>1 DEF Ends, Typed, OpTyped

LEMMA CallStepMoves ==
  ASSUME Typed, Calmly, NEW c \in calls, CallStep(c), calm'
  PROVE  /\ \A q \in Operators : (Busy(q))' => Busy(q)
         /\ \A q \in Operators : opc'[q] = "call" => opc[q] = "call"
         /\ \/ calls' = calls \ {c}
            \/ \E d : GoesOn(c, d)
<1>1. Returns(c) \/ \E d : GoesOn(c, d)
  BY CallStepDoes, Zenon
<1>2. CASE Returns(c)
  BY <1>2, ReturnsTo DEF Busy, opVars
<1>3. CASE \E d : GoesOn(c, d)
  BY <1>3 DEF GoesOn, Busy, opVars
<1> QED
  BY <1>1, <1>2, <1>3

LEMMA CallStepWhile ==
  ASSUME Typed, Calmly, NEW c \in calls, CallStep(c), calm'
  PROVE  WhileBoot' /\ WhileSignal' /\ WhileBusy' /\ WhileDown' /\ Ended'
<1>0. UNCHANGED <<processes, boot, todo, down, look, sig, cancelled>>
  BY CallStepKeeps
<1>1. /\ \A q \in Operators : (Busy(q))' => Busy(q)
      /\ \A q \in Operators : opc'[q] = "call" => opc[q] = "call"
  BY CallStepMoves
<1>2. \A e \in calls' : \E d \in calls : e.by = d.by /\ e.obj = d.obj
  BY CallStepMoves DEF GoesOn
<1>3. WhileBoot' /\ WhileSignal' /\ Ended'
  <2>1. Unbusy => Unbusy'
    BY <1>1 DEF Unbusy
  <2> QED
    BY <1>0, <1>2, <2>1
    DEF Calmly, WhileBoot, WhileSignal, Ended, Unshut, Managed
<1>4. ASSUME NEW p \in Operators, (Busy(p))'
      PROVE  /\ boot' = "done" /\ sig' = "none" /\ Unshut'
             /\ \A q \in Operators : (Busy(q))' => q = p
             /\ opc'[p] = "next" => calls' = {}
             /\ opc'[p] = "call" => \E d \in calls' : calls' = {d} /\ d.by = p
  <2>1. /\ boot = "done" /\ sig = "none" /\ Unshut
        /\ \A q \in Operators : Busy(q) => q = p
        /\ opc[p] = "call" /\ calls = {c} /\ c.by = p
    BY <1>1, <1>4 DEF Calmly, WhileBusy, Busy
  <2>2. CASE Returns(c)
    <3>1. PICK v : Ends(c, v)
      BY <2>2 DEF Returns
    <3>2. calls' = {} /\ opc'[p] # "call"
      BY <2>1, <3>1 DEF Ends, Typed, OpTyped
    <3> QED
      BY <1>0, <1>1, <2>1, <3>2 DEF Unshut
  <2>3. ASSUME NEW d, GoesOn(c, d)
        PROVE  calls' = {d} /\ d.by = p /\ UNCHANGED opc
    BY <2>1, <2>3 DEF GoesOn, opVars
  <2>4. CASE \E d : GoesOn(c, d)
    BY <1>0, <1>1, <2>1, <2>3, <2>4 DEF Unshut
  <2>5. Returns(c) \/ \E d : GoesOn(c, d)
    BY CallStepDoes, Zenon
  <2> QED
    BY <2>2, <2>4, <2>5
<1>5. WhileBusy'
  BY <1>4 DEF WhileBusy
<1>6. ASSUME NEW d \in Downs, down[d] # "none"
      PROVE  /\ \A e \in calls' : /\ e.by = d /\ e.obj \notin look[d]
                                  /\ Stopping(e) \/ e.pc = "look"
             /\ \A o \in Objects :
                  alive'[o] # {} => o \in look[d] \/ \E e \in calls' : e.obj = o
             /\ down[d] # "over" /\ Unbusy'
  <2>1. /\ Unbusy /\ down[d] # "over"
        /\ \A e \in calls : /\ e.by = d /\ e.obj \notin look[d]
                            /\ Stopping(e) \/ e.pc = "look"
        /\ \A o \in Objects :
             alive[o] # {} => o \in look[d] \/ \E e \in calls : e.obj = o
    BY <1>6 DEF Calmly, WhileDown
  <2>2. (Stopping(c) \/ c.pc = "look") /\ Ending(c) /\ c.pc # "spawn"
    BY <2>1 DEF Stopping, Ending
  <2>3. \A o \in Objects \ {c.obj} : alive'[o] = alive[o]
    BY CallStepDoes
  <2>4. Unbusy'
    BY <1>1, <2>1 DEF Unbusy
  <2>5. CASE Returns(c) /\ alive'[c.obj] = {}
    <3>1. calls' = calls \ {c}
      BY <2>5, ReturnsTo
    <3> QED
      BY <2>1, <2>3, <2>4, <2>5, <3>1
  <2>6. ASSUME NEW e, GoesOn(c, e), Stopping(e)
        PROVE  /\ \A g \in calls' : /\ g.by = d /\ g.obj \notin look[d]
                                    /\ Stopping(g) \/ g.pc = "look"
               /\ \A o \in Objects :
                    alive'[o] # {} => o \in look[d] \/ \E g \in calls' : g.obj = o
    <3>1. calls' = (calls \ {c}) \cup {e} /\ e.obj = c.obj /\ e.by = c.by
      BY <2>6 DEF GoesOn
    <3> QED
      BY <2>1, <2>3, <2>6, <3>1
  <2>7. \/ Returns(c) /\ alive'[c.obj] = {}
        \/ \E e : GoesOn(c, e) /\ Stopping(e)
    BY <2>2, CallStepDoes, Zenon
  <2> QED
    BY <2>1, <2>4, <2>5, <2>6, <2>7
<1>7. WhileDown'
  <2>1. \A d \in Downs : down[d] # "none" =>
          /\ boot = "done" /\ sig = "none"
          /\ \A e \in Downs : down[e] # "none" => e = d
    BY DEF Calmly, WhileDown
  <2> QED
    BY <1>0, <1>6, <2>1 DEF WhileDown
<1> QED
  BY <1>3, <1>5, <1>7
LEMMA CallStepTends ==
  ASSUME Typed, Calmly, NEW c \in calls, CallStep(c), calm'
  PROVE  OneCall' /\ OneChild' /\ Tended' /\ Calling'
<1> DEFINE o == c.obj
<1>0. UNCHANGED <<processes, due>> /\ o \in Objects
  BY CallStepKeeps DEF Typed, CallTyped, Frames
<1>1. /\ \A q \in Objects \ {o} :
           status'[q] = status[q] /\ alive'[q] = alive[q] /\ latest'[q] = latest[q]
      /\ alive'[o] \subseteq {latest'[o]}
  BY CallStepDoes
<1>2. OneChild'
  BY <1>0, <1>1 DEF Calmly, OneChild
<1>3. \A e \in calls \ {c} : e.obj \in Objects \ {o} /\ Sound(e)
  BY DEF Calmly, OneCall, Calling, Typed, CallTyped, Frames
<1>4. \A e \in calls \ {c} : (Sound(e))'
  BY <1>0, <1>1, <1>3 DEF Sound, Ending, Managed
<1>5. ASSUME NEW q \in Objects \ {o}, alive'[q] # {}
      PROVE  /\ \/ (Up(q))'
                \/ \E e \in calls \ {c} : e.obj = q /\ e.pc \in {"term", "wait"}
             /\ q \in Managed' \/ \E e \in calls \ {c} : e.obj = q /\ Ending(e)
  BY <1>0, <1>1, <1>5 DEF Calmly, Tended, Up, Managed
<1>6. CASE Returns(c) /\ (alive'[o] = {} \/ (~Ending(c) /\ ~c.again /\ (Up(o))'))
  <2>1. calls' = calls \ {c}
    BY <1>6, ReturnsTo
  <2>2. OneCall' /\ Calling'
    BY <1>4, <2>1 DEF Calmly, OneCall, Calling
  <2>3. alive'[o] # {} => (Up(o))' /\ o \in Managed'
    BY <1>0, <1>6 DEF Calmly, Calling, Sound, Managed
  <2>4. Tended'
    <3> SUFFICES ASSUME NEW q \in Objects, alive'[q] # {}
                 PROVE  /\ \/ (Up(q))'
                           \/ \E e \in calls' : e.obj = q /\ e.pc \in {"term", "wait"}
                        /\ q \in Managed' \/ \E e \in calls' : e.obj = q /\ Ending(e)
      BY DEF Tended
    <3>1. CASE q = o
      BY <2>3, <3>1
    <3>2. CASE q # o
      BY <1>5, <2>1, <3>2
    <3> QED
      BY <3>1, <3>2
  <2> QED
    BY <1>2, <2>2, <2>4
<1>7. ASSUME NEW d, GoesOn(c, d), (Sound(d))',
             alive'[o] # {} => /\ d.pc \in {"term", "wait"} \/ (Up(o))'
                               /\ Ending(d) \/ o \in Managed
      PROVE  OneCall' /\ Tended' /\ Calling'
  <2>1. calls' = (calls \ {c}) \cup {d} /\ d.obj = o
    BY <1>7 DEF GoesOn
  <2>2. OneCall'
    BY <1>3, <2>1 DEF Calmly, OneCall
  <2>3. Calling'
    BY <1>4, <1>7, <2>1 DEF Calling
  <2>4. Tended'
    <3> SUFFICES ASSUME NEW q \in Objects, alive'[q] # {}
                 PROVE  /\ \/ (Up(q))'
                           \/ \E e \in calls' : e.obj = q /\ e.pc \in {"term", "wait"}
                        /\ q \in Managed' \/ \E e \in calls' : e.obj = q /\ Ending(e)
      BY DEF Tended
    <3>1. CASE q = o
      BY <1>0, <1>7, <2>1, <3>1 DEF Managed
    <3>2. CASE q # o
      BY <1>5, <2>1, <3>2
    <3> QED
      BY <3>1, <3>2
  <2> QED
    BY <2>2, <2>3, <2>4
<1>8. \/ Returns(c) /\ (alive'[o] = {} \/ (~Ending(c) /\ ~c.again /\ (Up(o))'))
      \/ \E d : /\ GoesOn(c, d) /\ (Sound(d))'
                /\ alive'[o] # {} => /\ d.pc \in {"term", "wait"} \/ (Up(o))'
                                     /\ Ending(d) \/ o \in Managed
  <2> HIDE DEF o
  <2> QED
    BY CallStepDoes DEF o
<1> QED
  BY <1>2, <1>6, <1>7, <1>8

(* The name that a handler has just stopped has no child left, so that     *)
(* what remains to be done is all that may still have one.                 *)
LEMMA ManagedByName ==
  ASSUME Typed, NEW n \in DOMAIN processes, NEW o \in Managed, nameOf[o] = n
  PROVE  o = processes[n]
BY DEF Typed, MapTyped, Managed

LEMMA StoppedWhenTended ==
  ASSUME Typed, Calmly, NEW c, calls = {c}, Stopping(c), NEW n \in DOMAIN processes,
         c.obj = processes[n], alive[c.obj] = {}
  PROVE  Stopped(n)
<1> SUFFICES ASSUME NEW o \in 1..made, nameOf[o] = n, alive[o] # {} PROVE FALSE
  BY DEF Stopped
<1>1. o \in Objects
  BY ManagedTyped DEF Typed
<1>2. o \in Managed \/ o = c.obj
  BY <1>1 DEF Calmly, Tended
<1>3. o # c.obj
  OBVIOUS
<1> QED
  BY <1>2, <1>3, ManagedByName

(* A handler that stops programs: what it has stopped before and by this   *)
(* step.                                                                   *)
LEMMA CallStepTells ==
  ASSUME Typed, Calmly, NEW c \in calls, CallStep(c), calm'
  PROVE  Told'
<1>0. UNCHANGED <<processes, made, nameOf, doing>>
  BY CallStepKeeps
<1> SUFFICES ASSUME NEW p \in Operators, (Busy(p))', doing[p].do = "stop"
             PROVE  /\ opc'[p] = "call" =>
                         /\ Head(rest'[p]) \in DOMAIN processes
                         /\ \A d \in calls' :
                              d.obj = processes[Head(rest'[p])] /\ Stopping(d)
                    /\ \A i \in DOMAIN doing[p].names :
                         \/ \E k \in DOMAIN rest'[p] : rest'[p][k] = doing[p].names[i]
                         \/ \A o \in 1..made :
                              nameOf[o] = doing[p].names[i] => alive'[o] = {}
  BY <1>0 DEF Told, Stopping, Stopped
<1>1. /\ Busy(p) /\ opc[p] = "call" /\ calls = {c} /\ c.by = p
  BY CallStepMoves DEF Calmly, WhileBusy, Busy
<1>2. /\ Head(rest[p]) \in DOMAIN processes /\ c.obj = processes[Head(rest[p])]
      /\ Stopping(c) /\ c.pc # "spawn" /\ c.obj \in Objects
      /\ rest[p] \in Seq(Names) /\ rest[p] # <<>>
      /\ \A i \in DOMAIN doing[p].names :
           \/ \E k \in DOMAIN rest[p] : rest[p][k] = doing[p].names[i]
           \/ Stopped(doing[p].names[i])
  BY <1>1 DEF Calmly, Told, Stopping, Typed, OpTyped, CallTyped, Frames
<1>3. \A o \in Objects : alive'[o] = alive[o]
  BY <1>2, CallStepDoes
<1>4. ASSUME NEW n, Stopped(n)
      PROVE  \A o \in 1..made : nameOf[o] = n => alive'[o] = {}
  <2>1. 1..made \subseteq Objects
    BY ManagedTyped DEF Typed
  <2> QED
    BY <1>3, <1>4, <2>1 DEF Stopped
<1>5. CASE UNCHANGED opVars
  <2>1. CASE Returns(c)
    <3>1. PICK v : Ends(c, v)
      BY <2>1 DEF Returns
    <3> QED
      BY <1>1, <1>5, <3>1 DEF Ends, opVars, Typed, OpTyped
  <2>2. ASSUME NEW d, GoesOn(c, d), Stopping(d)
        PROVE  \A e \in calls' : e.obj = c.obj /\ Stopping(e)
    BY <1>1, <2>2 DEF GoesOn
  <2>3. CASE \E d : GoesOn(c, d) /\ Stopping(d)
    BY <1>2, <1>4, <1>5, <2>2, <2>3 DEF opVars
  <2>4. Returns(c) \/ \E d : GoesOn(c, d) /\ Stopping(d)
    BY <1>2, CallStepDoes
  <2> QED
    BY <2>1, <2>3, <2>4
<1>6. CASE Returns(c) /\ opc'[p] # "call" /\ rest'[p] = Tail(rest[p])
  <2>1. Ending(c)
    BY <1>2 DEF Ending, Stopping
  <2>2. alive'[c.obj] = {}
    <3>1. ASSUME NEW d, GoesOn(c, d) PROVE UNCHANGED opc
      BY <3>1 DEF GoesOn, opVars
    <3>2. ~ \E d : GoesOn(c, d)
      BY <1>1, <1>6, <3>1
    <3> QED
      BY <2>1, <3>2, CallStepDoes
  <2>3. Stopped(Head(rest[p]))
    BY <1>1, <1>2, <1>3, <2>2, StoppedWhenTended
  <2>4. ASSUME NEW k \in DOMAIN rest[p]
        PROVE  \/ rest[p][k] = Head(rest[p])
               \/ \E j \in DOMAIN rest'[p] : rest'[p][j] = rest[p][k]
    <3>1. CASE k = 1
      BY <1>2, <3>1
    <3>2. CASE k # 1
      <4>1. /\ k \in 1..Len(rest[p]) /\ Len(Tail(rest[p])) = Len(rest[p]) - 1
            /\ DOMAIN Tail(rest[p]) = 1..(Len(rest[p]) - 1)
            /\ \A j \in 1..(Len(rest[p]) - 1) : Tail(rest[p])[j] = rest[p][j + 1]
        BY <1>2, HeadTailProperties
      <4>2. k - 1 \in 1..(Len(rest[p]) - 1) /\ (k - 1) + 1 = k
        BY <1>2, <3>2, <4>1
      <4> QED
        BY <1>6, <4>1, <4>2
    <3> QED
      BY <3>1, <3>2
  <2>5. ASSUME NEW i \in DOMAIN doing[p].names
        PROVE  \/ \E k \in DOMAIN rest'[p] : rest'[p][k] = doing[p].names[i]
               \/ Stopped(doing[p].names[i])
    <3>1. CASE Stopped(doing[p].names[i])
      BY <3>1
    <3>2. ASSUME NEW k \in DOMAIN rest[p], rest[p][k] = doing[p].names[i]
          PROVE  \/ \E j \in DOMAIN rest'[p] : rest'[p][j] = doing[p].names[i]
                 \/ Stopped(doing[p].names[i])
      BY <2>3, <2>4, <3>2
    <3> QED
      BY <1>2, <3>1, <3>2
  <2> QED
    BY <1>4, <1>6, <2>5
<1>7. \/ UNCHANGED opVars
      \/ Returns(c) /\ opc'[p] # "call" /\ rest'[p] = Tail(rest[p])
  <2>1. CASE Returns(c)
    BY <1>1, <2>1, ReturnsTo
  <2>2. CASE \E d : GoesOn(c, d)
    BY <2>2 DEF GoesOn
  <2>3. Returns(c) \/ \E d : GoesOn(c, d)
    BY CallStepDoes
  <2> QED
    BY <2>1, <2>2, <2>3
<1> QED
  BY <1>5, <1>6, <1>7

LEMMA NextCalm == ASSUME Typed, Calmly, [Next]_vars, calm' PROVE Calmly'
<1>1. ASSUME NEW c \in calls, CallStep(c) PROVE Calmly'
  BY <1>1, CallStepWhile, CallStepTends, CallStepTells DEF Calmly
<1>2. ASSUME NEW p \in Operators, OperatorStep(p) PROVE Calmly'
  BY <1>2, CallIsCalm, AddIsCalm, RemoveIsCalm, ReloadIsCalm, ShutdownIsCalm,
     KillIsCalm DEF OperatorStep
<1>3. CASE Exit
  BY <1>3, CalmIfUnchanged
  DEF Exit, mapVars, objVars, opVars, downVars
<1>4. ASSUME NEW o \in Objects, Respawn(o) PROVE Calmly'
  BY <1>4 DEF Respawn, Calmly, OneChild
<1>5. CASE vars' = vars
  BY <1>5, CalmIfUnchanged DEF vars, mapVars, objVars, opVars, downVars, endVars
<1> QED
  BY <1>1, <1>2, <1>3, <1>4, <1>5, NextNameIsCalm, ShutdownLooksIsCalm,
     ShutdownEndsIsCalm, BootIsCalm, SignalReloadIsCalm, SignalShutdownIsCalm,
     PromoteIsCalm, ExitsIsCalm
  DEF Next, Goroutines

LEMMA InitCalm == ASSUME Init PROVE Calmly
BY DEF Init, Calmly, WhileBoot, WhileSignal, WhileBusy, WhileDown, Ended, OneCall,
       OneChild, Tended, Calling, Told, Unshut, Unbusy, Busy

LEMMA CalmInvariant == Spec => []CalmInv
<1>1. Init => CalmInv
  BY InitTyped, InitCalm DEF CalmInv
<1>2. CalmInv /\ [Next]_vars => CalmInv'
  BY NextTyped, NextCalm, CalmBefore DEF CalmInv
<1> QED
  BY <1>1, <1>2, PTL DEF Spec

(* ShutdownIsComplete: when a calm daemon has exited, none of its programs *)
(* has a child, whatever died meanwhile; calm says that no promotion fell  *)
(* between two reads of one program's state (supervisor.go:198-238).       *)
THEOREM ShutdownAlwaysComplete == Spec => []ShutdownIsComplete
<1>1. CalmInv => ShutdownIsComplete
  BY DEF CalmInv, Calmly, Ended, WhileDown, ShutdownIsComplete, Nobody
<1> QED
  BY <1>1, CalmInvariant, PTL

(* RemovedIsGone: in a calm daemon a program that can no longer be named   *)
(* runs only while a call is about to stop it or waits for its end         *)
(* (supervisor.go:248-284, 391-410).                                       *)
THEOREM RemovedAlwaysGone == Spec => []RemovedIsGone
<1>1. CalmInv => RemovedIsGone
  BY DEF CalmInv, Calmly, Tended, Ending, RemovedIsGone
<1> QED
  BY <1>1, CalmInvariant, PTL

(* An answer to a call that was made comes from that call.                 *)
LEMMA WhoReturns ==
  ASSUME Typed, [Next]_vars, NEW p \in Operators, opc[p] = "call", opc'[p] = "over"
  PROVE  \E c \in calls : CallStep(c)
<1>1. ASSUME NEW q \in Operators, NEW to, opc[q] # "call",
             \/ opc' = [opc EXCEPT ![q] = to]
             \/ \E v : Answers(q, v)
      PROVE  FALSE
  BY <1>1 DEF Answers, Typed, OpTyped
<1>2. ASSUME NEW q \in Operators, OperatorStep(q) \/ NextName(q) PROVE FALSE
  <2>1. opc[q] # "call"
    BY <1>2
    DEF OperatorStep, Call, AddProcess, RemoveProcess, Reload, Shutdown, Kill,
        NextName, Begins, Takes
  <2>2. \/ \E to : opc' = [opc EXCEPT ![q] = to]
        \/ \E v : Answers(q, v)
    BY <1>2
    DEF OperatorStep, Call, AddProcess, RemoveProcess, Reload, Shutdown, Kill,
        NextName
  <2> QED
    BY <1>1, <2>1, <2>2
<1>3. ASSUME \/ BootBegins \/ BootEnds \/ \E o \in Objects : BootStarts(o)
             \/ \E d \in Downs : ShutdownEnds(d) \/ \E o \in Objects : ShutdownLooks(d, o)
             \/ SignalReload \/ SignalShutdown \/ Exit
             \/ \E o \in Objects : \/ Promote(o) \/ Respawn(o)
                                   \/ \E k \in Kids : Exits(o, k)
             \/ vars' = vars
      PROVE  FALSE
  <2>1. UNCHANGED opc
    BY <1>3
    DEF BootBegins, BootEnds, BootStarts, ShutdownEnds, ShutdownLooks, SignalReload,
        SignalShutdown, Exit, Promote, Respawn, Exits, opVars, vars
  <2> QED
    BY <2>1
<1> QED
  BY <1>2, <1>3 DEF Next, Goroutines

(* RepliesAreTrue: "stopped: a, b" is said when neither has a child, the   *)
(* objects that bore these names before included (ipc/server.go:146-155).  *)
THEOREM RepliesAlwaysTrue == Spec => RepliesAreTrue
<1> DEFINE Step(p) ==
      calm /\ opc[p] = "call" /\ opc'[p] = "over" /\ reply'[p] = "ok"
           /\ doing[p].do = "stop"
        => \A o \in 1..made :
             nameOf[o] \in {doing[p].names[i] : i \in DOMAIN doing[p].names}
               => alive'[o] = {}
<1>1. ASSUME CalmInv, [Next]_vars PROVE \A p \in Operators : Step(p)
  <2> SUFFICES ASSUME NEW p \in Operators, calm, opc[p] = "call", opc'[p] = "over",
                      reply'[p] = "ok", doing[p].do = "stop",
                      NEW o \in 1..made, NEW i \in DOMAIN doing[p].names,
                      nameOf[o] = doing[p].names[i]
               PROVE  alive'[o] = {}
    OBVIOUS
  <2>1. PICK c \in calls : CallStep(c) /\ calls = {c}
    <3>1. \E c \in calls : CallStep(c)
      BY <1>1, WhoReturns DEF CalmInv
    <3>2. \E c \in calls : calls = {c}
      BY <1>1 DEF CalmInv, Calmly, WhileBusy, Busy
    <3> QED
      BY <3>1, <3>2
  <2>2. Typed /\ Calmly /\ o \in Objects
    BY <1>1, ManagedTyped DEF CalmInv, Typed
  <2>3. /\ Head(rest[p]) \in DOMAIN processes /\ c.obj = processes[Head(rest[p])]
        /\ Stopping(c) /\ Ending(c) /\ c.pc # "spawn" /\ rest[p] \in Seq(Names)
        /\ rest[p] # <<>>
        /\ \/ \E k \in DOMAIN rest[p] : rest[p][k] = nameOf[o]
           \/ Stopped(nameOf[o])
    BY <2>2 DEF Calmly, Told, Busy, Stopping, Ending, Typed, OpTyped
  <2>3a. calm'
    BY <2>1, <2>3
    DEF Stopping, CallStep, BeginStart, Spawn, BeginStop, Terminate, StopEnds,
        BeginRestart, RemoveLooks, LooksAgain
  <2>4. \A q \in Objects : alive'[q] = alive[q]
    <3>1. c.obj \in Objects
      BY <2>2 DEF Typed, CallTyped, Frames
    <3> QED
      BY <2>1, <2>2, <2>3, <2>3a, <3>1, CallStepDoes
  <2>5. Returns(c) /\ alive'[c.obj] = {}
    <3>1. ASSUME NEW d, GoesOn(c, d) PROVE FALSE
      BY <3>1 DEF GoesOn, opVars
    <3>2. \/ Returns(c) /\ alive'[c.obj] = {}
          \/ \E d : GoesOn(c, d)
      BY <2>1, <2>2, <2>3, <2>3a, CallStepDoes
    <3> QED
      BY <3>1, <3>2
  <2>6. Len(rest[p]) = 1
    <3>1. PICK v : Ends(c, v)
      BY <2>5 DEF Returns
    <3>2. c.by = p
      BY <2>1, <2>2 DEF Calmly, WhileBusy, Busy
    <3>3. opc' = [opc EXCEPT ![p] = IF \/ ~ \/ v = "ok"
                                             \/ doing[p].do = "remove"
                                       \/ Len(rest[p]) = 1
                                    THEN "over" ELSE "next"]
      BY <3>1, <3>2 DEF Ends
    <3>4. v = "ok"
      BY <2>2, <3>1, <3>2 DEF Ends, Typed, OpTyped
    <3> QED
      BY <2>2, <3>3, <3>4 DEF Typed, OpTyped
  <2>7. alive[c.obj] = {}
    <3>1. c.obj \in Objects
      BY <2>2 DEF Typed, CallTyped, Frames
    <3> QED
      BY <2>4, <2>5, <3>1
  <2>8. Stopped(Head(rest[p]))
    BY <2>1, <2>2, <2>3, <2>7, StoppedWhenTended
  <2>9. \A k \in DOMAIN rest[p] : rest[p][k] = Head(rest[p])
    BY <2>3, <2>6
  <2>10. Stopped(nameOf[o])
    BY <2>3, <2>8, <2>9
  <2> QED
    BY <2>2, <2>4, <2>10 DEF Stopped
<1> QED
  BY <1>1, CalmInvariant, PTL DEF Spec, RepliesAreTrue
-----------------------------------------------------------------------------
(* The boot, while clients do what they like.  Whatever was begun stays    *)
(* begun, and what is not STOPPED was begun; the boot's own calls come one *)
(* at a time, in the order of the priorities, and nobody can change the    *)
(* map or a section meanwhile.                                             *)

Began == \A o \in Objects : status[o] = "STOPPED" \/ Begun(o)

BootCalls == \A c \in calls : c.by = "boot" =>
  /\ boot = "starting" /\ c.pc \in {"start", "spawn"}
  /\ \A d \in calls : d.by = "boot" => c = d
  /\ \A q \in todo : conf[c.obj].prio <= conf[q].prio

BootTurns == boot = "starting" => \A q \in Managed : conf[q].auto =>
  \/ q \in todo \/ Begun(q)
  \/ \E c \in calls : c.by = "boot" /\ c.obj = q /\ c.pc = "start"

BootInv == Typed /\ Began /\ BootCalls /\ BootTurns

(* What calls there are after a step that is not a step of one.            *)
Adds(by) == \A c \in calls' \ calls : c.by \in by

LEMMA OthersOnlyAdd ==
  ASSUME \/ \E p \in Operators : OperatorStep(p) \/ NextName(p)
         \/ BootBegins \/ BootEnds
         \/ \E d \in Downs : ShutdownEnds(d) \/ \E o \in Objects : ShutdownLooks(d, o)
         \/ SignalReload \/ SignalShutdown \/ Exit \/ vars' = vars
  PROVE  /\ UNCHANGED <<status, latest>> /\ calls \subseteq calls'
         /\ Adds(Downs \cup {"go"})
<1>1. \A f : \A c \in Autostarts \cup DropStops(f) : c.by = "go"
  BY DEF Autostarts, DropStops, Frame
<1>2. ASSUME NEW f, Install(f)
      PROVE  /\ UNCHANGED <<status, latest>> /\ calls \subseteq calls'
             /\ Adds(Downs \cup {"go"})
  BY <1>1, <1>2 DEF Install, Adds
<1>3. ASSUME UNCHANGED <<status, latest, calls>>
      PROVE  /\ UNCHANGED <<status, latest>> /\ calls \subseteq calls'
             /\ Adds(Downs \cup {"go"})
  BY <1>3 DEF Adds
<1>4. ASSUME NEW p \in Operators, Call(p) \/ Shutdown(p) \/ Kill(p)
      PROVE  UNCHANGED <<status, latest, calls>>
  BY <1>4 DEF Call, Shutdown, Kill, objVars
<1>5. ASSUME NEW p \in Operators, AddProcess(p)
      PROVE  /\ UNCHANGED <<status, latest>> /\ calls \subseteq calls'
             /\ Adds(Downs \cup {"go"})
  BY <1>1, <1>5 DEF AddProcess, Adds
<1>6. ASSUME NEW p \in Operators, RemoveProcess(p) \/ NextName(p)
      PROVE  /\ UNCHANGED <<status, latest>> /\ calls \subseteq calls'
             /\ Adds(Downs \cup {"go"})
  <2>1. /\ UNCHANGED <<status, latest>>
        /\ UNCHANGED calls \/ \E o, pc : calls' = calls \cup {Frame(p, o, pc)}
    BY <1>6 DEF RemoveProcess, NextName, objVars
  <2> QED
    BY <2>1 DEF Adds, Frame, Downs
<1>7. ASSUME NEW p \in Operators, Reload(p)
      PROVE  /\ UNCHANGED <<status, latest>> /\ calls \subseteq calls'
             /\ Adds(Downs \cup {"go"})
  BY <1>2, <1>3, <1>7 DEF Reload, objVars
<1>8. ASSUME NEW d \in Downs, NEW o \in Objects, ShutdownLooks(d, o)
      PROVE  /\ UNCHANGED <<status, latest>> /\ calls \subseteq calls'
             /\ Adds(Downs \cup {"go"})
  BY <1>8 DEF ShutdownLooks, objVars, Adds, Frame
<1>9. ASSUME \/ BootBegins \/ BootEnds \/ \E d \in Downs : ShutdownEnds(d)
             \/ SignalShutdown \/ Exit \/ vars' = vars
      PROVE  UNCHANGED <<status, latest, calls>>
  BY <1>9
  DEF BootBegins, BootEnds, ShutdownEnds, SignalShutdown, Exit, vars, objVars
<1>10. CASE SignalReload
  BY <1>2, <1>3, <1>10 DEF SignalReload, objVars
<1> QED
  BY <1>3, <1>4, <1>5, <1>6, <1>7, <1>8, <1>9, <1>10 DEF OperatorStep

(* A call that is not spawning leaves its object's status, makes it the    *)
(* first to begin, or stops what was up.                                   *)
LEMMA OtherCallsLeave ==
  ASSUME Typed, NEW c \in calls, CallStep(c), ~Spawn(c), NEW o \in Objects
  PROVE  /\ c.pc # "spawn" /\ UNCHANGED latest /\ calls \ {c} \subseteq calls'
         /\ \/ status'[o] = status[o] \/ Up(o)
            \/ \E d \in calls' : d.obj = o /\ d.pc = "spawn"
<1>1. calls \ {c} \subseteq calls'
  BY CallMoves
<1>2. c \in Frames
  BY DEF Typed, CallTyped
<1>3. CASE BeginStart(c)
  <2>1. CASE c.obj = o /\ Goes(c, [c EXCEPT !.pc = "spawn"])
    <3> DEFINE d == [c EXCEPT !.pc = "spawn"]
    <3>1. d.obj = o /\ d.pc = "spawn" /\ d \in calls'
      BY <1>2, <2>1 DEF Goes, Frames
    <3> HIDE DEF d
    <3> QED
      BY <1>1, <1>3, <3>1 DEF BeginStart
  <2>2. CASE c.obj # o \/ UNCHANGED status
    BY <1>1, <1>3, <2>2 DEF BeginStart, Typed, ObjTyped
  <2> QED
    BY <1>3, <2>1, <2>2 DEF BeginStart
<1>4. CASE BeginStop(c)
  BY <1>1, <1>4 DEF BeginStop, Typed, ObjTyped
<1>5. CASE \/ Terminate(c) \/ StopEnds(c) \/ BeginRestart(c) \/ RemoveLooks(c)
           \/ LooksAgain(c)
  BY <1>1, <1>5
  DEF Terminate, StopEnds, BeginRestart, RemoveLooks, LooksAgain, objVars
<1> QED
  BY <1>3, <1>4, <1>5 DEF CallStep

LEMMA SpawnDoes ==
  ASSUME Typed, NEW o \in Objects, SpawnsChild(o) \/ SpawnFails(o)
  PROVE  /\ (Spawned(o))'
         /\ \A q \in Objects \ {o} : status'[q] = status[q] /\ latest'[q] = latest[q]
<1>1. latest[o] \in Nat /\ status \in [Objects -> Statuses] /\ latest \in [Objects -> Nat]
  BY SupervisorAssumption DEF Typed, ObjTyped
<1> QED
  BY <1>1 DEF SpawnsChild, SpawnFails, Spawned

LEMMA BegunStays ==
  ASSUME Typed, [Next]_vars, NEW o \in Objects
  PROVE  /\ Begun(o) => (Begun(o))'
         /\ status[o] = "STOPPED" \/ Begun(o) => status'[o] = "STOPPED" \/ (Begun(o))'
<1>1. ASSUME calls \subseteq calls', UNCHANGED <<status, latest>>
      PROVE  /\ Begun(o) => (Begun(o))'
             /\ status[o] = "STOPPED" \/ Begun(o)
                  => status'[o] = "STOPPED" \/ (Begun(o))'
  BY <1>1 DEF Begun, Spawned
<1>2. ASSUME NEW q \in Objects, SpawnsChild(q) \/ SpawnFails(q),
             \A c \in calls : c.obj # q => c \in calls'
      PROVE  /\ Begun(o) => (Begun(o))'
             /\ status[o] = "STOPPED" \/ Begun(o)
                  => status'[o] = "STOPPED" \/ (Begun(o))'
  <2>1. CASE o = q
    BY <1>2, <2>1, SpawnDoes DEF Begun
  <2>2. CASE o # q
    <3>1. status'[o] = status[o] /\ latest'[o] = latest[o]
      BY <1>2, <2>2, SpawnDoes
    <3> QED
      BY <1>2, <2>2, <3>1 DEF Begun, Spawned
  <2> QED
    BY <2>1, <2>2
<1>3. ASSUME NEW c \in calls, CallStep(c)
      PROVE  /\ Begun(o) => (Begun(o))'
             /\ status[o] = "STOPPED" \/ Begun(o)
                  => status'[o] = "STOPPED" \/ (Begun(o))'
  <2>1. CASE Spawn(c)
    <3>1. c.obj \in Objects
      BY DEF Typed, CallTyped, Frames
    <3>2. \A d \in calls : d.obj # c.obj => d \in calls'
      BY <2>1 DEF Spawn, Ends
    <3> QED
      BY <1>2, <2>1, <3>1, <3>2 DEF Spawn
  <2>2. CASE ~Spawn(c)
    <3>1. /\ c.pc # "spawn" /\ UNCHANGED latest /\ calls \ {c} \subseteq calls'
          /\ \/ status'[o] = status[o] \/ Up(o)
             \/ \E d \in calls' : d.obj = o /\ d.pc = "spawn"
      BY <1>3, <2>2, OtherCallsLeave
    <3> QED
      BY <3>1 DEF Begun, Spawned, Up
  <2> QED
    BY <2>1, <2>2
<1>4. ASSUME NEW q \in Objects, Promote(q) \/ \E k \in Kids : Exits(q, k)
      PROVE  /\ Begun(o) => (Begun(o))'
             /\ status[o] = "STOPPED" \/ Begun(o)
                  => status'[o] = "STOPPED" \/ (Begun(o))'
  <2>1. UNCHANGED <<calls, latest>> /\ alive[q] # {}
    BY <1>4 DEF Promote, Exits
  <2>2. \/ status' = status
        \/ \E to : status' = [status EXCEPT ![q] = to]
    BY <1>4 DEF Promote, Exits
  <2>3. CASE o = q
    <3>1. latest[o] \in Nat /\ latest[o] # 0
      BY <2>1, <2>3, SupervisorAssumption DEF Typed, ObjTyped
    <3> QED
      BY <2>1, <3>1 DEF Begun, Spawned
  <2>4. CASE o # q
    <3>1. status'[o] = status[o]
      BY <2>2, <2>4 DEF Typed, ObjTyped
    <3> QED
      BY <2>1, <3>1 DEF Begun, Spawned
  <2> QED
    BY <2>3, <2>4
<1>5. ASSUME NEW q \in Objects, Respawn(q)
      PROVE  /\ Begun(o) => (Begun(o))'
             /\ status[o] = "STOPPED" \/ Begun(o)
                  => status'[o] = "STOPPED" \/ (Begun(o))'
  BY <1>2, <1>5 DEF Respawn
<1>6. ASSUME NEW q \in Objects, BootStarts(q)
      PROVE  UNCHANGED <<status, latest>> /\ calls \subseteq calls'
  BY <1>6 DEF BootStarts, objVars
<1> QED
  BY <1>1, <1>3, <1>4, <1>5, <1>6, OthersOnlyAdd DEF Next, Goroutines

(* The boot's own calls: one step of the machine, as far as they go.       *)
LEMMA BootMoves ==
  ASSUME BootInv, [Next]_vars
  PROVE  BootCalls' /\ BootTurns'
<1>0. /\ Typed /\ Began /\ BootCalls /\ BootTurns
      /\ "boot" \notin Downs \cup {"go"} /\ Managed \subseteq Objects
      /\ \A o \in Objects : Begun(o) => (Begun(o))'
  <2>1. Typed /\ Began /\ BootCalls /\ BootTurns /\ MapTyped
    BY DEF BootInv, Typed
  <2>2. "boot" \notin Downs \cup {"go"}
    BY SupervisorAssumption DEF Downs
  <2>3. Managed \subseteq Objects
    BY <2>1, ManagedTyped
  <2>4. \A o \in Objects : Begun(o) => (Begun(o))'
    BY <2>1, BegunStays
  <2> QED
    BY <2>1, <2>2, <2>3, <2>4
<1>1. ASSUME boot = "starting" PROVE UNCHANGED <<processes, conf>>
  <2>1. ASSUME NEW p \in Operators, RemoveProcess(p) \/ AddProcess(p) PROVE FALSE
    BY <1>1, <2>1 DEF RemoveProcess, AddProcess, Writable
  <2>2. ASSUME NEW f, Install(f) PROVE FALSE
    BY <1>1, <2>2 DEF Install, Writable
  <2> QED
    BY <2>1, <2>2, WhoMovesTheMap
<1>2. ASSUME calls \subseteq calls', Adds(Downs \cup {"go"}), UNCHANGED <<boot, todo>>
      PROVE  BootCalls' /\ BootTurns'
  <2>1. \A c \in calls' : c.by = "boot" => c \in calls
    BY <1>0, <1>2 DEF Adds
  <2>2. BootCalls'
    BY <1>0, <1>1, <1>2, <2>1 DEF BootCalls
  <2>3. BootTurns'
    BY <1>0, <1>1, <1>2 DEF BootTurns, Managed
  <2> QED
    BY <2>2, <2>3
<1>3. CASE BootBegins
  <2>1. UNCHANGED <<calls, processes, conf>>
    BY <1>3 DEF BootBegins, mapVars, objVars
  <2>2. BootCalls'
    BY <1>0, <1>3, <2>1 DEF BootCalls, BootBegins
  <2>3. BootTurns'
    BY <1>3, <2>1 DEF BootTurns, BootBegins, Managed
  <2> QED
    BY <2>2, <2>3
<1>4. CASE BootEnds
  <2>1. boot' = "done" /\ UNCHANGED calls /\ \A c \in calls : c.by # "boot"
    BY <1>4 DEF BootEnds
  <2> QED
    BY <2>1 DEF BootCalls, BootTurns
<1>5. ASSUME NEW o \in Objects, BootStarts(o) PROVE BootCalls' /\ BootTurns'
  <2> DEFINE c == Frame("boot", o, "start")
  <2>1. c.by = "boot" /\ c.obj = o /\ c.pc = "start"
    BY DEF Frame
  <2>2. /\ boot = "starting" /\ UNCHANGED <<boot, processes, conf>>
        /\ calls' = calls \cup {c} /\ todo' = todo \ {o}
        /\ \A d \in calls : d.by # "boot"
        /\ \A q \in todo : conf[o].prio <= conf[q].prio
    BY <1>5 DEF BootStarts, mapVars, objVars
  <2> HIDE DEF c
  <2>3. BootCalls'
    BY <2>1, <2>2 DEF BootCalls
  <2>4. BootTurns'
    BY <1>0, <2>1, <2>2 DEF BootTurns, Managed
  <2> QED
    BY <2>3, <2>4
<1>6. ASSUME NEW c \in calls, CallStep(c) PROVE BootCalls' /\ BootTurns'
  <2>0. UNCHANGED <<boot, todo>> /\ c \in Frames /\ c.obj \in Objects
    BY <1>0, <1>6, CallStepKeeps DEF Typed, CallTyped, Frames
  <2>1. CASE c.by # "boot"
    <3>1. \A d \in calls' : d.by = "boot" => d \in calls
      BY <1>0, <1>6, <2>1, CallMoves
    <3>2. \A d \in calls : d.by = "boot" => d \in calls'
      BY <1>0, <1>6, <2>1, CallMoves
    <3>3. BootCalls'
      BY <1>0, <1>1, <2>0, <3>1 DEF BootCalls
    <3>4. BootTurns'
      BY <1>0, <1>1, <2>0, <3>2 DEF BootTurns, Managed
    <3> QED
      BY <3>3, <3>4
  <2>2. CASE c.by = "boot"
    <3>1. /\ boot = "starting" /\ c.pc \in {"start", "spawn"}
          /\ \A d \in calls : d.by = "boot" => c = d
          /\ \A q \in todo : conf[c.obj].prio <= conf[q].prio
          /\ UNCHANGED <<processes, conf>>
      BY <1>0, <1>1, <2>2 DEF BootCalls
    <3>2. /\ BeginStart(c) \/ Spawn(c)
          /\ \/ calls' = calls \ {c} /\ (Begun(c.obj))'
             \/ \E d : /\ calls' = (calls \ {c}) \cup {d}
                       /\ d.by = "boot" /\ d.obj = c.obj /\ d.pc = "spawn"
      <4>1. BeginStart(c) \/ Spawn(c)
        BY <1>6, <3>1
        DEF CallStep, BeginStop, Terminate, StopEnds, BeginRestart, RemoveLooks,
            LooksAgain
      <4>2. CASE Spawn(c)
        <5>1. (Spawned(c.obj))' /\ calls' = calls \ {c}
          BY <1>0, <2>0, <4>2, SpawnDoes DEF Spawn, Ends
        <5> QED
          BY <4>2, <5>1 DEF Begun
      <4>3. CASE BeginStart(c) /\ Up(c.obj) /\ Ends(c, "err")
        <5>1. Begun(c.obj)
          BY <1>0, <2>0, <4>3 DEF Began, Up
        <5> QED
          BY <1>0, <2>0, <4>3, <5>1 DEF Ends
      <4>4. CASE BeginStart(c) /\ Goes(c, [c EXCEPT !.pc = "spawn"])
        <5> DEFINE d == [c EXCEPT !.pc = "spawn"]
        <5>1. d.by = "boot" /\ d.obj = c.obj /\ d.pc = "spawn"
          BY <2>0, <2>2 DEF Frames
        <5>2. calls' = (calls \ {c}) \cup {d}
          BY <4>4 DEF Goes
        <5> HIDE DEF d
        <5> QED
          BY <4>4, <5>1, <5>2
      <4> QED
        BY <4>1, <4>2, <4>3, <4>4 DEF BeginStart
    <3>3. CASE calls' = calls \ {c} /\ (Begun(c.obj))'
      <4>1. BootCalls'
        BY <3>1, <3>3 DEF BootCalls
      <4>2. BootTurns'
        BY <1>0, <2>0, <3>1, <3>3 DEF BootTurns, Managed
      <4> QED
        BY <4>1, <4>2
    <3>4. ASSUME NEW d, calls' = (calls \ {c}) \cup {d}, d.by = "boot",
                 d.obj = c.obj, d.pc = "spawn"
          PROVE  BootCalls' /\ BootTurns'
      <4>1. BootCalls'
        BY <2>0, <3>1, <3>4 DEF BootCalls
      <4>2. (Begun(c.obj))'
        BY <3>4 DEF Begun
      <4>3. BootTurns'
        BY <1>0, <2>0, <3>1, <3>4, <4>2 DEF BootTurns, Managed
      <4> QED
        BY <4>1, <4>3
    <3> QED
      BY <3>2, <3>3, <3>4
  <2> QED
    BY <2>1, <2>2
<1>7. ASSUME NEW o \in Objects,
             Promote(o) \/ Respawn(o) \/ \E k \in Kids : Exits(o, k)
      PROVE  BootCalls' /\ BootTurns'
  <2>1. UNCHANGED <<calls, boot, todo>>
    BY <1>7 DEF Promote, Respawn, Exits, KeepsRest
  <2> QED
    BY <1>2, <2>1 DEF Adds
<1>8. ASSUME \/ \E p \in Operators : OperatorStep(p) \/ NextName(p)
             \/ \E d \in Downs : ShutdownEnds(d) \/ \E o \in Objects : ShutdownLooks(d, o)
             \/ SignalReload \/ SignalShutdown \/ Exit \/ vars' = vars
      PROVE  BootCalls' /\ BootTurns'
  <2>1. ASSUME NEW p \in Operators, OperatorStep(p) \/ NextName(p)
        PROVE  UNCHANGED <<boot, todo>>
    BY <2>1
    DEF OperatorStep, Call, AddProcess, RemoveProcess, Reload, Shutdown, Kill,
        NextName, KeepsRest
  <2>2. ASSUME \/ \E d \in Downs : ShutdownEnds(d) \/ \E o \in Objects : ShutdownLooks(d, o)
               \/ SignalReload \/ SignalShutdown \/ Exit \/ vars' = vars
        PROVE  UNCHANGED <<boot, todo>>
    BY <2>2 DEF ShutdownEnds, ShutdownLooks, SignalReload, SignalShutdown, Exit, vars
  <2> QED
    BY <1>2, <1>8, <2>1, <2>2, OthersOnlyAdd
<1> QED
  BY <1>3, <1>4, <1>5, <1>6, <1>7, <1>8 DEF Next, Goroutines

(* BootInOrder: main() spawns a program only when all that come before it  *)
(* have begun, for any number of programs and priorities and whatever      *)
(* clients, signals and deaths do meanwhile (supervisor.go:412-447).       *)
THEOREM BootAlwaysInOrder == Spec => []BootInOrder
<1>1. Init => BootInv
  <2>1. Init => Typed
    BY InitTyped
  <2>2. Init => Began /\ BootCalls /\ BootTurns
    BY DEF Init, Began, BootCalls, BootTurns
  <2> QED
    BY <2>1, <2>2 DEF BootInv
<1>2. BootInv /\ [Next]_vars => BootInv'
  <2> SUFFICES ASSUME BootInv, [Next]_vars PROVE BootInv'
    OBVIOUS
  <2>1. Typed' /\ Began'
    BY NextTyped, BegunStays DEF BootInv, Began
  <2> QED
    BY <2>1, BootMoves DEF BootInv
<1>3. BootInv => BootInOrder
  <2> SUFFICES ASSUME BootInv, NEW c \in calls, c.by = "boot", c.pc = "spawn",
                      NEW q \in Before(c.obj)
               PROVE  Begun(q)
    BY DEF BootInOrder
  <2>1. /\ boot = "starting" /\ q \in Managed /\ conf[q].auto
        /\ \A d \in calls : d.by = "boot" => c = d
        /\ conf[q].prio < conf[c.obj].prio
    BY DEF BootInv, BootCalls, Before
  <2>2. conf[q].prio \in Int /\ conf[c.obj].prio \in Int
    <3>1. q \in 1..made /\ c.obj \in 1..made
      BY <2>1, ManagedTyped DEF BootInv, Typed, CallTyped
    <3>2. conf[q] \in Confs /\ conf[c.obj] \in Confs
      BY <3>1 DEF BootInv, Typed, MapTyped
    <3> QED
      BY <3>2, SupervisorAssumption
  <2>3. q \notin todo
    BY <2>1, <2>2 DEF BootInv, BootCalls
  <2> QED
    BY <2>1, <2>3 DEF BootInv, BootTurns
<1> QED
  BY <1>1, <1>2, <1>3, PTL DEF Spec
=============================================================================
