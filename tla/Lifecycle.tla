----------------------------- MODULE Lifecycle -----------------------------
(***************************************************************************)
(* What a program's status may do, and nothing else: the machine that the  *)
(* rest of the daemon (status listing, web page, notification filter)      *)
(* relies on when it reads one ProcessState of pkg/types/types.go.         *)
(* internal/process/process.go implements it; module Process shows how,    *)
(* with its variable  state  in the place of  status.                      *)
(***************************************************************************)
VARIABLE status

Statuses == {"STOPPED", "STARTING", "RUNNING", "BACKOFF",
             "STOPPING", "EXITED", "FATAL"}

Init == status = "STOPPED"

(* A start is accepted in any status but the two that count as "up".       *)
Start == status \notin {"STARTING", "RUNNING"} /\ status' = "STARTING"

(* Only a starting program is promoted, and only to RUNNING.               *)
Promote == status = "STARTING" /\ status' = "RUNNING"

(* A stop is accepted only by a program that is up ...                     *)
Stop == status \in {"STARTING", "RUNNING"} /\ status' = "STOPPING"

(* ... and is the only way to STOPPED.                                     *)
Stopped == status = "STOPPING" /\ status' = "STOPPED"

(* A program that is up and exits too early backs off, or is given up.     *)
Crash == /\ status \in {"STARTING", "RUNNING"}
         /\ status' \in {"BACKOFF", "FATAL"}

(* Any exit nobody asked for, of a program that is not being stopped.      *)
Exit == status # "STOPPING" /\ status' = "EXITED"

(* A child that cannot be started makes the program FATAL from wherever.   *)
SpawnFails == status' = "FATAL"

Next == Start \/ Promote \/ Stop \/ Stopped \/ Crash \/ Exit \/ SpawnFails

Spec == Init /\ [][Next]_status
=============================================================================
