--------------------------- MODULE RotatingWriter ---------------------------
(***************************************************************************)
(* A log file and its backups: RotatingWriter in internal/logging.         *)
(*                                                                         *)
(* File 0 is the live file, file i the backup "path.i".  A file is a       *)
(* sequence of chunks, the n-th Write to reach the disk being chunk n.     *)
(* One writer exists at a time for a path: spawn() opens it, the pump that *)
(* copies the child's output calls Write until the first error, monitor()  *)
(* closes it, the next spawn() opens another one, perhaps reconfigured.    *)
(* Write holds the mutex, but each of its system calls is a step: any of   *)
(* them may fail and the daemon may die between two.                       *)
(***************************************************************************)
EXTENDS Integers, Sequences

CONSTANTS
  Confs,        \* what spawn() may configure: [maxBytes, backups]
  MaxBackups,   \* bound: backups of any configuration
  Sizes,        \* bytes in one Write
  MaxWrites,    \* bound: Writes that reach the disk
  MaxMishaps    \* bound: failing calls, deaths of the daemon, reconfigurations

ASSUME RotatingWriterAssumption ==
  /\ MaxBackups \in Nat /\ MaxWrites \in Nat /\ MaxMishaps \in Nat
  /\ Confs \subseteq [maxBytes : Nat, backups : 0..MaxBackups]
  /\ Sizes \subseteq Nat \ {0}

VARIABLES
  disk,             \* the files, or None where there is none
  conf, size,       \* the writer's configuration and currentSize
  wpc, next, len,   \* the writer: where Write stands, rotate's i, len(p)
  writes,           \* history: Writes that reached the disk
  mishaps           \* what has gone wrong so far, a sequence

vars == <<disk, conf, size, wpc, next, len, writes, mishaps>>

Names == 0..MaxBackups
None  == [exists |-> FALSE, chunks |-> <<>>]

Chunk      == [id : 1..MaxWrites, bytes : Nat \ {0}]
File(s)    == [exists |-> TRUE, chunks |-> s]
Chunks(i)  == disk[i].chunks
Bytes(s)   ==
  LET upTo[n \in 0..Len(s)] == IF n = 0 THEN 0 ELSE upTo[n - 1] + s[n].bytes
  IN upTo[Len(s)]

WriterPcs == {"none", "idle", "shift", "move", "reopen", "append", "failed"}
Mishap    == {"fault", "death", "reconf"}

TypeOK ==
  /\ disk \in [Names -> [exists : BOOLEAN, chunks : Seq(Chunk)]]
  /\ conf \in Confs /\ size \in Nat /\ wpc \in WriterPcs
  /\ next \in Names /\ len \in Sizes \cup {0}
  /\ writes \in 0..MaxWrites /\ mishaps \in Seq(Mishap)

Init ==
  /\ disk = [i \in Names |-> None]
  /\ conf \in Confs /\ size = 0 /\ wpc = "none" /\ next = 0 /\ len = 0
  /\ writes = 0 /\ mishaps = <<>>

Suffers(m) ==
  /\ Len(mishaps) < MaxMishaps
  /\ mishaps' = Append(mishaps, m)

-----------------------------------------------------------------------------
(* Variant: the file is opened for truncation.                             *)
OpenFile_Truncates ==
  /\ disk' = [disk EXCEPT ![0] = File(<<>>)]
  /\ size' = 0

(* openFile(): append mode creates what is missing; currentSize is what    *)
(* the file holds already.                                                 *)
OpenFile ==
  /\ disk' = [disk EXCEPT ![0] = File(Chunks(0))]
  /\ size' = Bytes(Chunks(0))

(* NewRotatingWriter(), with the configuration of this spawn().  If it     *)
(* fails there is no writer and no child.                                  *)
New ==
  /\ wpc = "none"
  /\ conf' \in Confs
  /\ IF conf' = conf \/ writes = 0 THEN UNCHANGED mishaps
                                   ELSE Suffers("reconf")
  /\ OpenFile /\ wpc' = "idle"
  /\ UNCHANGED <<next, len, writes>>

(* Variant: the size is compared before the new bytes are counted.         *)
MustRotate_Late(n) == conf.maxBytes > 0 /\ size > conf.maxBytes

MustRotate(n) == conf.maxBytes > 0 /\ size + n > conf.maxBytes

(* Write(): the size check, and the Close() that starts rotate().          *)
Write(n) ==
  /\ wpc = "idle" /\ writes < MaxWrites
  /\ len' = n
  /\ IF MustRotate(n)
     THEN /\ wpc' = IF conf.backups > 1 THEN "shift" ELSE "move"
          /\ next' = IF conf.backups > 1 THEN conf.backups - 1 ELSE 0
     ELSE wpc' = "append" /\ UNCHANGED next
  /\ UNCHANGED <<disk, conf, size, writes, mishaps>>

(* os.Rename: a missing source is an error, and errors are ignored.        *)
Rename(i, j) ==
  disk' = IF disk[i].exists
          THEN [disk EXCEPT ![i] = None, ![j] = disk[i]]
          ELSE disk

(* One turn of the loop: backup i becomes backup i+1, from the oldest on.  *)
Shift ==
  /\ wpc = "shift"
  /\ \/ Rename(next, next + 1) /\ UNCHANGED mishaps
     \/ UNCHANGED disk /\ Suffers("fault")
  /\ next' = next - 1
  /\ wpc' = IF next > 1 THEN "shift" ELSE "move"
  /\ UNCHANGED <<conf, size, len, writes>>

(* Variant: the live file takes the place of the oldest backup.            *)
Move_ToOldest ==
  /\ wpc = "move"
  /\ IF conf.backups > 0 THEN Rename(0, conf.backups)
                         ELSE disk' = [disk EXCEPT ![0] = None]
  /\ wpc' = "reopen"
  /\ UNCHANGED <<conf, size, next, len, writes, mishaps>>

(* The live file becomes backup 1; without backups it is removed.          *)
Move ==
  /\ wpc = "move"
  /\ \/ /\ IF conf.backups > 0 THEN Rename(0, 1)
                               ELSE disk' = [disk EXCEPT ![0] = None]
        /\ UNCHANGED mishaps
     \/ UNCHANGED disk /\ Suffers("fault")
  /\ wpc' = "reopen"
  /\ UNCHANGED <<conf, size, next, len, writes>>

(* Variant: currentSize is not seeded again.                               *)
Reopen_KeepsSize ==
  /\ wpc = "reopen"
  /\ disk' = [disk EXCEPT ![0] = File(Chunks(0))]
  /\ wpc' = "append"
  /\ UNCHANGED <<size, conf, next, len, writes, mishaps>>

(* A new live file, or an error: Write returns 0, on a closed file.        *)
Reopen ==
  /\ wpc = "reopen"
  /\ \/ OpenFile /\ wpc' = "append" /\ UNCHANGED mishaps
     \/ /\ \/ UNCHANGED disk                                   \* open fails
           \/ disk' = [disk EXCEPT ![0] = File(Chunks(0))]     \* Stat fails
        /\ wpc' = "failed" /\ Suffers("fault") /\ UNCHANGED size
  /\ UNCHANGED <<conf, next, len, writes>>

(* n bytes of the chunk reach the live file.                               *)
Puts(n) ==
  /\ size' = size + n
  /\ IF n = 0 THEN UNCHANGED <<disk, writes>>
     ELSE /\ writes' = writes + 1
          /\ disk' = [disk EXCEPT ![0] =
               File(Append(Chunks(0), [id |-> writes + 1, bytes |-> n]))]

(* The write itself: all of the chunk, or an error after part of it.       *)
Put ==
  /\ wpc = "append"
  /\ \/ Puts(len) /\ wpc' = "idle" /\ UNCHANGED mishaps
     \/ /\ \E n \in 0..(len - 1) : Puts(n)
        /\ wpc' = "failed" /\ Suffers("fault")
  /\ len' = 0
  /\ UNCHANGED <<conf, next>>

(* Close(), by monitor(); the pump stops at the first error.               *)
Close ==
  /\ wpc \in {"idle", "failed"}
  /\ wpc' = "none" /\ size' = 0 /\ next' = 0 /\ len' = 0
  /\ UNCHANGED <<disk, conf, writes, mishaps>>

(* The daemon is killed between any two system calls.                      *)
Dies ==
  /\ wpc # "none" /\ Suffers("death")
  /\ wpc' = "none" /\ size' = 0 /\ next' = 0 /\ len' = 0
  /\ UNCHANGED <<disk, conf, writes>>

Next ==
  \/ New
  \/ \E n \in Sizes : Write(n)
  \/ Shift \/ Move \/ Reopen \/ Put \/ Close
  \/ Dies

Spec == Init /\ [][Next]_vars

-----------------------------------------------------------------------------
(* Properties.                                                             *)

Suffered(m) == \E k \in DOMAIN mishaps : mishaps[k] = m

Ids(i)   == {Chunks(i)[k].id : k \in DOMAIN Chunks(i)}
Retained == UNION {Ids(i) : i \in Names}

(* Reading the backups from the oldest to the newest and then the live     *)
(* file gives the output in the order the child wrote it, whatever fails,  *)
(* whenever the daemon dies and however backups is changed in between      *)
(* (logging.go:130, .1 -> .2, .2 -> .3, the live file -> .1).              *)
InOrder ==
  /\ \A i \in Names : \A x, y \in DOMAIN Chunks(i) :
       x < y => Chunks(i)[x].id < Chunks(i)[y].id
  /\ \A i, j \in Names : i < j =>
       \A m \in Ids(i), n \in Ids(j) : n < m

(* If every call succeeds, only the oldest output is ever dropped: what is *)
(* on disk is an unbroken end of what was written, even if the daemon dies *)
(* in the middle of a rotation.  If it does not, the last Write is on disk *)
(* at every moment while backups are kept (logging.go:130-132).            *)
KeepsNewest ==
  ~Suffered("fault") /\ ~Suffered("reconf") =>
    /\ \A m \in Retained : m..writes \subseteq Retained
    /\ ~Suffered("death") /\ writes > 0 /\ conf.backups > 0
         => writes \in Retained

(* No file outgrows maxBytes, unless one Write alone did (logging.go:110). *)
FilesBounded ==
  mishaps = <<>> /\ conf.maxBytes > 0 =>
    \A i \in Names :
      Bytes(Chunks(i)) <= conf.maxBytes \/ Len(Chunks(i)) = 1

(* currentSize, which is cached, is the length of the live file whenever   *)
(* the next Write relies on it (logging.go:90-91 and 119).                 *)
SizeIsTrue == wpc \in {"idle", "append"} => size = Bytes(Chunks(0))
=============================================================================
