------------------------ MODULE RotatingWriterProofs ------------------------
(***************************************************************************)
(* Theorems about module RotatingWriter, for any configurations, sizes and *)
(* bounds.  Order and retention do not depend on currentSize, which only   *)
(* decides when to rotate; that it is true, and bounds the files, comes    *)
(* after them, with what Bytes() counts.                                   *)
(***************************************************************************)
EXTENDS RotatingWriter, SequenceTheorems, Induction

(* Everything but currentSize is well typed; a rotation has room for one   *)
(* more chunk and shifts only backups there are.                           *)
Typed ==
  /\ disk \in [Names -> [exists : BOOLEAN, chunks : Seq(Chunk)]]
  /\ conf \in Confs /\ wpc \in WriterPcs
  /\ next \in Names /\ writes \in 0..MaxWrites /\ mishaps \in Seq(Mishap)
  /\ wpc \in {"shift", "move", "reopen", "append"}
       => len \in Sizes /\ writes < MaxWrites
  /\ wpc = "shift" => next \in 1..(conf.backups - 1)

(* No chunk is numbered beyond the last.                                   *)
Numbered == \A i \in Names : Ids(i) \subseteq 1..writes

OrderInv == Typed /\ Numbered /\ InOrder

LEMMA Backups == ASSUME Typed PROVE conf.backups \in 0..MaxBackups /\ MaxBackups \in Nat
  BY RotatingWriterAssumption DEF Typed

LEMMA InitOrder == Init => OrderInv
<1> SUFFICES ASSUME Init PROVE OrderInv
  OBVIOUS
<1>0. MaxBackups \in Nat /\ MaxWrites \in Nat
  BY RotatingWriterAssumption
<1>1. None \in [exists : BOOLEAN, chunks : Seq(Chunk)]
  BY EmptySeq DEF None
<1>2. \A i \in Names : Chunks(i) = <<>> /\ Ids(i) = {}
  BY DEF Init, None, Chunks, Ids
<1>3. Typed
  BY <1>0, <1>1, EmptySeq DEF Init, Typed, Names, WriterPcs
<1>4. Numbered /\ InOrder
  BY <1>2 DEF Numbered, InOrder
<1> QED
  BY <1>3, <1>4 DEF OrderInv

(* A step that leaves the chunks of every file alone leaves their order.   *)
LEMMA SameChunks ==
  ASSUME OrderInv, Typed', writes' = writes,
         \A i \in Names : Chunks(i)' = Chunks(i)
  PROVE  OrderInv'
<1>1. \A i \in Names : Ids(i)' = Ids(i)
  BY DEF Ids
<1> QED
  BY <1>1 DEF OrderInv, Numbered, InOrder

(* A rename to the next name, or the removal of a file.                    *)
LEMMA RenameFiles ==
  ASSUME Typed, NEW i \in Names, i + 1 \in Names, Rename(i, i + 1)
  PROVE  /\ disk' \in [Names -> [exists : BOOLEAN, chunks : Seq(Chunk)]]
         /\ \/ \A k \in Names : Chunks(k)' = Chunks(k)
            \/ /\ Chunks(i)' = <<>> /\ Chunks(i + 1)' = Chunks(i)
               /\ \A k \in Names \ {i, i + 1} : Chunks(k)' = Chunks(k)
<1>1. None \in [exists : BOOLEAN, chunks : Seq(Chunk)] /\ None.chunks = <<>>
  BY EmptySeq DEF None
<1>2. i # i + 1
  BY RotatingWriterAssumption DEF Names
<1>3. CASE disk[i].exists
  <2>1. disk' = [disk EXCEPT ![i] = None, ![i + 1] = disk[i]]
    BY <1>3 DEF Rename
  <2> QED
    BY <1>1, <1>2, <2>1 DEF Typed, Chunks
<1>4. CASE ~disk[i].exists
  BY <1>4 DEF Rename, Typed, Chunks
<1> QED
  BY <1>3, <1>4

LEMMA RenameOrder ==
  ASSUME OrderInv, Typed', writes' = writes,
         NEW i \in Names, i + 1 \in Names, Rename(i, i + 1)
  PROVE  OrderInv'
<1>0. \A k \in Names : k \in Int
  BY RotatingWriterAssumption DEF Names
<1>1. CASE \A k \in Names : Chunks(k)' = Chunks(k)
  BY <1>1, SameChunks
<1>2. CASE /\ Chunks(i)' = <<>> /\ Chunks(i + 1)' = Chunks(i)
           /\ \A k \in Names \ {i, i + 1} : Chunks(k)' = Chunks(k)
  <2>1. /\ Ids(i)' = {} /\ Ids(i + 1)' = Ids(i)
        /\ \A k \in Names \ {i, i + 1} : Ids(k)' = Ids(k)
    BY <1>2 DEF Ids
  <2>2. Numbered'
    BY <2>1 DEF OrderInv, Numbered
  <2>3. \A k \in Names : \A x, y \in DOMAIN Chunks(k)' :
          x < y => Chunks(k)'[x].id < Chunks(k)'[y].id
    BY <1>2 DEF OrderInv, InOrder
  <2>4. \A k, l \in Names : k < l =>
          \A m \in Ids(k)', n \in Ids(l)' : n < m
    <3> SUFFICES ASSUME NEW k \in Names, NEW l \in Names, k < l,
                        NEW m \in Ids(k)', NEW n \in Ids(l)'
                 PROVE  n < m
      OBVIOUS
    <3>1. k # i /\ l # i
      BY <2>1
    <3>2. CASE k = i + 1
      <4>1. l # i + 1 /\ i < l
        BY <1>0, <3>2
      <4> QED
        BY <2>1, <3>1, <3>2, <4>1 DEF OrderInv, InOrder
    <3>3. CASE k # i + 1 /\ l = i + 1
      <4>1. k < i
        BY <1>0, <3>1, <3>3
      <4> QED
        BY <2>1, <3>1, <3>3, <4>1 DEF OrderInv, InOrder
    <3>4. CASE k # i + 1 /\ l # i + 1
      BY <2>1, <3>1, <3>4 DEF OrderInv, InOrder
    <3> QED
      BY <3>2, <3>3, <3>4
  <2> QED
    BY <2>2, <2>3, <2>4 DEF OrderInv, InOrder
<1> QED
  BY <1>1, <1>2, RenameFiles DEF OrderInv

(* The live file is created, or opened as it is.                           *)
LEMMA OpenKeepsChunks ==
  ASSUME Typed, disk' = [disk EXCEPT ![0] = File(Chunks(0))]
  PROVE  /\ disk' \in [Names -> [exists : BOOLEAN, chunks : Seq(Chunk)]]
         /\ \A i \in Names : Chunks(i)' = Chunks(i)
<1>1. 0 \in Names
  BY RotatingWriterAssumption DEF Names
<1>2. File(Chunks(0)) \in [exists : BOOLEAN, chunks : Seq(Chunk)]
  BY <1>1 DEF File, Chunks, Typed
<1> QED
  BY <1>1, <1>2 DEF Typed, Chunks, File

LEMMA MishapTyped ==
  ASSUME Typed, NEW m \in Mishap, Suffers(m)
  PROVE  mishaps' \in Seq(Mishap)
  BY AppendProperties DEF Typed, Suffers

-----------------------------------------------------------------------------
(* One lemma for each action: the types, the numbers and the order.        *)
LEMMA NewOrder == ASSUME OrderInv, New PROVE OrderInv'
<1>1. mishaps' \in Seq(Mishap)
  BY MishapTyped DEF New, OrderInv, Typed, Mishap
<1>2. Typed'
  BY <1>1, OpenKeepsChunks DEF New, OpenFile, OrderInv, Typed, WriterPcs
<1> QED
  BY <1>2, SameChunks, OpenKeepsChunks DEF New, OpenFile, OrderInv

LEMMA WriteOrder ==
  ASSUME OrderInv, NEW n \in Sizes, Write(n)
  PROVE  OrderInv'
<1>1. writes < MaxWrites
  BY RotatingWriterAssumption DEF Write, OrderInv, Typed
<1>2. conf.backups > 1 => /\ conf.backups - 1 \in 1..(conf.backups - 1)
                          /\ conf.backups - 1 \in Names
  BY Backups DEF OrderInv, Names
<1>3. 0 \in Names
  BY RotatingWriterAssumption DEF Names
<1>4. Typed'
  BY <1>1, <1>2, <1>3 DEF Write, OrderInv, Typed, WriterPcs
<1>5. \A i \in Names : Chunks(i)' = Chunks(i)
  BY DEF Write, Chunks
<1> QED
  BY <1>4, <1>5, SameChunks DEF Write

LEMMA ShiftTyped ==
  ASSUME OrderInv, Shift
  PROVE  Typed' /\ next \in Names /\ next + 1 \in Names
<1>1. next \in 1..(conf.backups - 1) /\ conf.backups \in 0..MaxBackups
      /\ MaxBackups \in Nat
  BY Backups DEF Shift, OrderInv, Typed
<1>2. next \in Names /\ next + 1 \in Names /\ next - 1 \in Names
  BY <1>1 DEF Names
<1>3. next > 1 => next - 1 \in 1..(conf.backups - 1)
  BY <1>1
<1>4. mishaps' \in Seq(Mishap)
  BY MishapTyped DEF Shift, OrderInv, Typed, Mishap
<1>5. disk' \in [Names -> [exists : BOOLEAN, chunks : Seq(Chunk)]]
  BY <1>2, RenameFiles DEF Shift, OrderInv, Typed
<1> QED
  BY <1>2, <1>3, <1>4, <1>5 DEF Shift, OrderInv, Typed, WriterPcs

LEMMA ShiftOrder == ASSUME OrderInv, Shift PROVE OrderInv'
<1>1. CASE Rename(next, next + 1)
  BY <1>1, ShiftTyped, RenameOrder DEF Shift
<1>2. CASE UNCHANGED disk
  <2>1. \A i \in Names : Chunks(i)' = Chunks(i)
    BY <1>2 DEF Chunks
  <2> QED
    BY <2>1, ShiftTyped, SameChunks DEF Shift
<1> QED
  BY <1>1, <1>2 DEF Shift

(* The live file becomes backup 1, is removed, or stays where it is.       *)
LEMMA MoveTyped ==
  ASSUME OrderInv, Move
  PROVE  /\ Typed' /\ 0 \in Names
         /\ \/ 0 + 1 \in Names /\ Rename(0, 0 + 1) /\ conf.backups > 0
            \/ disk' = [disk EXCEPT ![0] = None] /\ conf.backups = 0
            \/ UNCHANGED disk /\ Suffers("fault")
<1>1. 0 \in Names /\ conf.backups \in 0..MaxBackups /\ MaxBackups \in Nat
  BY Backups DEF OrderInv, Names
<1>2. \/ 0 + 1 \in Names /\ Rename(0, 0 + 1) /\ conf.backups > 0
      \/ disk' = [disk EXCEPT ![0] = None] /\ conf.backups = 0
      \/ UNCHANGED disk /\ Suffers("fault")
  <2>1. CASE conf.backups > 0
    <3>1. 0 + 1 = 1 /\ 1 \in Names
      BY <1>1, <2>1 DEF Names
    <3> QED
      BY <2>1, <3>1 DEF Move
  <2>2. CASE ~(conf.backups > 0)
    <3>1. conf.backups = 0
      BY <1>1, <2>2
    <3> QED
      BY <2>2, <3>1 DEF Move
  <2> QED
    BY <2>1, <2>2
<1>3. None \in [exists : BOOLEAN, chunks : Seq(Chunk)]
  BY EmptySeq DEF None
<1>4. disk' \in [Names -> [exists : BOOLEAN, chunks : Seq(Chunk)]]
  <2>1. CASE 0 + 1 \in Names /\ Rename(0, 0 + 1)
    BY <1>1, <2>1, RenameFiles DEF OrderInv
  <2>2. CASE disk' = [disk EXCEPT ![0] = None]
    BY <1>1, <1>3, <2>2 DEF OrderInv, Typed
  <2>3. CASE UNCHANGED disk
    BY <2>3 DEF OrderInv, Typed
  <2> QED
    BY <1>2, <2>1, <2>2, <2>3
<1>5. mishaps' \in Seq(Mishap)
  BY MishapTyped DEF Move, OrderInv, Typed, Mishap
<1>6. Typed'
  BY <1>4, <1>5 DEF Move, OrderInv, Typed, WriterPcs
<1> QED
  BY <1>1, <1>2, <1>6

LEMMA MoveOrder == ASSUME OrderInv, Move PROVE OrderInv'
<1>0. Typed' /\ 0 \in Names /\ writes' = writes
  BY MoveTyped DEF Move
<1>1. CASE 0 + 1 \in Names /\ Rename(0, 0 + 1)
  BY <1>0, <1>1, RenameOrder
<1>2. CASE disk' = [disk EXCEPT ![0] = None]
  <2>1. Chunks(0)' = <<>> /\ \A i \in Names \ {0} : Chunks(i)' = Chunks(i)
    BY <1>0, <1>2 DEF Chunks, None, OrderInv, Typed
  <2>2. Ids(0)' = {} /\ \A i \in Names \ {0} : Ids(i)' = Ids(i)
    BY <2>1 DEF Ids
  <2>3. Numbered' /\ InOrder'
    BY <1>0, <2>1, <2>2 DEF OrderInv, Numbered, InOrder
  <2> QED
    BY <1>0, <2>3 DEF OrderInv
<1>3. CASE UNCHANGED disk
  <2>1. \A i \in Names : Chunks(i)' = Chunks(i)
    BY <1>3 DEF Chunks
  <2> QED
    BY <1>0, <2>1, SameChunks
<1> QED
  BY <1>1, <1>2, <1>3, MoveTyped

LEMMA ReopenTyped ==
  ASSUME OrderInv, Reopen
  PROVE  Typed' /\ \A i \in Names : Chunks(i)' = Chunks(i)
<1>1. /\ disk' \in [Names -> [exists : BOOLEAN, chunks : Seq(Chunk)]]
      /\ \A i \in Names : Chunks(i)' = Chunks(i)
  <2>1. CASE UNCHANGED disk
    BY <2>1 DEF OrderInv, Typed, Chunks
  <2>2. CASE disk' = [disk EXCEPT ![0] = File(Chunks(0))]
    BY <2>2, OpenKeepsChunks DEF OrderInv
  <2> QED
    BY <2>1, <2>2 DEF Reopen, OpenFile
<1>2. mishaps' \in Seq(Mishap)
  BY MishapTyped DEF Reopen, OrderInv, Typed, Mishap
<1> QED
  BY <1>1, <1>2 DEF Reopen, OrderInv, Typed, WriterPcs

LEMMA ReopenOrder == ASSUME OrderInv, Reopen PROVE OrderInv'
  BY ReopenTyped, SameChunks DEF Reopen

(* A chunk that reaches the disk gets the next number, at the end of the   *)
(* live file.                                                              *)
LEMMA PutsLast ==
  ASSUME OrderInv, wpc = "append", NEW n \in 0..len, Puts(n), n # 0
  PROVE  /\ disk' \in [Names -> [exists : BOOLEAN, chunks : Seq(Chunk)]]
         /\ writes' = writes + 1 /\ writes' \in 0..MaxWrites
         /\ \A i \in Names \ {0} : Chunks(i)' = Chunks(i)
         /\ Chunks(0)' \in Seq(Chunk) /\ Len(Chunks(0)') = Len(Chunks(0)) + 1
         /\ \A k \in DOMAIN Chunks(0) : Chunks(0)'[k] = Chunks(0)[k]
         /\ Chunks(0)'[Len(Chunks(0)) + 1].id = writes + 1
<1> DEFINE c == [id |-> writes + 1, bytes |-> n]
<1>1. 0 \in Names
  BY RotatingWriterAssumption DEF Names
<1>2. writes + 1 \in 1..MaxWrites /\ n \in Nat \ {0}
  BY RotatingWriterAssumption DEF OrderInv, Typed
<1>3. c \in Chunk /\ Chunks(0) \in Seq(Chunk)
  BY <1>1, <1>2 DEF Chunk, Chunks, OrderInv, Typed
<1>4. /\ Append(Chunks(0), c) \in Seq(Chunk)
      /\ Len(Append(Chunks(0), c)) = Len(Chunks(0)) + 1
      /\ \A k \in 1..Len(Chunks(0)) : Append(Chunks(0), c)[k] = Chunks(0)[k]
      /\ Append(Chunks(0), c)[Len(Chunks(0)) + 1] = c
  BY <1>3, AppendProperties
<1>5. /\ writes' = writes + 1
      /\ disk' = [disk EXCEPT ![0] = File(Append(Chunks(0), c))]
  BY DEF Puts
<1>6. File(Append(Chunks(0), c)) \in [exists : BOOLEAN, chunks : Seq(Chunk)]
  BY <1>4 DEF File
<1>7. /\ disk' \in [Names -> [exists : BOOLEAN, chunks : Seq(Chunk)]]
      /\ Chunks(0)' = Append(Chunks(0), c)
      /\ \A i \in Names \ {0} : Chunks(i)' = Chunks(i)
  BY <1>1, <1>5, <1>6 DEF File, Chunks, OrderInv, Typed
<1>8. DOMAIN Chunks(0) = 1..Len(Chunks(0))
  BY <1>3
<1>9. writes' \in 0..MaxWrites
  BY <1>2, <1>5, RotatingWriterAssumption DEF OrderInv, Typed
<1> QED
  BY <1>4, <1>5, <1>7, <1>8, <1>9 DEF Chunks

LEMMA PutsIds ==
  ASSUME OrderInv, wpc = "append", NEW n \in 0..len, Puts(n), n # 0
  PROVE  /\ Ids(0)' = Ids(0) \cup {writes + 1}
         /\ \A i \in Names \ {0} : Ids(i)' = Ids(i)
<1>1. 0 \in Names /\ Chunks(0) \in Seq(Chunk)
  BY RotatingWriterAssumption DEF Names, Chunks, OrderInv, Typed
<1>2. /\ Len(Chunks(0)) \in Nat
      /\ DOMAIN Chunks(0) = 1..Len(Chunks(0))
      /\ DOMAIN Chunks(0)' = 1..(Len(Chunks(0)) + 1)
  BY <1>1, PutsLast DEF Chunks
<1>3. DOMAIN Chunks(0)' = DOMAIN Chunks(0) \cup {Len(Chunks(0)) + 1}
  <2>1. \A m \in Nat : 1..(m + 1) = 1..m \cup {m + 1}
    OBVIOUS
  <2> QED
    BY <1>2, <2>1
<1>4. Ids(0)' = {Chunks(0)'[k].id : k \in DOMAIN Chunks(0)'}
  BY DEF Ids
<1>5. Ids(0)' = Ids(0) \cup {writes + 1}
  BY <1>3, <1>4, PutsLast DEF Ids
<1>6. \A i \in Names \ {0} : Ids(i)' = Ids(i)
  BY PutsLast DEF Ids
<1> QED
  BY <1>5, <1>6 DEF Ids

LEMMA PutOrder == ASSUME OrderInv, Put PROVE OrderInv'
<1>0. 0 \in Names /\ wpc = "append" /\ len \in Nat \ {0}
  <2>1. wpc = "append"
    BY DEF Put
  <2>2. len \in Sizes
    BY <2>1 DEF OrderInv, Typed
  <2> QED
    BY <2>1, <2>2, RotatingWriterAssumption DEF Names
<1>1. PICK n \in 0..len : Puts(n)
  BY <1>0 DEF Put
<1>2. mishaps' \in Seq(Mishap)
  BY MishapTyped DEF Put, OrderInv, Typed, Mishap
<1>3. CASE n = 0
  <2>1. UNCHANGED <<disk, writes>>
    BY <1>1, <1>3 DEF Puts
  <2>2. Typed'
    BY <1>2, <2>1 DEF Put, OrderInv, Typed, WriterPcs
  <2> QED
    BY <2>1, <2>2, SameChunks DEF Chunks
<1>4. CASE n # 0
  <2>1. Typed'
    BY <1>0, <1>1, <1>2, <1>4, PutsLast DEF Put, OrderInv, Typed, WriterPcs
  <2>2. /\ Ids(0)' = Ids(0) \cup {writes + 1} /\ writes' = writes + 1
        /\ \A i \in Names \ {0} : Ids(i)' = Ids(i)
    BY <1>0, <1>1, <1>4, PutsIds, PutsLast
  <2>3. writes \in Nat /\ \A i \in Names : Ids(i) \subseteq 1..writes
    BY DEF OrderInv, Typed, Numbered
  <2>4. Numbered'
    BY <2>2, <2>3 DEF Numbered
  <2>5. \A i, j \in Names : i < j =>
          \A m \in Ids(i)', k \in Ids(j)' : k < m
    <3> SUFFICES ASSUME NEW i \in Names, NEW j \in Names, i < j,
                        NEW m \in Ids(i)', NEW k \in Ids(j)'
                 PROVE  k < m
      OBVIOUS
    <3>1. j # 0 /\ k \in Ids(j) /\ k \in 1..writes
      BY <2>2, <2>3 DEF Names
    <3>2. CASE m \in Ids(i)
      BY <3>1, <3>2 DEF OrderInv, InOrder
    <3>3. CASE m = writes + 1
      BY <2>3, <3>1, <3>3
    <3> QED
      BY <2>2, <3>2, <3>3
  <2>6. \A i \in Names : \A x, y \in DOMAIN Chunks(i)' :
          x < y => Chunks(i)'[x].id < Chunks(i)'[y].id
    <3> SUFFICES ASSUME NEW x \in DOMAIN Chunks(0)',
                        NEW y \in DOMAIN Chunks(0)', x < y
                 PROVE  Chunks(0)'[x].id < Chunks(0)'[y].id
      BY <1>0, <1>1, <1>4, PutsLast DEF OrderInv, InOrder
    <3>1. /\ Chunks(0) \in Seq(Chunk) /\ Len(Chunks(0)) \in Nat
          /\ DOMAIN Chunks(0) = 1..Len(Chunks(0))
          /\ DOMAIN Chunks(0)' = 1..(Len(Chunks(0)) + 1)
      BY <1>0, <1>1, <1>4, PutsLast DEF Chunks, OrderInv, Typed
    <3>2. x \in DOMAIN Chunks(0) /\ Chunks(0)'[x] = Chunks(0)[x]
          /\ Chunks(0)[x].id \in Ids(0)
      BY <1>0, <1>1, <1>4, <3>1, PutsLast DEF Ids
    <3>3. CASE y \in DOMAIN Chunks(0)
      <4>1. Chunks(0)'[y] = Chunks(0)[y]
        BY <1>0, <1>1, <1>4, <3>3, PutsLast
      <4> QED
        BY <1>0, <3>2, <3>3, <4>1 DEF OrderInv, InOrder
    <3>4. CASE y \notin DOMAIN Chunks(0)
      <4>1. y = Len(Chunks(0)) + 1
        BY <3>1, <3>4
      <4>2. Chunks(0)'[y].id = writes + 1 /\ Chunks(0)[x].id \in 1..writes
        BY <1>0, <1>1, <1>4, <2>3, <3>2, <4>1, PutsLast
      <4> QED
        BY <2>3, <3>2, <4>2
    <3> QED
      BY <3>3, <3>4
  <2> QED
    BY <2>1, <2>4, <2>5, <2>6 DEF OrderInv, InOrder
<1> QED
  BY <1>3, <1>4

LEMMA EndOrder == ASSUME OrderInv, Close \/ Dies PROVE OrderInv'
<1>1. mishaps' \in Seq(Mishap) /\ 0 \in Names
  BY MishapTyped, RotatingWriterAssumption
  DEF Close, Dies, OrderInv, Typed, Mishap, Names
<1>2. Typed'
  BY <1>1 DEF Close, Dies, OrderInv, Typed, WriterPcs
<1> QED
  BY <1>2, SameChunks DEF Close, Dies, Chunks

LEMMA NextOrder == OrderInv /\ [Next]_vars => OrderInv'
<1> SUFFICES ASSUME OrderInv, [Next]_vars PROVE OrderInv'
  OBVIOUS
<1>1. CASE UNCHANGED vars
  <2>1. Typed'
    BY <1>1 DEF vars, OrderInv, Typed
  <2> QED
    BY <1>1, <2>1, SameChunks DEF vars, Chunks
<1> QED
  BY <1>1, NewOrder, WriteOrder, ShiftOrder, MoveOrder, ReopenOrder, PutOrder,
     EndOrder DEF Next

LEMMA OrderInvariant == Spec => []OrderInv
  BY InitOrder, NextOrder, PTL DEF Spec

(* However often calls fail, the daemon dies and the configuration is      *)
(* changed, for any number of backups: the files never hold the output of  *)
(* the child out of order.                                                 *)
THEOREM AlwaysInOrder == Spec => []InOrder
<1>1. OrderInv => InOrder
  BY DEF OrderInv
<1> QED
  BY <1>1, OrderInvariant, PTL

-----------------------------------------------------------------------------
(* What is kept.  As long as every call succeeds, no file lies beyond the  *)
(* last backup, and a rotation that has moved a backup on leaves its name  *)
(* free for the next one: a rename replaces nothing but the oldest file.   *)
Clean    == ~Suffered("fault") /\ ~Suffered("reconf")
Unbroken == \A m \in Retained : m..writes \subseteq Retained
Absent   == \A i \in Names : disk[i].exists \/ Chunks(i) = <<>>

EndInv == Clean =>
  /\ \A k \in Names : k > conf.backups => Ids(k) = {}
  /\ wpc = "shift" /\ next < conf.backups - 1 => Ids(next + 1) = {}
  /\ wpc = "move" /\ conf.backups > 1 => Ids(1) = {}
  /\ Unbroken

(* If the daemon does not die either, the newest chunk is in the live file *)
(* or, between a rotation and the write it was for, in backup 1.           *)
NewestInv ==
  Clean /\ ~Suffered("death") /\ writes > 0 /\ conf.backups > 0 =>
    /\ wpc \in {"none", "idle", "shift", "move"} => writes \in Ids(0)
    /\ wpc \in {"reopen", "append"} => writes \in Ids(0) \cup Ids(1)
    /\ wpc # "failed"

KeepInv == OrderInv /\ Absent /\ EndInv /\ NewestInv

(* What has gone wrong stays on record.                                    *)
LEMMA MishapsStay ==
  ASSUME Typed, UNCHANGED mishaps \/ \E m \in Mishap : Suffers(m), NEW x
  PROVE  Suffered(x) => Suffered(x)'
<1>1. CASE UNCHANGED mishaps
  BY <1>1 DEF Suffered
<1>2. ASSUME NEW m \in Mishap, Suffers(m)
      PROVE  Suffered(x) => Suffered(x)'
  <2>1. /\ Len(mishaps) \in Nat /\ DOMAIN mishaps = 1..Len(mishaps)
        /\ DOMAIN mishaps' = 1..(Len(mishaps) + 1)
        /\ \A k \in 1..Len(mishaps) : mishaps'[k] = mishaps[k]
    BY <1>2, AppendProperties DEF Typed, Suffers
  <2> QED
    BY <2>1 DEF Suffered
<1> QED
  BY <1>1, <1>2

LEMMA MishapRecorded ==
  ASSUME Typed, NEW m \in Mishap, Suffers(m)
  PROVE  Suffered(m)'
<1>1. /\ Len(mishaps) + 1 \in DOMAIN mishaps'
      /\ mishaps'[Len(mishaps) + 1] = m
  BY AppendProperties DEF Typed, Suffers
<1> QED
  BY <1>1 DEF Suffered

LEMMA NextMishaps ==
  ASSUME Next
  PROVE  UNCHANGED mishaps \/ \E m \in Mishap : Suffers(m)
  BY DEF Next, New, Write, Shift, Move, Reopen, Put, Close, Dies, Mishap

LEMMA NextClean ==
  ASSUME OrderInv, Next
  PROVE  /\ Clean' => Clean
         /\ ~Suffered("death")' => ~Suffered("death")
<1>1. \A x : Suffered(x) => Suffered(x)'
  BY NextMishaps, MishapsStay DEF OrderInv
<1> QED
  BY <1>1 DEF Clean

-----------------------------------------------------------------------------
(* A rename empties its source; the target gets what the source held,      *)
(* unless there was no such file.                                          *)
LEMMA RenameIds ==
  ASSUME Typed, Absent, NEW i \in Names, i + 1 \in Names, Rename(i, i + 1)
  PROVE  /\ Ids(i)' = {}
         /\ \/ Ids(i + 1)' = Ids(i)
            \/ Ids(i) = {} /\ Ids(i + 1)' = Ids(i + 1)
         /\ \A k \in Names \ {i, i + 1} : Ids(k)' = Ids(k)
<1>1. CASE disk[i].exists
  <2>1. i # i + 1
    BY RotatingWriterAssumption DEF Names
  <2>2. disk' = [disk EXCEPT ![i] = None, ![i + 1] = disk[i]]
    BY <1>1 DEF Rename
  <2>3. /\ Chunks(i)' = <<>> /\ Chunks(i + 1)' = Chunks(i)
        /\ \A k \in Names \ {i, i + 1} : Chunks(k)' = Chunks(k)
    BY <2>1, <2>2 DEF Typed, Chunks, None
  <2> QED
    BY <2>3 DEF Ids
<1>2. CASE ~disk[i].exists
  <2>1. Chunks(i) = <<>> /\ \A k \in Names : Chunks(k)' = Chunks(k)
    BY <1>2 DEF Rename, Absent, Chunks
  <2> QED
    BY <2>1 DEF Ids
<1> QED
  BY <1>1, <1>2

(* Nothing but the oldest file can be missing after a rename onto a free   *)
(* name, or onto the last file there is.                                   *)
LEMMA RenameUnbroken ==
  ASSUME OrderInv, Absent, Unbroken, writes' = writes,
         NEW i \in Names, i + 1 \in Names, Rename(i, i + 1),
         Ids(i + 1) = {} \/ \A k \in Names : k > i + 1 => Ids(k) = {}
  PROVE  Unbroken'
<1> SUFFICES ASSUME NEW m \in Retained', NEW n \in m..writes
             PROVE  n \in Retained'
  BY DEF Unbroken
<1>0. \A k \in Names : k \in Int
  BY RotatingWriterAssumption DEF Names
<1>1. /\ Ids(i)' = {}
      /\ Ids(i + 1)' = Ids(i) \/ (Ids(i) = {} /\ Ids(i + 1)' = Ids(i + 1))
      /\ \A k \in Names \ {i, i + 1} : Ids(k)' = Ids(k)
  BY RenameIds DEF OrderInv
<1>2. PICK k \in Names : m \in Ids(k)'
  BY DEF Retained
<1>3. k # i
  BY <1>1, <1>2
<1>4. m \in Retained
  BY <1>1, <1>2, <1>3 DEF Retained
<1>5. PICK l \in Names : n \in Ids(l)
  BY <1>4 DEF Unbroken, Retained
<1>6. m \in Int /\ n \in Int /\ m <= n
  BY <1>4 DEF Retained, OrderInv, Numbered, Typed
<1>7. CASE l # i /\ l # i + 1
  BY <1>1, <1>5, <1>7 DEF Retained
<1>8. CASE l = i
  BY <1>1, <1>5, <1>8 DEF Retained
<1>9. CASE l = i + 1 /\ Ids(i + 1)' = Ids(i + 1)
  BY <1>5, <1>9 DEF Retained
<1>10. CASE l = i + 1 /\ Ids(i + 1)' = Ids(i)
  <2>1. ~(k > i + 1)
    BY <1>0, <1>1, <1>2, <1>3, <1>5, <1>10
  <2>2. \E j \in Names : j < i + 1 /\ m \in Ids(j)
    <3>1. CASE k = i + 1
      BY <1>0, <1>2, <1>10, <3>1
    <3>2. CASE k # i + 1
      BY <1>0, <1>1, <1>2, <1>3, <2>1, <3>2
    <3> QED
      BY <3>1, <3>2
  <2>3. n < m
    BY <1>5, <1>10, <2>2 DEF OrderInv, InOrder
  <2> QED
    BY <1>6, <2>3
<1> QED
  BY <1>1, <1>7, <1>8, <1>9, <1>10

(* A step that leaves the numbers in every file alone.                     *)
LEMMA SameUnbroken ==
  ASSUME Unbroken, writes' = writes, \A i \in Names : Ids(i)' = Ids(i)
  PROVE  Unbroken'
<1>1. Retained' = Retained
  BY DEF Retained
<1> QED
  BY <1>1 DEF Unbroken

-----------------------------------------------------------------------------
LEMMA InitKeep == Init => KeepInv
<1> SUFFICES ASSUME Init PROVE KeepInv
  OBVIOUS
<1>1. \A i \in Names : Chunks(i) = <<>> /\ Ids(i) = {}
  BY DEF Init, None, Chunks, Ids
<1>2. Absent /\ NewestInv
  BY <1>1 DEF Init, Absent, NewestInv
<1>3. EndInv
  BY <1>1 DEF Init, EndInv, Unbroken, Retained
<1> QED
  BY <1>2, <1>3, InitOrder DEF KeepInv

(* Steps that only create the live file, or touch no file.                 *)
LEMMA SameIds ==
  ASSUME Typed,
         UNCHANGED disk \/ disk' = [disk EXCEPT ![0] = File(Chunks(0))]
  PROVE  /\ \A i \in Names : Ids(i)' = Ids(i)
         /\ Absent => Absent'
<1>1. \A i \in Names : Chunks(i)' = Chunks(i)
  BY OpenKeepsChunks DEF Chunks
<1>2. ASSUME NEW i \in Names, disk[i].exists PROVE disk'[i].exists
  <2>1. CASE UNCHANGED disk
    BY <1>2, <2>1
  <2>2. CASE disk' = [disk EXCEPT ![0] = File(Chunks(0))] /\ i = 0
    BY <2>2 DEF Typed, File
  <2>3. CASE disk' = [disk EXCEPT ![0] = File(Chunks(0))] /\ i # 0
    BY <1>2, <2>3 DEF Typed
  <2> QED
    BY <2>1, <2>2, <2>3
<1> QED
  BY <1>1, <1>2 DEF Ids, Absent

LEMMA NewKeeps ==
  ASSUME KeepInv, New PROVE Absent' /\ EndInv' /\ NewestInv'
<1>1. \A i \in Names : Ids(i)' = Ids(i)
  BY SameIds DEF New, OpenFile, KeepInv, OrderInv
<1>2. Absent'
  BY SameIds DEF New, OpenFile, KeepInv, OrderInv
<1>3. (Clean' => Clean) /\ (~Suffered("death")' => ~Suffered("death"))
  BY NextClean DEF KeepInv, Next
<1>4. Clean' => conf' = conf \/ writes = 0
  BY MishapRecorded DEF New, Clean, KeepInv, OrderInv, Mishap
<1>5. ASSUME Clean' PROVE Unbroken'
  BY <1>1, <1>3, <1>5, SameUnbroken DEF New, KeepInv, EndInv
<1>6. ASSUME Clean' PROVE \A k \in Names : k > conf'.backups => Ids(k)' = {}
  <2>1. CASE conf' = conf
    BY <1>1, <1>3, <1>6, <2>1 DEF KeepInv, EndInv
  <2>2. CASE writes = 0
    <3>1. \A k \in Names : Ids(k) \subseteq 1..0
      BY <2>2 DEF KeepInv, OrderInv, Numbered
    <3> QED
      BY <1>1, <3>1
  <2> QED
    BY <1>4, <1>6, <2>1, <2>2
<1>7. EndInv'
  BY <1>5, <1>6 DEF New, EndInv
<1>8. NewestInv'
  <2>1. 0 \in Names
    BY RotatingWriterAssumption DEF Names
  <2>2. CASE Clean' /\ writes > 0
    BY <1>1, <1>3, <1>4, <2>1, <2>2 DEF New, KeepInv, NewestInv
  <2> QED
    BY <2>2 DEF New, NewestInv
<1> QED
  BY <1>2, <1>7, <1>8

LEMMA WriteKeeps ==
  ASSUME KeepInv, NEW n \in Sizes, Write(n)
  PROVE  Absent' /\ EndInv' /\ NewestInv'
<1>1. (\A i \in Names : Ids(i)' = Ids(i)) /\ Absent'
  BY SameIds DEF Write, KeepInv, OrderInv
<1>2. UNCHANGED <<conf, writes, mishaps>> /\ (Clean' <=> Clean)
      /\ (Suffered("death")' <=> Suffered("death"))
  BY DEF Write, Clean, Suffered
<1>3. conf.backups \in Int /\ 0 \in Names
  BY Backups, RotatingWriterAssumption DEF KeepInv, OrderInv, Names
<1>4. ASSUME Clean PROVE Unbroken'
  BY <1>1, <1>2, <1>4, SameUnbroken DEF KeepInv, EndInv
<1>5. EndInv'
  <2>1. /\ wpc' = "shift" => ~(next' < conf.backups - 1)
        /\ wpc' = "move" => ~(conf.backups > 1)
    BY <1>3 DEF Write
  <2> QED
    BY <1>1, <1>2, <1>4, <2>1 DEF KeepInv, EndInv
<1>6. NewestInv'
  <2>1. wpc = "idle" /\ wpc' \in {"shift", "move", "append"}
    BY DEF Write
  <2> QED
    BY <1>1, <1>2, <1>3, <2>1 DEF KeepInv, NewestInv
<1> QED
  BY <1>1, <1>5, <1>6

(* A rename keeps files that do not exist empty.                           *)
LEMMA RenameAbsent ==
  ASSUME Typed, Absent, NEW i \in Names, i + 1 \in Names, Rename(i, i + 1)
  PROVE  Absent'
  BY RotatingWriterAssumption DEF Rename, Typed, Absent, Chunks, None, Names

LEMMA ShiftKeeps ==
  ASSUME KeepInv, Shift PROVE Absent' /\ EndInv' /\ NewestInv'
<1>a. wpc = "shift" /\ next \in 1..(conf.backups - 1)
  BY DEF Shift, KeepInv, OrderInv, Typed
<1>b. next \in Names /\ next + 1 \in Names
  BY ShiftTyped DEF KeepInv
<1>c. PICK i \in Names : i = next
  BY <1>b
<1>0. /\ i \in 1..(conf.backups - 1) /\ i + 1 \in Names
      /\ conf.backups \in 0..MaxBackups /\ 0 \in Names /\ MaxBackups \in Nat
  <2>1. 0 \in Names
    BY RotatingWriterAssumption DEF Names
  <2> QED
    BY <1>a, <1>b, <1>c, <2>1, Backups DEF KeepInv, OrderInv
<1>1. (Clean' => Clean) /\ (~Suffered("death")' => ~Suffered("death"))
  BY NextClean DEF KeepInv, Next
<1>2. UNCHANGED <<conf, writes>> /\ next' = i - 1
      /\ wpc' = IF i > 1 THEN "shift" ELSE "move"
  BY <1>c DEF Shift
<1>3. CASE Rename(i, i + 1)
  <2>1. /\ Ids(i)' = {}
        /\ \A k \in Names \ {i, i + 1} : Ids(k)' = Ids(k)
    BY <1>0, <1>3, RenameIds DEF KeepInv, OrderInv
  <2>2. Absent'
    BY <1>0, <1>3, RenameAbsent DEF KeepInv, OrderInv
  <2>3. ASSUME Clean' PROVE Unbroken'
    <3>1. Unbroken /\ \A k \in Names : k > conf.backups => Ids(k) = {}
      BY <1>1, <2>3 DEF KeepInv, EndInv
    <3>2. Ids(i + 1) = {} \/ \A k \in Names : k > i + 1 => Ids(k) = {}
      <4>1. CASE i < conf.backups - 1
        BY <1>a, <1>c, <1>1, <2>3, <4>1 DEF KeepInv, EndInv
      <4>2. CASE ~(i < conf.backups - 1)
        <5>1. i + 1 = conf.backups
          BY <1>0, <4>2
        <5> QED
          BY <3>1, <5>1
      <4> QED
        BY <4>1, <4>2
    <3> QED
      BY <1>0, <1>2, <1>3, <3>1, <3>2, RenameUnbroken DEF KeepInv
  <2>4. ASSUME Clean', NEW k \in Names, k > conf.backups PROVE Ids(k)' = {}
    <3>1. k \in Names \ {i, i + 1}
      BY <1>0, <2>4 DEF Names
    <3> QED
      BY <1>1, <2>1, <2>4, <3>1 DEF KeepInv, EndInv
  <2>5. /\ wpc' = "shift" => Ids(next + 1)' = {}
        /\ wpc' = "move" => Ids(1)' = {}
    <3>1. next' + 1 = i /\ (wpc' = "move" => i = 1)
      BY <1>0, <1>2
    <3>2. Ids(next + 1)' = {}
      BY <2>1, <3>1 DEF Ids, Chunks
    <3>3. wpc' = "move" => Ids(1)' = {}
      BY <2>1, <3>1
    <3> QED
      BY <3>2, <3>3
  <2>6. EndInv'
    BY <1>2, <2>3, <2>4, <2>5 DEF EndInv
  <2>7. NewestInv'
    <3>1. 0 \in Names \ {i, i + 1}
      BY <1>0
    <3> QED
      BY <1>a, <1>1, <1>2, <2>1, <3>1 DEF KeepInv, NewestInv
  <2> QED
    BY <2>2, <2>6, <2>7
<1>4. CASE UNCHANGED disk /\ Suffers("fault")
  <2>1. ~Clean'
    BY <1>4, MishapRecorded DEF Clean, KeepInv, OrderInv, Mishap
  <2>2. Absent'
    BY <1>4, SameIds DEF KeepInv, OrderInv
  <2> QED
    BY <2>1, <2>2 DEF EndInv, NewestInv
<1> QED
  BY <1>c, <1>3, <1>4 DEF Shift

LEMMA MoveKeeps ==
  ASSUME KeepInv, Move PROVE Absent' /\ EndInv' /\ NewestInv'
<1>0. /\ wpc = "move" /\ wpc' = "reopen" /\ 0 \in Names
      /\ UNCHANGED <<conf, writes>>
      /\ conf.backups \in 0..MaxBackups /\ MaxBackups \in Nat
  BY MoveTyped, Backups DEF Move, KeepInv, OrderInv
<1>1. (Clean' => Clean) /\ (~Suffered("death")' => ~Suffered("death"))
  BY NextClean DEF KeepInv, Next
<1>2. CASE 0 + 1 \in Names /\ Rename(0, 0 + 1) /\ conf.backups > 0
  <2>1. 1 \in Names /\ 0 + 1 = 1
    BY <1>2
  <2>2. /\ Ids(0)' = {}
        /\ Ids(1)' = Ids(0) \/ Ids(0) = {}
        /\ \A k \in Names \ {0, 1} : Ids(k)' = Ids(k)
    BY <1>0, <1>2, <2>1, RenameIds DEF KeepInv, OrderInv
  <2>3. Absent'
    BY <1>0, <1>2, RenameAbsent DEF KeepInv, OrderInv
  <2>4. ASSUME Clean' PROVE Unbroken'
    <3>1. /\ Unbroken /\ \A k \in Names : k > conf.backups => Ids(k) = {}
          /\ conf.backups > 1 => Ids(1) = {}
      BY <1>0, <1>1, <2>4 DEF KeepInv, EndInv
    <3>2. Ids(1) = {} \/ \A k \in Names : k > 1 => Ids(k) = {}
      <4>1. conf.backups > 1 \/ conf.backups = 1
        BY <1>0, <1>2
      <4> QED
        BY <3>1, <4>1
    <3> QED
      BY <1>0, <1>2, <2>1, <3>1, <3>2, RenameUnbroken DEF KeepInv
  <2>5. ASSUME Clean', NEW k \in Names, k > conf.backups PROVE Ids(k)' = {}
    <3>1. k \in Names \ {0, 1}
      BY <1>0, <1>2, <2>5 DEF Names
    <3> QED
      BY <1>0, <1>1, <2>2, <2>5, <3>1 DEF KeepInv, EndInv
  <2>6. EndInv'
    BY <1>0, <2>4, <2>5 DEF EndInv
  <2>7. NewestInv'
    BY <1>0, <1>1, <2>2 DEF KeepInv, NewestInv
  <2> QED
    BY <2>3, <2>6, <2>7
<1>3. CASE disk' = [disk EXCEPT ![0] = None] /\ conf.backups = 0
  <2>1. Chunks(0)' = <<>> /\ \A k \in Names \ {0} : Chunks(k)' = Chunks(k)
    BY <1>0, <1>3 DEF Chunks, None, KeepInv, OrderInv, Typed
  <2>2. Ids(0)' = {} /\ \A k \in Names \ {0} : Ids(k)' = Ids(k)
    BY <2>1 DEF Ids
  <2>3. Absent'
    BY <1>3, <2>1 DEF Absent, KeepInv, OrderInv, Typed
  <2>4. ASSUME Clean', NEW k \in Names PROVE Ids(k)' = {}
    <3>1. CASE k = 0
      BY <2>2, <3>1
    <3>2. CASE k # 0
      <4>1. k > conf.backups
        BY <1>0, <1>3, <3>2 DEF Names
      <4> QED
        BY <1>1, <2>2, <2>4, <3>2, <4>1 DEF KeepInv, EndInv
    <3> QED
      BY <3>1, <3>2
  <2>5. Clean' => Unbroken'
    BY <2>4 DEF Unbroken, Retained
  <2>6. EndInv'
    BY <1>0, <2>4, <2>5 DEF EndInv
  <2>7. NewestInv'
    BY <1>0, <1>3 DEF NewestInv
  <2> QED
    BY <2>3, <2>6, <2>7
<1>4. CASE UNCHANGED disk /\ Suffers("fault")
  <2>1. ~Clean'
    BY <1>4, MishapRecorded DEF Clean, KeepInv, OrderInv, Mishap
  <2>2. Absent'
    BY <1>4, SameIds DEF KeepInv, OrderInv
  <2> QED
    BY <2>1, <2>2 DEF EndInv, NewestInv
<1> QED
  BY <1>2, <1>3, <1>4, MoveTyped DEF KeepInv

LEMMA ReopenKeeps ==
  ASSUME KeepInv, Reopen PROVE Absent' /\ EndInv' /\ NewestInv'
<1>1. (\A i \in Names : Ids(i)' = Ids(i)) /\ Absent'
  BY SameIds DEF Reopen, OpenFile, KeepInv, OrderInv
<1>2. (Clean' => Clean) /\ (~Suffered("death")' => ~Suffered("death"))
  BY NextClean DEF KeepInv, Next
<1>3. ASSUME Clean' PROVE wpc' = "append"
  BY <1>3, MishapRecorded DEF Reopen, Clean, KeepInv, OrderInv, Mishap
<1>4. ASSUME Clean' PROVE Unbroken'
  BY <1>1, <1>2, <1>4, SameUnbroken DEF Reopen, KeepInv, EndInv
<1>5. EndInv'
  BY <1>1, <1>2, <1>3, <1>4 DEF Reopen, KeepInv, EndInv
<1>6. NewestInv'
  <2>1. 0 \in Names /\ conf.backups \in 0..MaxBackups /\ MaxBackups \in Nat
    BY Backups DEF KeepInv, OrderInv, Names
  <2>2. conf.backups > 0 => 1 \in Names
    BY <2>1 DEF Names
  <2> QED
    BY <1>1, <1>2, <1>3, <2>1, <2>2 DEF Reopen, KeepInv, NewestInv
<1> QED
  BY <1>1, <1>5, <1>6

LEMMA PutKeeps ==
  ASSUME KeepInv, Put PROVE Absent' /\ EndInv' /\ NewestInv'
<1>0. /\ wpc = "append" /\ len \in Nat \ {0} /\ 0 \in Names
      /\ conf.backups \in 0..MaxBackups /\ writes \in Nat
  <2>1. wpc = "append"
    BY DEF Put
  <2>2. len \in Sizes
    BY <2>1 DEF KeepInv, OrderInv, Typed
  <2> QED
    BY <2>1, <2>2, Backups, RotatingWriterAssumption
    DEF KeepInv, OrderInv, Typed, Names
<1>1. (Clean' => Clean) /\ (~Suffered("death")' => ~Suffered("death"))
  BY NextClean DEF KeepInv, Next
<1>2. PICK n \in 0..len : Puts(n) /\ ((n = len /\ wpc' = "idle") \/ Suffers("fault"))
  BY <1>0 DEF Put
<1>3. Absent'
  <2>1. CASE n = 0
    BY <1>2, <2>1 DEF Puts, Absent, Chunks, KeepInv
  <2>2. CASE n # 0
    <3>1. disk'[0].exists /\ \A i \in Names \ {0} : disk'[i] = disk[i]
      BY <1>0, <1>2, <2>2 DEF Puts, File, KeepInv, OrderInv, Typed
    <3> QED
      BY <3>1 DEF Absent, Chunks, KeepInv
  <2> QED
    BY <2>1, <2>2
<1>4. ASSUME Clean' PROVE n # 0 /\ wpc' = "idle"
  BY <1>0, <1>2, <1>4, MishapRecorded
  DEF Clean, KeepInv, OrderInv, Mishap
<1>5. ASSUME Clean'
      PROVE  /\ Ids(0)' = Ids(0) \cup {writes + 1} /\ writes' = writes + 1
             /\ \A i \in Names \ {0} : Ids(i)' = Ids(i)
  BY <1>0, <1>2, <1>4, <1>5, PutsIds, PutsLast DEF KeepInv
<1>6. ASSUME Clean' PROVE Unbroken'
  <2>1. Retained' = Retained \cup {writes + 1}
    BY <1>0, <1>5, <1>6 DEF Retained
  <2>2. Unbroken
    BY <1>1, <1>6 DEF KeepInv, EndInv
  <2>3. SUFFICES ASSUME NEW m \in Retained', NEW k \in m..(writes + 1)
                 PROVE  k \in Retained'
    BY <1>5, <1>6 DEF Unbroken
  <2>4. m \in Nat /\ k \in Int /\ m <= k /\ k <= writes + 1
    BY <1>0, <2>1 DEF Retained, KeepInv, OrderInv, Numbered
  <2>5. CASE k = writes + 1
    BY <2>1, <2>5
  <2>6. CASE k # writes + 1
    <3>1. k \in m..writes /\ m \in Retained
      BY <1>0, <2>1, <2>4, <2>6
    <3> QED
      BY <2>1, <2>2, <3>1 DEF Unbroken
  <2> QED
    BY <2>5, <2>6
<1>7. EndInv'
  <2>1. ASSUME Clean', NEW k \in Names, k > conf.backups PROVE Ids(k)' = {}
    <3>1. k # 0
      BY <1>0, <2>1
    <3> QED
      BY <1>1, <1>5, <2>1, <3>1 DEF KeepInv, EndInv
  <2> QED
    BY <1>4, <1>6, <2>1 DEF EndInv, Put
<1>8. NewestInv'
  BY <1>4, <1>5 DEF NewestInv
<1> QED
  BY <1>3, <1>7, <1>8

LEMMA EndKeeps ==
  ASSUME KeepInv, Close \/ Dies PROVE Absent' /\ EndInv' /\ NewestInv'
<1>1. (\A i \in Names : Ids(i)' = Ids(i)) /\ Absent'
  BY SameIds DEF Close, Dies, KeepInv, OrderInv
<1>2. (Clean' => Clean) /\ (~Suffered("death")' => ~Suffered("death"))
  BY NextClean DEF KeepInv, Next
<1>3. UNCHANGED <<conf, writes>> /\ wpc' = "none" /\ 0 \in Names
  BY RotatingWriterAssumption DEF Close, Dies, Names
<1>4. ASSUME Clean' PROVE Unbroken'
  BY <1>1, <1>2, <1>3, <1>4, SameUnbroken DEF KeepInv, EndInv
<1>5. EndInv'
  BY <1>1, <1>2, <1>3, <1>4 DEF KeepInv, EndInv
<1>6. ASSUME Clean', ~Suffered("death")' PROVE wpc = "idle" \/ wpc = "failed"
  BY <1>6, MishapRecorded DEF Close, Dies, KeepInv, OrderInv, Mishap
<1>7. NewestInv'
  BY <1>1, <1>2, <1>3, <1>6 DEF KeepInv, NewestInv
<1> QED
  BY <1>1, <1>5, <1>7

LEMMA NextKeep == KeepInv /\ [Next]_vars => KeepInv'
<1> SUFFICES ASSUME KeepInv, [Next]_vars PROVE KeepInv'
  OBVIOUS
<1>1. OrderInv'
  BY NextOrder DEF KeepInv
<1>2. Absent' /\ EndInv' /\ NewestInv'
  <2>1. CASE UNCHANGED vars
    <3>1. UNCHANGED <<disk, conf, wpc, next, writes, mishaps>>
      BY <2>1 DEF vars
    <3>2. Absent'
      BY <3>1 DEF KeepInv, Absent, Chunks
    <3>3. EndInv'
      <4>1. /\ \A k : Ids(k)' = Ids(k)
            /\ Ids(next + 1)' = Ids(next + 1)
        BY <3>1 DEF Ids, Chunks
      <4>2. Clean' = Clean
        BY <3>1 DEF Clean, Suffered
      <4>3. Unbroken => Unbroken'
        BY <3>1, <4>1, SameUnbroken
      <4> QED
        BY <3>1, <4>1, <4>2, <4>3 DEF KeepInv, EndInv
    <3>4. NewestInv'
      BY <3>1 DEF KeepInv, NewestInv, Clean, Suffered, Ids, Chunks
    <3> QED
      BY <3>2, <3>3, <3>4
  <2>2. ASSUME NEW n \in Sizes, Write(n) PROVE Absent' /\ EndInv' /\ NewestInv'
    BY <2>2, WriteKeeps
  <2>3. CASE New
    BY <2>3, NewKeeps
  <2>4. CASE Shift
    BY <2>4, ShiftKeeps
  <2>5. CASE Move
    BY <2>5, MoveKeeps
  <2>6. CASE Reopen
    BY <2>6, ReopenKeeps
  <2>7. CASE Put
    BY <2>7, PutKeeps
  <2>8. CASE Close \/ Dies
    BY <2>8, EndKeeps
  <2> QED
    BY <2>1, <2>2, <2>3, <2>4, <2>5, <2>6, <2>7, <2>8 DEF Next
<1> QED
  BY <1>1, <1>2 DEF KeepInv

(* While calls succeed, only the oldest output is ever dropped, also when  *)
(* the daemon dies in the middle of a rotation; while it does not die, the *)
(* last Write is on disk at every step of every rotation.                  *)
THEOREM OnlyOldestDropped == Spec => []KeepsNewest
<1>1. KeepInv => KeepsNewest
  <2> SUFFICES ASSUME KeepInv, Clean PROVE KeepsNewest
    BY DEF KeepsNewest, Clean
  <2>1. Unbroken
    BY DEF KeepInv, EndInv
  <2>2. ~Suffered("death") /\ writes > 0 /\ conf.backups > 0
          => writes \in Retained
    <3>1. 0 \in Names /\ (conf.backups > 0 => 1 \in Names)
      BY Backups DEF KeepInv, OrderInv, Names
    <3> QED
      BY <3>1 DEF KeepInv, OrderInv, Typed, WriterPcs, NewestInv, Retained
  <2> QED
    BY <2>1, <2>2 DEF KeepsNewest, Unbroken
<1> QED
  BY <1>1, InitKeep, NextKeep, PTL DEF Spec

-----------------------------------------------------------------------------
(* Lengths of files.  f[i] is the length of the first i chunks of s.       *)
Totals(s, n, f) == f = [i \in 0..n |-> IF i = 0 THEN 0 ELSE f[i - 1] + s[i].bytes]

(* The recursive function that Bytes defines exists.                       *)
LEMMA TotalsExist ==
  ASSUME NEW s, NEW n \in Nat
  PROVE  \E f : Totals(s, n, f)
<1> DEFINE T == {k \in Nat : ~ \E f : Totals(s, k, f)}
<1>1. SUFFICES ASSUME T # {} PROVE FALSE
  OBVIOUS
<1>2. PICK m \in T : \A k \in T : m <= k
  BY <1>1, Least
<1>3. m # 0
  <2>1. Totals(s, 0, [i \in 0..0 |-> 0])
    BY DEF Totals
  <2> QED
    BY <2>1, <1>2
<1>4. PICK f : Totals(s, m - 1, f)
  <2>1. m - 1 \in Nat /\ ~(m <= m - 1)
    BY <1>2, <1>3
  <2> QED
    BY <1>2, <2>1
<1> DEFINE g == [i \in 0..m |-> IF i = m THEN f[m - 1] + s[m].bytes ELSE f[i]]
<1>5. Totals(s, m, g)
  <2>1. ASSUME NEW i \in 0..m
        PROVE  g[i] = IF i = 0 THEN 0 ELSE g[i - 1] + s[i].bytes
    <3>1. CASE i = m
      BY <1>3, <3>1
    <3>2. CASE i # m
      <4>1. i \in 0..(m - 1) /\ (i # 0 => i - 1 \in 0..m /\ i - 1 # m)
        BY <3>2
      <4>2. f[i] = IF i = 0 THEN 0 ELSE f[i - 1] + s[i].bytes
        BY <1>4, <4>1 DEF Totals
      <4> QED
        BY <3>2, <4>1, <4>2
    <3> QED
      BY <3>1, <3>2
  <2> QED
    BY <2>1 DEF Totals
<1> QED
  BY <1>2, <1>5

(* Sequences that agree so far have the same totals so far.                *)
LEMMA TotalsAgree ==
  ASSUME NEW s, NEW t, NEW n \in Nat, NEW m \in Nat, n <= m,
         NEW f, NEW g, Totals(s, n, f), Totals(t, m, g),
         \A i \in 1..n : s[i] = t[i]
  PROVE  \A i \in 0..n : f[i] = g[i]
<1> DEFINE T == {i \in 0..n : f[i] # g[i]}
<1>1. SUFFICES ASSUME T # {} PROVE FALSE
  OBVIOUS
<1>2. PICK k \in T : \A i \in T : k <= i
  <2>1. T \subseteq Nat
    OBVIOUS
  <2> HIDE DEF T
  <2> QED
    BY <1>1, <2>1, Least
<1>3. k \in 0..n /\ k \in 0..m
  BY <1>2
<1>4. /\ f[k] = IF k = 0 THEN 0 ELSE f[k - 1] + s[k].bytes
      /\ g[k] = IF k = 0 THEN 0 ELSE g[k - 1] + t[k].bytes
  BY <1>3 DEF Totals
<1>5. k # 0 => f[k - 1] = g[k - 1] /\ s[k] = t[k]
  BY <1>2, <1>3
<1> QED
  BY <1>2, <1>4, <1>5

LEMMA BytesAre ==
  ASSUME NEW s, Len(s) \in Nat
  PROVE  \E f : Totals(s, Len(s), f) /\ Bytes(s) = f[Len(s)]
<1> DEFINE F == CHOOSE f : Totals(s, Len(s), f)
<1>1. Totals(s, Len(s), F)
  BY TotalsExist
<1>2. Bytes(s) = F[Len(s)]
  BY DEF Bytes, Totals
<1> QED
  BY <1>1, <1>2

(* What an empty file, and one more chunk, comes to.                       *)
LEMMA BytesOfNothing == Bytes(<<>>) = 0
<1>1. Len(<<>>) = 0
  OBVIOUS
<1>2. PICK f : Totals(<<>>, 0, f) /\ Bytes(<<>>) = f[0]
  BY <1>1, BytesAre
<1> QED
  BY <1>2 DEF Totals

LEMMA BytesOfAppend ==
  ASSUME NEW C, NEW s \in Seq(C), NEW c \in C
  PROVE  Bytes(Append(s, c)) = Bytes(s) + c.bytes
<1> DEFINE n == Len(s)
           t == Append(s, c)
<1>1. /\ n \in Nat /\ Len(t) = n + 1 /\ t[n + 1] = c
      /\ \A i \in 1..n : s[i] = t[i]
  BY AppendProperties
<1>2. PICK f : Totals(s, n, f) /\ Bytes(s) = f[n]
  BY <1>1, BytesAre
<1>3. PICK g : Totals(t, n + 1, g) /\ Bytes(t) = g[n + 1]
  <2>1. n + 1 \in Nat /\ Len(t) = n + 1
    BY <1>1
  <2> HIDE DEF n, t
  <2> QED
    BY <2>1, BytesAre
<1>4. f[n] = g[n]
  <2>1. \A i \in 0..n : f[i] = g[i]
    <3> HIDE DEF n, t
    <3> QED
      BY <1>1, <1>2, <1>3, TotalsAgree
  <2> QED
    BY <1>1, <2>1
<1>5. g[n + 1] = g[n] + c.bytes
  <2>1. n + 1 \in 0..(n + 1) /\ n + 1 # 0 /\ (n + 1) - 1 = n
    BY <1>1
  <2>2. g[n + 1] = g[n] + t[n + 1].bytes
    <3> HIDE DEF n, t
    <3> QED
      BY <1>3, <2>1 DEF Totals
  <2> QED
    BY <1>1, <2>2
<1> QED
  BY <1>2, <1>3, <1>4, <1>5

LEMMA BytesNatural ==
  ASSUME NEW s, Len(s) \in Nat, \A i \in 1..Len(s) : s[i].bytes \in Nat
  PROVE  Bytes(s) \in Nat
<1>1. PICK f : Totals(s, Len(s), f) /\ Bytes(s) = f[Len(s)]
  BY BytesAre
<1> DEFINE T == {i \in 0..Len(s) : f[i] \notin Nat}
<1>2. SUFFICES ASSUME T # {} PROVE FALSE
  BY <1>1
<1>3. PICK k \in T : \A i \in T : k <= i
  <2>1. T \subseteq Nat
    OBVIOUS
  <2> HIDE DEF T
  <2> QED
    BY <1>2, <2>1, Least
<1>4. k \in 0..Len(s) /\ f[k] = IF k = 0 THEN 0 ELSE f[k - 1] + s[k].bytes
  BY <1>1, <1>3 DEF Totals
<1>5. k # 0 => f[k - 1] \in Nat /\ s[k].bytes \in Nat
  BY <1>3, <1>4
<1> QED
  BY <1>3, <1>4, <1>5
-----------------------------------------------------------------------------
(* currentSize, and the limit it keeps.                                    *)

(* It is the length of the live file except while a rotation is under way  *)
(* or after an error.                                                      *)
SizeInv == OrderInv /\ SizeIsTrue

LEMMA BytesOfFile ==
  ASSUME Typed, NEW i \in Names
  PROVE  Chunks(i) \in Seq(Chunk) /\ Bytes(Chunks(i)) \in Nat
<1>1. Chunks(i) \in Seq(Chunk)
  BY DEF Typed, Chunks
<1>2. Len(Chunks(i)) \in Nat
  BY <1>1, LenProperties
<1>3. ASSUME NEW k \in 1..Len(Chunks(i)) PROVE Chunks(i)[k].bytes \in Nat
  <2>1. Chunks(i)[k] \in Chunk
    BY <1>1, ElementOfSeq
  <2> QED
    BY <2>1 DEF Chunk
<1> QED
  BY <1>1, <1>2, <1>3, BytesNatural

(* openFile() seeds it.                                                    *)
LEMMA OpenFileSeeds ==
  ASSUME Typed, OpenFile
  PROVE  size' = Bytes(Chunks(0))' /\ size' \in Nat
<1>1. 0 \in Names
  BY RotatingWriterAssumption DEF Names
<1>2. Chunks(0)' = Chunks(0)
  BY <1>1, OpenKeepsChunks DEF OpenFile
<1> QED
  BY <1>1, <1>2, BytesOfFile DEF OpenFile

(* A Write that reaches the disk adds as much to it as to the file.        *)
LEMMA PutsCounts ==
  ASSUME OrderInv, wpc = "append", size = Bytes(Chunks(0)),
         NEW n \in 0..len, Puts(n)
  PROVE  size' = Bytes(Chunks(0))'
<1>1. 0 \in Names /\ writes \in Nat
  BY RotatingWriterAssumption DEF Names, OrderInv, Typed
<1>2. len \in Nat \ {0} /\ Chunks(0) \in Seq(Chunk) /\ Bytes(Chunks(0)) \in Nat
  <2>1. len \in Sizes
    BY DEF OrderInv, Typed
  <2> QED
    BY <1>1, <2>1, BytesOfFile, RotatingWriterAssumption DEF OrderInv
<1>3. CASE n = 0
  BY <1>2, <1>3 DEF Puts, Chunks
<1>4. CASE n # 0
  <2> DEFINE c == [id |-> writes + 1, bytes |-> n]
  <2>1. c \in Chunk
    <3>1. writes < MaxWrites
      BY DEF OrderInv, Typed
    <3> QED
      BY <1>1, <1>2, <1>4, <3>1, RotatingWriterAssumption DEF Chunk
  <2>2. Chunks(0)' = Append(Chunks(0), c)
    BY <1>1, <1>4 DEF Puts, Chunks, File, OrderInv, Typed
  <2>3. Bytes(Chunks(0))' = Bytes(Chunks(0)) + c.bytes
    <3> HIDE DEF c
    <3> QED
      BY <1>2, <2>1, <2>2, BytesOfAppend
  <2> QED
    BY <2>3 DEF Puts
<1> QED
  BY <1>3, <1>4

LEMMA NextSize == SizeInv /\ [Next]_vars => SizeInv'
<1> SUFFICES ASSUME SizeInv, [Next]_vars PROVE SizeIsTrue'
  BY NextOrder DEF SizeInv
<1>0. Typed
  BY DEF SizeInv, OrderInv
<1>1. CASE UNCHANGED vars
  BY <1>1 DEF vars, SizeInv, SizeIsTrue, Chunks
<1>2. CASE New
  BY <1>0, <1>2, OpenFileSeeds DEF New, SizeIsTrue
<1>3. ASSUME NEW n \in Sizes, Write(n) PROVE SizeIsTrue'
  BY <1>3 DEF Write, SizeInv, SizeIsTrue, Chunks
<1>4. CASE Shift \/ Move \/ Close \/ Dies
  BY <1>4 DEF Shift, Move, Close, Dies, SizeIsTrue
<1>5. CASE Reopen
  BY <1>0, <1>5, OpenFileSeeds DEF Reopen, SizeIsTrue
<1>6. CASE Put
  <2>1. CASE Puts(len)
    <3>1. wpc = "append"
      BY <1>6 DEF Put
    <3>2. len \in 0..len
      <4>1. len \in Sizes
        BY <1>0, <3>1 DEF Typed
      <4> QED
        BY <4>1, RotatingWriterAssumption
    <3> QED
      BY <2>1, <3>1, <3>2, PutsCounts DEF SizeInv, SizeIsTrue
  <2>2. CASE wpc' = "failed"
    BY <2>2 DEF SizeIsTrue
  <2> QED
    BY <1>6, <2>1, <2>2 DEF Put
<1> QED
  BY <1>1, <1>2, <1>3, <1>4, <1>5, <1>6 DEF Next

LEMMA SizeInvariant == Spec => []SizeInv
<1>1. Init => SizeInv
  BY InitOrder DEF Init, SizeInv, SizeIsTrue
<1> QED
  BY <1>1, NextSize, PTL DEF Spec

(* Whenever Write relies on currentSize it is the length of the live file, *)
(* whatever failed before and whoever wrote the file (logging.go:90-91).   *)
THEOREM SizeAlwaysTrue == Spec => []SizeIsTrue
<1>1. SizeInv => SizeIsTrue
  BY DEF SizeInv
<1> QED
  BY <1>1, SizeInvariant, PTL

(* While nothing goes wrong: every file keeps to the limit, a rotation     *)
(* leaves an empty live file, and what is about to be written fits.        *)
Fits(s) == Bytes(s) <= conf.maxBytes \/ Len(s) = 1

BoundInv == mishaps = <<>> =>
  /\ conf.maxBytes > 0 => \A i \in Names : Fits(Chunks(i))
  /\ wpc = "reopen" => Chunks(0) = <<>>
  /\ wpc = "append" /\ conf.maxBytes > 0
       => Chunks(0) = <<>> \/ size + len <= conf.maxBytes

FullInv == KeepInv /\ SizeInv /\ BoundInv

LEMMA MaxBytesTyped == ASSUME Typed PROVE conf.maxBytes \in Nat
  BY RotatingWriterAssumption DEF Typed

LEMMA NothingFits == ASSUME Typed, conf.maxBytes > 0 PROVE Fits(<<>>)
  BY BytesOfNothing, MaxBytesTyped DEF Fits

(* A mishap, once it happens, is no longer nothing.                        *)
LEMMA NoneSuffered ==
  ASSUME Typed, NEW m \in Mishap, Suffers(m) PROVE mishaps' # <<>>
  BY MishapRecorded DEF Suffered

LEMMA SameBound ==
  ASSUME mishaps' = mishaps, conf' = conf, BoundInv,
         \A i \in Names : Chunks(i)' = Chunks(i),
         wpc' \notin {"reopen", "append"}
  PROVE  BoundInv'
  BY DEF BoundInv, Fits

LEMMA RenameBound ==
  ASSUME Typed, BoundInv, NEW i \in Names, i + 1 \in Names, Rename(i, i + 1),
         UNCHANGED <<conf, mishaps>>
  PROVE  mishaps' = <<>> /\ conf'.maxBytes > 0
           => \A k \in Names : Fits(Chunks(k))'
<1> SUFFICES ASSUME mishaps = <<>>, conf.maxBytes > 0, NEW k \in Names
             PROVE  Fits(Chunks(k))'
  OBVIOUS
<1>1. \A j \in Names : Fits(Chunks(j))
  BY DEF BoundInv
<1>2. Chunks(k)' = <<>> \/ \E j \in Names : Chunks(k)' = Chunks(j)
  BY RenameFiles
<1>3. CASE Chunks(k)' = <<>>
  BY <1>3, NothingFits DEF Fits
<1>4. ASSUME NEW j \in Names, Chunks(k)' = Chunks(j) PROVE Fits(Chunks(k))'
  BY <1>1, <1>4 DEF Fits
<1> QED
  BY <1>2, <1>3, <1>4

LEMMA NewBound == ASSUME FullInv, New PROVE BoundInv'
<1>0. Typed /\ Typed' /\ Numbered
  BY NextOrder DEF FullInv, KeepInv, OrderInv, Next
<1>1. \A i \in Names : Chunks(i)' = Chunks(i)
  BY <1>0, OpenKeepsChunks DEF New, OpenFile
<1>2. CASE conf' = conf /\ UNCHANGED mishaps
  BY <1>1, <1>2, SameBound DEF New, FullInv
<1>3. CASE writes = 0
  <2>1. ASSUME NEW i \in Names PROVE Chunks(i) = <<>>
    <3>1. Ids(i) = {} /\ Chunks(i) \in Seq(Chunk)
      BY <1>0, <1>3 DEF Numbered, Typed, Chunks
    <3>2. DOMAIN Chunks(i) = {}
      BY <3>1 DEF Ids
    <3> QED
      BY <3>1, <3>2, EmptySeq
  <2>2. conf'.maxBytes > 0 => Bytes(<<>>) <= conf'.maxBytes
    BY <1>0, BytesOfNothing, MaxBytesTyped, RotatingWriterAssumption DEF New
  <2> QED
    BY <1>1, <2>1, <2>2 DEF New, BoundInv, Fits
<1>4. CASE Suffers("reconf")
  BY <1>0, <1>4, NoneSuffered DEF BoundInv, Mishap
<1> QED
  BY <1>2, <1>3, <1>4 DEF New

LEMMA WriteBound ==
  ASSUME FullInv, NEW n \in Sizes, Write(n) PROVE BoundInv'
<1>0. wpc = "idle" /\ UNCHANGED <<disk, conf, size, mishaps>> /\ len' = n
  BY DEF Write
<1>1. \A i \in Names : Chunks(i)' = Chunks(i)
  BY <1>0 DEF Chunks
<1>2. CASE wpc' \in {"shift", "move"}
  BY <1>0, <1>1, <1>2, SameBound DEF FullInv
<1>3. CASE ~MustRotate(n) /\ wpc' = "append"
  <2>1. size \in Nat /\ conf.maxBytes \in Nat /\ n \in Nat
    <3>1. 0 \in Names
      BY RotatingWriterAssumption DEF Names
    <3> QED
      BY <1>0, <3>1, BytesOfFile, MaxBytesTyped, RotatingWriterAssumption
      DEF FullInv, SizeInv, SizeIsTrue, OrderInv
  <2>2. conf.maxBytes > 0 => size + n <= conf.maxBytes
    BY <1>3, <2>1 DEF MustRotate
  <2> QED
    BY <1>0, <1>1, <1>3, <2>2 DEF FullInv, BoundInv, Fits
<1> QED
  BY <1>2, <1>3 DEF Write

LEMMA ShiftBound == ASSUME FullInv, Shift PROVE BoundInv'
<1>0. Typed /\ next \in Names /\ next + 1 \in Names /\ conf' = conf
      /\ wpc' \in {"shift", "move"}
  BY ShiftTyped DEF FullInv, KeepInv, OrderInv, Shift
<1>1. CASE Rename(next, next + 1) /\ UNCHANGED mishaps
  BY <1>0, <1>1, RenameBound DEF FullInv, BoundInv
<1>2. CASE Suffers("fault")
  BY <1>0, <1>2, NoneSuffered DEF BoundInv, Mishap
<1> QED
  BY <1>1, <1>2 DEF Shift

LEMMA MoveBound == ASSUME FullInv, Move PROVE BoundInv'
<1>0. Typed /\ 0 \in Names /\ conf' = conf /\ wpc' = "reopen"
  BY MoveTyped DEF FullInv, KeepInv, OrderInv, Move
<1>1. CASE UNCHANGED mishaps /\ 0 + 1 \in Names /\ Rename(0, 0 + 1)
  <2>1. Chunks(0)' = <<>>
    <3>1. disk[0].exists \/ Chunks(0) = <<>>
      BY <1>0 DEF FullInv, KeepInv, Absent
    <3>2. CASE disk[0].exists
      BY <1>0, <1>1, <3>2 DEF Rename, Chunks, None, Typed
    <3>3. CASE ~disk[0].exists
      BY <3>1, <3>3, <1>1 DEF Rename, Chunks
    <3> QED
      BY <3>2, <3>3
  <2> QED
    BY <1>0, <1>1, <2>1, RenameBound DEF FullInv, BoundInv
<1>2. CASE UNCHANGED mishaps /\ disk' = [disk EXCEPT ![0] = None]
  <2>1. Chunks(0)' = <<>> /\ \A k \in Names \ {0} : Chunks(k)' = Chunks(k)
    BY <1>0, <1>2 DEF Chunks, None, Typed
  <2>2. conf.maxBytes > 0 => Fits(<<>>)
    BY <1>0, NothingFits
  <2> QED
    BY <1>0, <1>2, <2>1, <2>2 DEF FullInv, BoundInv, Fits
<1>3. CASE Suffers("fault")
  BY <1>0, <1>3, NoneSuffered DEF BoundInv, Mishap
<1>4. UNCHANGED mishaps \/ Suffers("fault")
  BY DEF Move
<1> QED
  BY <1>1, <1>2, <1>3, <1>4, MoveTyped DEF FullInv, KeepInv

LEMMA ReopenBound == ASSUME FullInv, Reopen PROVE BoundInv'
<1>0. Typed /\ wpc = "reopen" /\ conf' = conf
  BY DEF FullInv, KeepInv, OrderInv, Reopen
<1>1. CASE OpenFile /\ wpc' = "append" /\ UNCHANGED mishaps
  <2>1. 0 \in Names /\ \A i \in Names : Chunks(i)' = Chunks(i)
    BY <1>0, <1>1, OpenKeepsChunks, RotatingWriterAssumption DEF OpenFile, Names
  <2> QED
    BY <1>0, <1>1, <2>1 DEF FullInv, BoundInv, Fits
<1>2. CASE Suffers("fault")
  BY <1>0, <1>2, NoneSuffered DEF BoundInv, Mishap
<1> QED
  BY <1>1, <1>2 DEF Reopen

LEMMA PutBound == ASSUME FullInv, Put PROVE BoundInv'
<1>0. OrderInv /\ Typed /\ wpc = "append" /\ conf' = conf /\ 0 \in Names
      /\ size = Bytes(Chunks(0))
  BY RotatingWriterAssumption
  DEF FullInv, KeepInv, SizeInv, SizeIsTrue, OrderInv, Put, Names
<1>1. CASE Puts(len) /\ wpc' = "idle" /\ UNCHANGED mishaps
  <2>0. len \in Nat \ {0} /\ len \in 0..len
    <3>1. len \in Sizes
      BY <1>0 DEF Typed
    <3> QED
      BY <3>1, RotatingWriterAssumption
  <2>1. size' = Bytes(Chunks(0))' /\ size' = size + len
    BY <1>0, <1>1, <2>0, PutsCounts DEF Puts
  <2>2. \A k \in Names \ {0} : Chunks(k)' = Chunks(k)
    BY <1>0, <1>1, <2>0, PutsLast
  <2>3. ASSUME Chunks(0) = <<>> PROVE Len(Chunks(0)') = 1
    <3>1. Chunks(0)' = Append(<<>>, [id |-> writes + 1, bytes |-> len])
      BY <1>0, <1>1, <2>0, <2>3 DEF Puts, Chunks, File, Typed
    <3> QED
      BY <3>1
  <2>4. mishaps = <<>> /\ conf.maxBytes > 0 => Fits(Chunks(0))'
    BY <1>0, <2>1, <2>3 DEF FullInv, BoundInv, Fits
  <2> QED
    BY <1>0, <1>1, <2>2, <2>4 DEF FullInv, BoundInv, Fits
<1>2. CASE Suffers("fault")
  BY <1>0, <1>2, NoneSuffered DEF BoundInv, Mishap
<1> QED
  BY <1>1, <1>2 DEF Put

LEMMA NextFull == FullInv /\ [Next]_vars => FullInv'
<1> SUFFICES ASSUME FullInv, [Next]_vars PROVE BoundInv'
  BY NextKeep, NextSize DEF FullInv
<1>1. CASE UNCHANGED vars
  <2>1. wpc' = wpc /\ UNCHANGED <<disk, conf, mishaps, size, len>>
    BY <1>1 DEF vars
  <2> QED
    BY <2>1 DEF FullInv, BoundInv, Fits, Chunks
<1>2. CASE New
  BY <1>2, NewBound
<1>3. ASSUME NEW n \in Sizes, Write(n) PROVE BoundInv'
  BY <1>3, WriteBound
<1>4. CASE Shift
  BY <1>4, ShiftBound
<1>5. CASE Move
  BY <1>5, MoveBound
<1>6. CASE Reopen
  BY <1>6, ReopenBound
<1>7. CASE Put
  BY <1>7, PutBound
<1>8. CASE Close
  BY <1>8, SameBound DEF Close, FullInv, Chunks
<1>9. CASE Dies
  BY <1>9, NoneSuffered DEF Dies, BoundInv, FullInv, KeepInv, OrderInv, Mishap
<1> QED
  BY <1>1, <1>2, <1>3, <1>4, <1>5, <1>6, <1>7, <1>8, <1>9 DEF Next

(* For any limits, sizes and numbers of backups: a file is larger than     *)
(* maxBytes only when it is one single Write (logging.go:110).             *)
THEOREM FilesAlwaysBounded == Spec => []FilesBounded
<1>1. Init => FullInv
  <2> SUFFICES ASSUME Init PROVE FullInv
    OBVIOUS
  <2>1. KeepInv /\ SizeInv
    BY InitKeep, InitOrder DEF Init, SizeInv, SizeIsTrue
  <2>2. \A i \in Names : Chunks(i) = <<>>
    BY DEF Init, Chunks, None
  <2>3. conf.maxBytes > 0 => Fits(<<>>)
    BY <2>1, NothingFits DEF KeepInv, OrderInv
  <2> QED
    BY <2>1, <2>2, <2>3 DEF FullInv, BoundInv, Init
<1>2. FullInv => FilesBounded
  BY DEF FullInv, BoundInv, FilesBounded, Fits
<1> QED
  BY <1>1, <1>2, NextFull, PTL DEF Spec
=============================================================================
