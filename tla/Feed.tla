-------------------------------- MODULE Feed --------------------------------
(***************************************************************************)
(* What the mail queue promises: the events it accepts are handed to the   *)
(* mailer once each, in the order they were accepted, in batches of at     *)
(* most BatchLimit.                                                        *)
(***************************************************************************)
EXTENDS Integers, Sequences

CONSTANTS Events, BatchLimit

VARIABLES
  backlog,   \* accepted, not yet handed over
  tried      \* handed over, oldest first

vars == <<backlog, tried>>

Init == backlog = <<>> /\ tried = <<>>

Accept(e) == backlog' = Append(backlog, e) /\ UNCHANGED tried

HandOver(k) ==
  /\ tried' = tried \o SubSeq(backlog, 1, k)
  /\ backlog' = SubSeq(backlog, k + 1, Len(backlog))

Next ==
  \/ \E e \in Events : Accept(e)
  \/ \E k \in 1..BatchLimit : k <= Len(backlog) /\ HandOver(k)

Spec == Init /\ [][Next]_vars
=============================================================================
