-------------------------- MODULE MCRotatingWriter --------------------------
(* RotatingWriter on a small instance.                                     *)
EXTENDS RotatingWriter

\* Three bytes in two backups, four in one, none kept, and no limit.
SomeConfs == {[maxBytes |-> 3, backups |-> 2], [maxBytes |-> 4, backups |-> 1],
              [maxBytes |-> 3, backups |-> 0], [maxBytes |-> 0, backups |-> 2],
              [maxBytes |-> 2, backups |-> 3]}
=============================================================================
