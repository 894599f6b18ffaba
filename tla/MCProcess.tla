----------------------------- MODULE MCProcess -----------------------------
(* Values of the constants of Process for TLC.                             *)
EXTENDS Process, TLC

(* One request boots the program (startAutoStartProcesses); others stop it *)
(* at any moment.                                                          *)
BootScript == [r \in Requests |-> IF r = "boot" THEN {"start"} ELSE {"stop"}]

(* Any request may call anything.                                          *)
FullScript == [r \in Requests |-> Ops]

(* Start it once and leave it alone.                                       *)
StartOnce == [r \in Requests |-> {"start"}]

Conf(policies, secs, budgets) ==
  [policy : policies, startSecs : secs, startRetries : budgets]

EveryConf  == Conf(Policies, {1}, {1}) \cup Conf({"on-failure"}, {1}, {0})
ZeroOrOne  == Conf({"always"}, {1}, {1}) \cup Conf({"never"}, {0, 1}, {0})
NeverConf  == Conf({"never"}, {1}, {0})
AlwaysConf == Conf({"always"}, {1}, {1})
AlwaysOnes == Conf({"always"}, {1}, {0, 1})

(* The requests of FullScript are interchangeable.                         *)
Symmetry == Permutations(Requests)
=============================================================================
