---------------------------- MODULE MCSupervisor ----------------------------
(* Supervisor on small instances.                                          *)
EXTENDS Supervisor

Conf(auto, prio, restarts) ==
  [auto |-> auto, prio |-> prio, restarts |-> restarts]

\* db, not restarted automatically, comes before app.
DbConf(auto) == Conf(auto, 1, FALSE)
AppConf      == Conf(TRUE, 2, TRUE)
SomeConfs    == {DbConf(FALSE), DbConf(TRUE), AppConf}

\* Both programs, which start by themselves, or the first alone, which does not.
TwoOrOne == {[n \in {"db", "app"} |-> IF n = "db" THEN DbConf(TRUE) ELSE AppConf],
             [n \in {"db"} |-> DbConf(FALSE)]}

Command(do, names) == [do |-> do, names |-> names]

\* One client asks for programs, another one looks after the daemon.  A restart
\* of a program that is not up is a start.
TwoRoles == [p \in Operators |-> CASE
  p = "user"  -> {Command("stop", <<"app", "db">>), Command("restart", <<"db">>),
                  Command("add", <<"app">>), Command("remove", <<"app">>)} []
  p = "admin" -> {Command(do, <<>>) : do \in {"reload", "shutdown", "hup", "term"}}]
=============================================================================
