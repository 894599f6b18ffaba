----------------------------- MODULE MCNotifier -----------------------------
(* Notifier on a small instance: a crash loop that ends in FATAL.          *)
EXTENDS Notifier

FlapEvents == {"running", "exited", "backoff", "fatal"}
FlapStates == [e \in FlapEvents |->
  CASE e = "running" -> "RUNNING" [] e = "exited" -> "EXITED"
    [] e = "backoff" -> "BACKOFF" [] OTHER -> "FATAL"]

Conf(enabled, on, mailto) == [enabled |-> enabled, on |-> on, mailto |-> mailto]

\* E-mail on with the built-in choice, on for two statuses, nobody to mail
\* to, and off.
SomeConfs == {Conf(TRUE, {}, TRUE), Conf(TRUE, {"BACKOFF", "FATAL"}, TRUE),
              Conf(TRUE, {}, FALSE), Conf(FALSE, {}, TRUE)}
=============================================================================
