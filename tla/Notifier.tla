------------------------------ MODULE Notifier ------------------------------
(***************************************************************************)
(* E-mail alerts: internal/notify/notify.go.                               *)
(*                                                                         *)
(* Every state change calls Notify on a goroutine of its own, which reads  *)
(* the configuration twice, under two locks, and offers the event to a     *)
(* buffered channel.  One drain goroutine, started only if e-mail was on   *)
(* at construction, takes events off the channel and mails them in         *)
(* batches.  Nothing bounds the time an SMTP exchange takes.               *)
(***************************************************************************)
EXTENDS Integers, Sequences

CONSTANTS
  Events,       \* the state changes, one callback goroutine each
  NewState,     \* the status each of them reports
  Configs,      \* the configurations UpdateConfig may install
  QueueCap,     \* capacity of the channel (100 in the code)
  BatchLimit    \* events that trigger a mail at once (10 in the code)

States == {"STOPPED", "STARTING", "RUNNING", "BACKOFF", "EXITED", "FATAL"}

ASSUME NotifierAssumption ==
  /\ NewState \in [Events -> States]
  /\ Configs \subseteq [enabled : BOOLEAN, on : SUBSET States, mailto : BOOLEAN]
  /\ QueueCap \in Nat \ {0} /\ BatchLimit \in Nat \ {0}

VARIABLES
  config, queue, stopped,   \* the Notifier struct; stopped: stopCh is closed
  batch, dpc,               \* the drain goroutine
  epc,                      \* the callback goroutines
  tried                     \* history: the events handed to sendBatch

drainVars == <<batch, dpc, tried>>
vars == <<config, queue, stopped, batch, dpc, epc, tried>>

DrainPcs  == {"off", "select", "flush", "smtp", "lastflush", "lastsmtp", "over"}
CallerPcs == {"ready", "enabled", "wanted", "gone"}

TypeOK ==
  /\ config \in Configs /\ stopped \in BOOLEAN
  /\ queue \in Seq(Events) /\ Len(queue) <= QueueCap
  /\ batch \in Seq(Events) /\ Len(batch) <= BatchLimit
  /\ dpc \in DrainPcs /\ epc \in [Events -> CallerPcs]
  /\ tried \in Seq(Events)

Init ==
  /\ config \in Configs
  /\ queue = <<>> /\ stopped = FALSE /\ batch = <<>> /\ tried = <<>>
  /\ dpc = IF config.enabled THEN "select" ELSE "off"
  /\ epc = [e \in Events |-> "ready"]

-----------------------------------------------------------------------------
(* Notify(), run by the goroutine of event e.                              *)

(* The first lock: is e-mail on?                                           *)
CheckEnabled(e) ==
  /\ epc[e] = "ready"
  /\ epc' = [epc EXCEPT ![e] = IF config.enabled THEN "enabled" ELSE "gone"]
  /\ UNCHANGED <<config, queue, stopped, drainVars>>

(* An empty NotifyOn means the built-in choice.                            *)
Interesting == {"FATAL", "EXITED", "RUNNING", "STOPPED"}

ShouldNotify(s) == s \in IF config.on = {} THEN Interesting ELSE config.on

(* The second lock: does the configuration, by now, want this status?      *)
CheckWanted(e) ==
  /\ epc[e] = "enabled"
  /\ epc' = [epc EXCEPT ![e] = IF ShouldNotify(NewState[e]) THEN "wanted"
                                                            ELSE "gone"]
  /\ UNCHANGED <<config, queue, stopped, drainVars>>

(* Variant: a plain send, which blocks on a full channel.                  *)
Offer_Blocking(e) ==
  /\ epc[e] = "wanted" /\ Len(queue) < QueueCap
  /\ queue' = Append(queue, e)
  /\ epc' = [epc EXCEPT ![e] = "gone"]
  /\ UNCHANGED <<config, stopped, drainVars>>

(* The select with a default: queue the event, or drop it if full.         *)
Offer(e) ==
  /\ epc[e] = "wanted"
  /\ queue' = IF Len(queue) < QueueCap THEN Append(queue, e) ELSE queue
  /\ epc' = [epc EXCEPT ![e] = "gone"]
  /\ UNCHANGED <<config, stopped, drainVars>>

-----------------------------------------------------------------------------
(* The drain goroutine, processQueue() and sendBatch().                    *)

(* Variant: the batch is sent when it has outgrown the limit.              *)
Receive_Late ==
  /\ dpc = "select" /\ queue # <<>>
  /\ batch' = Append(batch, Head(queue))
  /\ queue' = Tail(queue)
  /\ dpc' = IF Len(batch') > BatchLimit THEN "flush" ELSE "select"
  /\ UNCHANGED <<config, stopped, epc, tried>>

Receive ==
  /\ dpc = "select" /\ queue # <<>>
  /\ batch' = Append(batch, Head(queue))
  /\ queue' = Tail(queue)
  /\ dpc' = IF Len(batch') >= BatchLimit THEN "flush" ELSE "select"
  /\ UNCHANGED <<config, stopped, epc, tried>>

(* Variant: a tick flushes only a batch of more than one event.            *)
Tick_Batches ==
  /\ dpc = "select" /\ Len(batch) > 1
  /\ dpc' = "flush"
  /\ UNCHANGED <<config, queue, stopped, batch, epc, tried>>

(* The five-second tick; with nothing pending it changes nothing.          *)
Tick ==
  /\ dpc = "select" /\ batch # <<>>
  /\ dpc' = "flush"
  /\ UNCHANGED <<config, queue, stopped, batch, epc, tried>>

(* Variant: the loop is left with the batch in hand.                       *)
StopSeen_DropsBatch ==
  /\ dpc = "select" /\ stopped
  /\ dpc' = "over"
  /\ UNCHANGED <<config, queue, stopped, batch, epc, tried>>

(* stopCh is closed: the batch goes out; the channel is not drained.       *)
StopSeen ==
  /\ dpc = "select" /\ stopped
  /\ dpc' = IF batch # <<>> THEN "lastflush" ELSE "over"
  /\ UNCHANGED <<config, queue, stopped, batch, epc, tried>>

(* Back in the loop, or out of it after the batch of a stop.               *)
Sent(last) ==
  /\ batch' = <<>>
  /\ dpc' = IF last THEN "over" ELSE "select"

(* sendBatch(): without recipients it returns at once.                     *)
SendBatch ==
  /\ dpc \in {"flush", "lastflush"}
  /\ tried' = tried \o batch
  /\ IF config.mailto
     THEN /\ dpc' = IF dpc = "flush" THEN "smtp" ELSE "lastsmtp"
          /\ UNCHANGED batch
     ELSE Sent(dpc = "lastflush")
  /\ UNCHANGED <<config, queue, stopped, epc>>

(* Variant: the batch is not reset after a mail.                           *)
SmtpEnds_KeepsBatch ==
  /\ dpc \in {"smtp", "lastsmtp"}
  /\ dpc' = IF dpc = "lastsmtp" THEN "over" ELSE "select"
  /\ UNCHANGED <<config, queue, stopped, batch, epc, tried>>

(* The exchange ends, well or badly: either way it is logged and forgotten.*)
SmtpEnds ==
  /\ dpc \in {"smtp", "lastsmtp"}
  /\ Sent(dpc = "lastsmtp")
  /\ UNCHANGED <<config, queue, stopped, epc, tried>>

-----------------------------------------------------------------------------
(* Stop(): once, as a second close would panic.  The daemon never calls it.*)
Stop ==
  /\ ~stopped /\ stopped' = TRUE
  /\ UNCHANGED <<config, queue, drainVars, epc>>

(* Swaps the configuration, not the goroutine.  Not called either, so far. *)
UpdateConfig(c) ==
  /\ config # c /\ config' = c
  /\ UNCHANGED <<queue, stopped, drainVars, epc>>

Caller(e) == CheckEnabled(e) \/ CheckWanted(e) \/ Offer(e)
Drain     == Receive \/ Tick \/ StopSeen \/ SendBatch

Next ==
  \/ \E e \in Events : CheckEnabled(e) \/ CheckWanted(e) \/ Offer(e)
  \/ Receive \/ Tick \/ StopSeen \/ SendBatch \/ SmtpEnds
  \/ Stop
  \/ \E c \in Configs : UpdateConfig(c)

Spec == Init /\ [][Next]_vars

(* Goroutines that can run do run, the ticker ticks, and a select that     *)
(* finds a case ready again and again takes it some time.  The far end of  *)
(* SMTP owes us nothing: SmtpEnds has no fairness.                         *)
Fairness ==
  /\ \A e \in Events : WF_vars(Caller(e))
  /\ WF_vars(Receive) /\ WF_vars(SendBatch)
  /\ SF_vars(Tick) /\ SF_vars(StopSeen)

FairSpec == Spec /\ Fairness

-----------------------------------------------------------------------------
(* Properties.                                                             *)

(* Events are mailed in the order they were queued, none twice, none       *)
(* skipped, in batches of at most BatchLimit: processQueue() and           *)
(* sendBatch() implement Feed, the batch being the front of the backlog.   *)
FD == INSTANCE Feed WITH
  backlog <- IF dpc \in {"smtp", "lastsmtp"} THEN queue ELSE batch \o queue
InOrderOnce == FD!Spec

(* notify.go:97: Notify never freezes its caller, however long SMTP hangs, *)
(* whatever is in the channel and whoever changes the configuration.       *)
NeverBlocks == \A e \in Events : <>(epc[e] = "gone")

(* notify.go:150: while no exchange hangs for ever and nobody stops the    *)
(* drain, every event taken into the channel reaches sendBatch, a lonely   *)
(* one too.                                                                *)
InChannel(e) == \E i \in DOMAIN queue : queue[i] = e
WasTried(e)  == \E i \in DOMAIN tried : tried[i] = e

EventuallyTried ==
  ([]<>(dpc \notin {"smtp", "lastsmtp"}) /\ [](~stopped) /\ [](dpc # "off"))
    => \A e \in Events : InChannel(e) ~> WasTried(e)

(* notify.go:121: Stop ends the drain goroutine and loses no event that it *)
(* had already taken off the channel, if SMTP does not hang.               *)
StopFlushes ==
  ([]<>(dpc \notin {"smtp", "lastsmtp"}) /\ [](dpc # "off"))
    => (stopped ~> (dpc = "over" /\ batch = <<>>))
=============================================================================
