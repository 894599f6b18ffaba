--------------------------- MODULE NotifierProofs ---------------------------
(***************************************************************************)
(* Theorems about module Notifier, for any events, any configurations and  *)
(* any capacities.                                                         *)
(***************************************************************************)
EXTENDS Notifier, SequenceTheorems, TLAPS

(* Moving the head of t to the end of s leaves s \o t as it was.           *)
LEMMA MoveHead ==
  ASSUME NEW S, NEW s \in Seq(S), NEW t \in Seq(S), t # <<>>
  PROVE  Append(s, Head(t)) \o Tail(t) = s \o t
<1> DEFINE h == Head(t)
<1>1. h \in S /\ Tail(t) \in Seq(S) /\ <<h>> \in Seq(S)
  BY HeadTailProperties
<1>2. t = <<h>> \o Tail(t)
  <2>1. SubSeq(t, 1, Len(t)) = <<t[1]>> \o SubSeq(t, 2, Len(t))
    BY SubSeqRecursiveFirst, Len(t) \in Nat, Len(t) # 0
  <2>2. h = t[1]
    OBVIOUS
  <2> QED
    BY <2>1, <2>2, SubSeqFull, TailIsSubSeq
<1>3. Append(s, h) = s \o <<h>>
  BY <1>1, AppendIsConcat
<1> QED
  BY <1>1, <1>2, <1>3, ConcatAssociative

(* Appending to t appends to s \o t.                                       *)
LEMMA AppendToBack ==
  ASSUME NEW S, NEW s \in Seq(S), NEW t \in Seq(S), NEW e \in S
  PROVE  s \o Append(t, e) = Append(s \o t, e)
<1>1. <<e>> \in Seq(S) /\ s \o t \in Seq(S)
  BY ConcatProperties
<1>2. Append(t, e) = t \o <<e>> /\ Append(s \o t, e) = (s \o t) \o <<e>>
  BY <1>1, AppendIsConcat
<1> QED
  BY <1>1, <1>2, ConcatAssociative

(* The first Len(s) elements of s \o t are s, the rest is t.               *)
LEMMA CutFront ==
  ASSUME NEW S, NEW s \in Seq(S), NEW t \in Seq(S), s # <<>>
  PROVE  /\ SubSeq(s \o t, 1, Len(s)) = s
         /\ SubSeq(s \o t, Len(s) + 1, Len(s \o t)) = t
<1>1. Len(s) \in Nat \ {0} /\ Len(t) \in Nat
      /\ s \o t \in Seq(S) /\ Len(s \o t) = Len(s) + Len(t)
  BY ConcatProperties
<1>2. SubSeq(s \o t, 1, Len(s)) = SubSeq(s, 1, Len(s))
  BY <1>1, SubSeqOfConcat1
<1>3. CASE t = <<>>
  BY <1>1, <1>2, <1>3, SubSeqFull, SubSeqEmpty
<1>4. CASE t # <<>>
  <2>1. SubSeq(s \o t, Len(s) + 1, Len(s) + Len(t)) = SubSeq(t, 1, Len(t))
    <3>1. /\ Len(s) + 1 \in Len(s) + 1 .. Len(s) + Len(t)
          /\ Len(s) + Len(t) \in Len(s) + 1 .. Len(s) + Len(t)
          /\ (Len(s) + 1) - Len(s) = 1 /\ (Len(s) + Len(t)) - Len(s) = Len(t)
      BY <1>1, <1>4
    <3> QED
      BY <3>1, SubSeqOfConcat2
  <2> QED
    BY <1>1, <1>2, <2>1, SubSeqFull
<1> QED
  BY <1>3, <1>4

-----------------------------------------------------------------------------
(* The drain goroutine goes back to its select only with room in the batch *)
(* and calls sendBatch only with something in it.                          *)
BatchInv ==
  /\ dpc = "select" => Len(batch) < BatchLimit
  /\ dpc \in {"flush", "lastflush"} => batch # <<>>

DrainInv == TypeOK /\ BatchInv

LEMMA InitInv == Init => DrainInv
<1> SUFFICES ASSUME Init PROVE DrainInv
  OBVIOUS
<1>1. <<>> \in Seq(Events) /\ Len(<<>>) = 0
  BY EmptySeq
<1>2. dpc \in {"off", "select"}
  BY DEF Init
<1>3. 0 <= QueueCap /\ 0 <= BatchLimit /\ 0 < BatchLimit
  BY NotifierAssumption
<1>4. TypeOK
  BY <1>1, <1>2, <1>3 DEF Init, TypeOK, DrainPcs, CallerPcs
<1>5. BatchInv
  BY <1>1, <1>2, <1>3 DEF Init, BatchInv
<1> QED
  BY <1>4, <1>5 DEF DrainInv

LEMMA CallerInv ==
  ASSUME DrainInv, NEW e \in Events, Caller(e)
  PROVE  DrainInv'
<1>1. CASE CheckEnabled(e)
  BY <1>1 DEF CheckEnabled, DrainInv, TypeOK, BatchInv, CallerPcs, drainVars
<1>2. CASE CheckWanted(e)
  BY <1>2 DEF CheckWanted, DrainInv, TypeOK, BatchInv, CallerPcs, drainVars
<1>3. CASE Offer(e)
  <2>1. Len(queue) < QueueCap => Append(queue, e) \in Seq(Events)
                                 /\ Len(Append(queue, e)) <= QueueCap
    BY AppendProperties, NotifierAssumption DEF DrainInv, TypeOK
  <2> QED
    BY <1>3, <2>1 DEF Offer, DrainInv, TypeOK, BatchInv, CallerPcs, drainVars
<1> QED
  BY <1>1, <1>2, <1>3 DEF Caller

LEMMA DrainKeepsInv ==
  ASSUME DrainInv, Drain \/ SmtpEnds
  PROVE  DrainInv'
<1>0. <<>> \in Seq(Events) /\ Len(<<>>) = 0
  BY EmptySeq
<1>1. CASE Receive
  <2>1. /\ Head(queue) \in Events /\ Tail(queue) \in Seq(Events)
        /\ Len(Tail(queue)) <= QueueCap
    BY <1>1, HeadTailProperties, NotifierAssumption
    DEF Receive, DrainInv, TypeOK
  <2>2. /\ batch' \in Seq(Events) /\ batch' # <<>>
        /\ Len(batch') = Len(batch) + 1 /\ Len(batch) < BatchLimit
    BY <1>1, <2>1, AppendProperties DEF Receive, DrainInv, TypeOK, BatchInv
  <2>3. Len(batch') <= BatchLimit /\ (~(Len(batch') >= BatchLimit)
                                      => Len(batch') < BatchLimit)
    BY <2>2, NotifierAssumption DEF DrainInv, TypeOK
  <2> QED
    BY <1>1, <2>1, <2>2, <2>3 DEF Receive, DrainInv, TypeOK, BatchInv, DrainPcs
<1>2. CASE Tick
  BY <1>2 DEF Tick, DrainInv, TypeOK, BatchInv, DrainPcs
<1>3. CASE StopSeen
  BY <1>3 DEF StopSeen, DrainInv, TypeOK, BatchInv, DrainPcs
<1>4. CASE SendBatch
  <2>1. tried \o batch \in Seq(Events)
    BY ConcatProperties DEF DrainInv, TypeOK
  <2>2. CASE config.mailto
    BY <1>4, <2>1, <2>2 DEF SendBatch, DrainInv, TypeOK, BatchInv, DrainPcs
  <2>3. CASE ~config.mailto
    <3>1. batch' = <<>> /\ dpc' \in {"over", "select"}
      BY <1>4, <2>3 DEF SendBatch, Sent
    <3> QED
      BY <1>0, <1>4, <2>1, <3>1, NotifierAssumption
      DEF SendBatch, DrainInv, TypeOK, BatchInv, DrainPcs
  <2> QED
    BY <2>2, <2>3
<1>5. CASE SmtpEnds
  BY <1>0, <1>5, NotifierAssumption
  DEF SmtpEnds, Sent, DrainInv, TypeOK, BatchInv, DrainPcs
<1> QED
  BY <1>1, <1>2, <1>3, <1>4, <1>5 DEF Drain

LEMMA NextInv == DrainInv /\ [Next]_vars => DrainInv'
<1> SUFFICES ASSUME DrainInv, [Next]_vars PROVE DrainInv'
  OBVIOUS
<1>1. CASE \E e \in Events : Caller(e)
  BY <1>1, CallerInv
<1>2. CASE Drain \/ SmtpEnds
  BY <1>2, DrainKeepsInv
<1>3. CASE Stop
  BY <1>3 DEF Stop, DrainInv, TypeOK, BatchInv, drainVars
<1>4. CASE \E c \in Configs : UpdateConfig(c)
  BY <1>4 DEF UpdateConfig, DrainInv, TypeOK, BatchInv, drainVars
<1>5. CASE UNCHANGED vars
  BY <1>5 DEF vars, DrainInv, TypeOK, BatchInv
<1> QED
  BY <1>1, <1>2, <1>3, <1>4, <1>5 DEF Next, Caller, Drain

LEMMA DrainInvariant == Spec => []DrainInv
  BY InitInv, NextInv, PTL DEF Spec

(* The channel and the batch stay within their limits: processQueue()      *)
(* hands at most BatchLimit events to one e-mail.                          *)
THEOREM TypeCorrect == Spec => []TypeOK
<1>1. DrainInv => TypeOK
  BY DEF DrainInv
<1> QED
  BY <1>1, DrainInvariant, PTL

-----------------------------------------------------------------------------

LEMMA CallerFeeds ==
  ASSUME DrainInv, NEW e \in Events, Caller(e)
  PROVE  [FD!Next]_(FD!vars)
<1>1. CASE CheckEnabled(e) \/ CheckWanted(e)
  BY <1>1 DEF CheckEnabled, CheckWanted, drainVars, FD!vars
<1>2. CASE Offer(e) /\ Len(queue) < QueueCap
  <2>1. batch \o Append(queue, e) = Append(batch \o queue, e)
    BY AppendToBack DEF DrainInv, TypeOK
  <2>2. FD!Accept(e)
    BY <1>2, <2>1 DEF Offer, FD!Accept, drainVars
  <2> QED
    BY <2>2 DEF FD!Next
<1>3. CASE Offer(e) /\ ~(Len(queue) < QueueCap)
  BY <1>3 DEF Offer, drainVars, FD!vars
<1> QED
  BY <1>1, <1>2, <1>3 DEF Caller

LEMMA DrainFeeds ==
  ASSUME DrainInv, Drain \/ SmtpEnds
  PROVE  [FD!Next]_(FD!vars)
<1>0. batch \in Seq(Events) /\ queue \in Seq(Events)
  BY DEF DrainInv, TypeOK
<1>1. CASE Receive
  <2>1. Append(batch, Head(queue)) \o Tail(queue) = batch \o queue
    BY <1>0, <1>1, MoveHead DEF Receive
  <2>2. dpc \notin {"smtp", "lastsmtp"} /\ dpc' \notin {"smtp", "lastsmtp"}
    BY <1>1 DEF Receive
  <2>3. batch' \o queue' = batch \o queue /\ tried' = tried
    BY <1>1, <2>1 DEF Receive
  <2> QED
    BY <2>2, <2>3 DEF FD!vars
<1>2. CASE Tick \/ StopSeen
  BY <1>2 DEF Tick, StopSeen, FD!vars
<1>3. CASE SendBatch
  <2> DEFINE k == Len(batch)
  <2>1. k \in 1..BatchLimit /\ k <= Len(batch \o queue)
    BY <1>0, <1>3, ConcatProperties, NotifierAssumption
    DEF SendBatch, DrainInv, TypeOK, BatchInv
  <2>2. /\ SubSeq(batch \o queue, 1, k) = batch
        /\ SubSeq(batch \o queue, k + 1, Len(batch \o queue)) = queue
    BY <1>0, <1>3, CutFront DEF SendBatch, DrainInv, BatchInv
  <2>3. <<>> \o queue = queue
    BY <1>0, ConcatEmptySeq
  <2>4. FD!HandOver(k)
    BY <1>3, <2>2, <2>3 DEF SendBatch, Sent, FD!HandOver
  <2>5. dpc \notin {"smtp", "lastsmtp"}
    BY <1>3 DEF SendBatch
  <2> QED
    BY <2>1, <2>4, <2>5 DEF FD!Next
<1>4. CASE SmtpEnds
  <2>1. <<>> \o queue = queue
    BY <1>0, ConcatEmptySeq
  <2> QED
    BY <1>4, <2>1 DEF SmtpEnds, Sent, FD!vars
<1> QED
  BY <1>1, <1>2, <1>3, <1>4 DEF Drain

(* No event is mailed twice, skipped or overtaken by a later one, whatever *)
(* the capacity, the batch size and the reconfigurations: Notifier         *)
(* implements Feed.                                                        *)
THEOREM ImplementsFeed == Spec => InOrderOnce
<1>1. Init => FD!Init
  <2> SUFFICES ASSUME Init PROVE FD!Init
    OBVIOUS
  <2>1. <<>> \o <<>> = <<>>
    BY ConcatEmptySeq, EmptySeq
  <2> QED
    BY <2>1 DEF Init, FD!Init
<1>2. DrainInv /\ [Next]_vars => [FD!Next]_(FD!vars)
  <2> SUFFICES ASSUME DrainInv, [Next]_vars PROVE [FD!Next]_(FD!vars)
    OBVIOUS
  <2>1. CASE \E e \in Events : Caller(e)
    BY <2>1, CallerFeeds
  <2>2. CASE Drain \/ SmtpEnds
    BY <2>2, DrainFeeds
  <2>3. CASE Stop \/ \E c \in Configs : UpdateConfig(c)
    BY <2>3 DEF Stop, UpdateConfig, drainVars, FD!vars
  <2>4. CASE UNCHANGED vars
    BY <2>4 DEF vars, FD!vars
  <2> QED
    BY <2>1, <2>2, <2>3, <2>4 DEF Next, Caller, Drain
<1> QED
  BY <1>1, <1>2, DrainInvariant, PTL DEF Spec, InOrderOnce, FD!Spec
=============================================================================
