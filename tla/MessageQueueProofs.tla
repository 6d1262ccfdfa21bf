-------------------------- MODULE MessageQueueProofs --------------------------
(***************************************************************************)
(* Proofs about the message queue: its types, its capacity, the accounting *)
(* of samples, the absence of lost wakeups, and that it implements the     *)
(* lossy FIFO, for any number of consumers and any capacity.               *)
(***************************************************************************)
EXTENDS MessageQueueLog, SequenceTheorems, TLAPS

USE CapacityAssumption, BoundAssumption, NoneAssumption, VersionAssumption

(* What put_sample leaves in the queue before it appends fits, with one    *)
(* place to spare.                                                         *)
LEMMA RoomToAppend ==
  ASSUME queue \in Seq(Samples), WithinCapacity
  PROVE  LET kept == IF Full THEN Tail(queue) ELSE queue IN
         /\ kept \in Seq(Samples)
         /\ Len(kept) < MaxQueueSize
         /\ Len(kept) = Len(queue) - (IF Full THEN 1 ELSE 0)
<1>1. CASE Full
  <2>1. queue # <<>>
    BY <1>1 DEF Full
  <2> QED
    BY <1>1, <2>1, HeadTailProperties DEF WithinCapacity, Full
<1>2. CASE ~Full
  BY <1>2 DEF Full
<1> QED
  BY <1>1, <1>2
-----------------------------------------------------------------------------
(* The inductive invariant: the counters agree because only a full queue   *)
(* drops, and a full queue has a head to drop because its capacity is not  *)
(* zero.                                                                   *)
QueueInv == TypeOK /\ WithinCapacity /\ Accounting /\ NoLostWakeup

(* The actor starts with an empty queue, all counters at zero and nobody   *)
(* waiting.                                                                *)
LEMMA InitInvariant == Init => QueueInv
  BY DEF Init, QueueInv, TypeOK, WithinCapacity, Accounting, NoLostWakeup

(* notify_all() leaves every consumer in a known state, and none asleep.   *)
LEMMA NotifyAllType ==
  ASSUME call \in [Consumers -> {"idle", "waiting", "woken"}], NotifyAll
  PROVE  /\ call' \in [Consumers -> {"idle", "waiting", "woken"}]
         /\ \A c \in Consumers : call'[c] # "waiting"
  BY DEF NotifyAll

(* One turn of get_sample's loop keeps the invariants, whichever way it    *)
(* ends.                                                                   *)
LEMMA GetBodyInvariant ==
  ASSUME QueueInv, NEW c \in Consumers, GetBody(c)
  PROVE  QueueInv'
<1> USE DEF QueueInv
<1>1. CASE Take(c)
  <2>1. /\ queue' \in Seq(Samples)
        /\ Len(queue') = Len(queue) - 1
        /\ Head(queue) \in Samples
    BY <1>1, HeadTailProperties DEF Take, TypeOK
  <2>2. TypeOK'
    BY <1>1, <2>1 DEF Take, GetBody, TypeOK
  <2>3. WithinCapacity'
    BY <2>1 DEF WithinCapacity, TypeOK
  <2>4. Accounting'
    BY <1>1, <2>1 DEF Take, GetBody, TypeOK, Accounting
  <2>5. NoLostWakeup'
    BY <1>1 DEF Take, GetBody, TypeOK, NoLostWakeup
  <2> QED
    BY <2>2, <2>3, <2>4, <2>5
<1>2. CASE Park(c)
  <2>1. TypeOK'
    BY <1>2 DEF Park, GetBody, TypeOK
  <2>2. WithinCapacity' /\ Accounting'
    BY <1>2 DEF Park, GetBody, WithinCapacity, Accounting
  <2>3. NoLostWakeup'
    BY <1>2 DEF Park, GetBody, TypeOK, NoLostWakeup
  <2> QED
    BY <2>1, <2>2, <2>3
<1>3. CASE ReturnNone(c)
  <2>1. TypeOK'
    BY <1>3 DEF ReturnNone, GetBody, TypeOK
  <2>2. WithinCapacity' /\ Accounting'
    BY <1>3 DEF ReturnNone, GetBody, WithinCapacity, Accounting
  <2>3. NoLostWakeup'
    BY <1>3 DEF ReturnNone, GetBody, TypeOK, NoLostWakeup
  <2> QED
    BY <2>1, <2>2, <2>3
<1> QED
  BY <1>1, <1>2, <1>3 DEF GetBody

(* Every method of the actor keeps the invariants.                         *)
LEMMA NextInvariant ==
  ASSUME QueueInv, [Next]_vars
  PROVE  QueueInv'
<1> USE DEF QueueInv
<1>1. CASE UNCHANGED vars
  BY <1>1 DEF vars, counters, TypeOK, WithinCapacity, Accounting, NoLostWakeup
<1>2. ASSUME NEW s \in Samples, PutSample(s)
      PROVE  QueueInv'
  <2> DEFINE kept == IF Full THEN Tail(queue) ELSE queue
  <2>1. /\ kept \in Seq(Samples)
        /\ Len(kept) < MaxQueueSize
        /\ Len(kept) = Len(queue) - (IF Full THEN 1 ELSE 0)
    BY RoomToAppend DEF TypeOK
  <2>2. queue' = Append(kept, s)
    BY <1>2 DEF PutSample
  <2> HIDE DEF kept
  <2>3. queue' \in Seq(Samples) /\ Len(queue') = Len(kept) + 1
    BY <2>1, <2>2
  <2>4. /\ call' \in [Consumers -> {"idle", "waiting", "woken"}]
        /\ \A c \in Consumers : call'[c] # "waiting"
    BY <1>2, NotifyAllType DEF PutSample, TypeOK
  <2>5. TypeOK'
    BY <1>2, <2>3, <2>4 DEF PutSample, TypeOK
  <2>6. WithinCapacity'
    BY <2>1, <2>3 DEF WithinCapacity
  <2>7. Accounting'
    <3>1. CASE Full
      BY <1>2, <2>1, <2>3, <3>1 DEF PutSample, Accounting, TypeOK
    <3>2. CASE ~Full
      BY <1>2, <2>1, <2>3, <3>2 DEF PutSample, Accounting, TypeOK
    <3> QED
      BY <3>1, <3>2
  <2>8. NoLostWakeup'
    BY <2>4 DEF NoLostWakeup
  <2> QED
    BY <2>5, <2>6, <2>7, <2>8
<1>3. ASSUME NEW c \in Consumers, GetSample(c) \/ GetSampleResumed(c)
      PROVE  QueueInv'
  BY <1>3, GetBodyInvariant DEF GetSample, GetSampleResumed
<1>4. ASSUME NEW v \in Versions, UpdateParamVersion(v)
      PROVE  QueueInv'
  BY <1>4 DEF UpdateParamVersion, counters, TypeOK, WithinCapacity, Accounting,
              NoLostWakeup
<1>5. CASE ClearQueue
  <2>1. TypeOK' /\ WithinCapacity'
    BY <1>5 DEF ClearQueue, TypeOK, WithinCapacity
  <2>2. Accounting'
    BY <1>5 DEF ClearQueue, TypeOK, Accounting
  <2>3. NoLostWakeup'
    BY <1>5 DEF ClearQueue, NoLostWakeup
  <2> QED
    BY <2>1, <2>2, <2>3
<1>6. CASE Shutdown
  <2>1. /\ call' \in [Consumers -> {"idle", "waiting", "woken"}]
        /\ \A c \in Consumers : call'[c] # "waiting"
    BY <1>6, NotifyAllType DEF Shutdown, TypeOK
  <2>2. TypeOK'
    BY <1>6, <2>1 DEF Shutdown, counters, TypeOK
  <2>3. WithinCapacity' /\ Accounting'
    BY <1>6 DEF Shutdown, counters, WithinCapacity, Accounting
  <2>4. NoLostWakeup'
    BY <2>1 DEF NoLostWakeup
  <2> QED
    BY <2>2, <2>3, <2>4
<1>7. ASSUME NEW r \in Results, PutValidate(r)
      PROVE  QueueInv'
  <2>1. val_queue' \in Seq(Results)
    BY <1>7 DEF PutValidate, TypeOK
  <2> QED
    BY <1>7, <2>1 DEF PutValidate, counters, TypeOK, WithinCapacity, Accounting,
                      NoLostWakeup
<1>8. CASE GetValidate
  <2>1. val_queue' \in Seq(Results)
    BY <1>8, HeadTailProperties DEF GetValidate, TypeOK
  <2> QED
    BY <1>8, <2>1 DEF GetValidate, counters, TypeOK, WithinCapacity, Accounting,
                      NoLostWakeup
<1> QED
  BY <1>1, <1>2, <1>3, <1>4, <1>5, <1>6, <1>7, <1>8 DEF Next

(* The four invariants hold together, for any number of consumers and any  *)
(* capacity.                                                               *)
THEOREM Invariance == Spec => []QueueInv
<1>1. QueueInv /\ [Next]_vars => QueueInv'
  BY NextInvariant
<1> QED
  BY <1>1, InitInvariant, PTL DEF Spec

(* The actor's fields keep their types and ranges.                         *)
THEOREM TypeCorrect == Spec => []TypeOK
<1>1. QueueInv => TypeOK
  BY DEF QueueInv
<1> QED
  BY <1>1, Invariance, PTL

(* The queue never holds more than max_queue_size samples, and             *)
(* get_statistics accounts for every sample ever put.                      *)
THEOREM EverySampleAccounted == Spec => []QueueAccounted
<1>1. QueueInv => QueueAccounted
  BY DEF QueueInv, QueueAccounted
<1> QED
  BY <1>1, Invariance, PTL

(* No consumer sleeps while a sample waits or after the shutdown.          *)
THEOREM NoWakeupLost == Spec => []NoLostWakeup
<1>1. QueueInv => NoLostWakeup
  BY DEF QueueInv
<1> QED
  BY <1>1, Invariance, PTL
-----------------------------------------------------------------------------
(* The log changes nothing about the queue.                                *)
LEMMA LogStepIsStep == LogNext => Next
  BY DEF LogNext, Next

(* Nor does a step that leaves the log's variables alone.                   *)
LEMMA LogRefinesQueue == [LogNext]_logVars => [Next]_vars
  BY LogStepIsStep DEF logVars

(* With the history variable, the queue still has its invariants.          *)
LEMMA LogQueueInv == LogSpec => []QueueInv
<1>1. LogInit => QueueInv
  BY InitInvariant DEF LogInit
<1>2. QueueInv /\ [LogNext]_logVars => QueueInv'
  BY NextInvariant, LogRefinesQueue
<1> QED
  BY <1>1, <1>2, PTL DEF LogSpec

LogInv ==
  /\ log \in Seq(Samples)
  /\ Len(log) = total_produced
  /\ Removed <= Len(log)
  /\ Len(queue) = Len(log) - Removed
  /\ \A k \in 1 .. Len(queue) : queue[k] = log[Removed + k]

(* The inductive form of QueueIsLogSuffix, element by element.             *)
LEMMA LogInvImplies == TypeOK /\ LogInv => QueueIsLogSuffix
<1> SUFFICES ASSUME TypeOK, LogInv PROVE QueueIsLogSuffix
  OBVIOUS
<1> DEFINE waiting == SubSeq(log, Removed + 1, Len(log))
<1>1. Removed \in Nat
  BY DEF Removed, TypeOK
<1>2. waiting \in Seq(Samples) /\ Len(waiting) = Len(queue)
  BY <1>1 DEF LogInv
<1>3. \A k \in 1 .. Len(queue) : waiting[k] = queue[k]
  BY <1>1 DEF LogInv, TypeOK
<1>4. queue = waiting
  <2> HIDE DEF waiting
  <2> QED
    BY <1>2, <1>3, SeqEqual DEF TypeOK
<1> QED
  BY <1>4 DEF LogInv, QueueIsLogSuffix

(* At the start the log, like the queue, is empty.                         *)
LEMMA LogInvInit == LogInit => LogInv
  BY DEF LogInit, Init, LogInv, Removed

(* put_sample appends to both, and what it removes from the queue's head   *)
(* moves the start of the waiting stretch by as much.                      *)
LEMMA PutKeepsLogInv ==
  ASSUME QueueInv, LogInv, NEW s \in Samples, PutSample(s), log' = Append(log, s)
  PROVE  LogInv'
<1> DEFINE kept == IF Full THEN Tail(queue) ELSE queue
           lost == IF Full THEN 1 ELSE 0
<1>1. /\ kept \in Seq(Samples)
      /\ Len(kept) = Len(queue) - lost
  BY RoomToAppend DEF QueueInv, TypeOK
<1>2. lost \in {0, 1} /\ lost <= Len(queue)
  BY DEF QueueInv, TypeOK, Full
<1>3. \A k \in 1 .. Len(kept) : kept[k] = queue[k + lost]
  <2>1. CASE Full
    BY <2>1, HeadTailProperties DEF QueueInv, TypeOK, Full
  <2>2. CASE ~Full
    BY <2>2 DEF QueueInv, TypeOK
  <2> QED
    BY <2>1, <2>2
<1>4. queue' = Append(kept, s)
  BY DEF PutSample
<1>5. Removed' = Removed + lost /\ Removed \in Nat
  BY DEF PutSample, Removed, QueueInv, TypeOK
<1>6. total_produced' = total_produced + 1
  BY DEF PutSample
<1> HIDE DEF kept, lost
<1>7. log' \in Seq(Samples) /\ Len(log') = Len(log) + 1
  BY DEF LogInv
<1>8. /\ Removed' <= Len(log')
      /\ Len(queue') = Len(log') - Removed'
  BY <1>1, <1>2, <1>4, <1>5, <1>7 DEF LogInv, QueueInv, TypeOK
<1>9. ASSUME NEW k \in 1 .. Len(queue')
      PROVE  queue'[k] = log'[Removed' + k]
  <2>1. CASE k <= Len(kept)
    <3>1. queue'[k] = queue[k + lost]
      BY <1>1, <1>3, <1>4, <2>1
    <3>2. k + lost \in 1 .. Len(queue)
      BY <1>1, <1>2, <2>1 DEF QueueInv, TypeOK
    <3>3. queue[k + lost] = log[Removed + (k + lost)]
      BY <3>2 DEF LogInv
    <3>4. Removed' + k \in 1 .. Len(log) /\ Removed' + k = Removed + (k + lost)
      BY <1>1, <1>2, <1>5, <2>1, <3>2 DEF LogInv, QueueInv, TypeOK
    <3>5. log'[Removed' + k] = log[Removed' + k]
      BY <3>4 DEF LogInv
    <3> QED
      BY <3>1, <3>3, <3>4, <3>5
  <2>2. CASE k = Len(kept) + 1
    <3>1. queue'[k] = s
      BY <1>1, <1>4, <2>2
    <3>2. Removed' + k = Len(log) + 1
      BY <1>1, <1>2, <1>5, <2>2 DEF LogInv, QueueInv, TypeOK
    <3> QED
      BY <3>1, <3>2 DEF LogInv
  <2>3. Len(queue') = Len(kept) + 1 /\ Len(kept) \in Nat
    BY <1>1, <1>4, AppendProperties, LenProperties
  <2>4. k <= Len(kept) \/ k = Len(kept) + 1
    BY <2>3
  <2> QED
    BY <2>1, <2>2, <2>4
<1> QED
  BY <1>6, <1>7, <1>8, <1>9 DEF LogInv

(* get_sample takes the first sample of the stretch, or nothing.           *)
LEMMA GetKeepsLogInv ==
  ASSUME QueueInv, LogInv, NEW c \in Consumers, GetBody(c), UNCHANGED log
  PROVE  LogInv'
<1>1. CASE Take(c)
  <2>1. Removed' = Removed + 1 /\ Removed \in Nat
    BY <1>1 DEF Take, GetBody, Removed, QueueInv, TypeOK
  <2>2. /\ Len(queue) > 0
        /\ Len(queue') = Len(queue) - 1
        /\ \A k \in 1 .. Len(queue') : queue'[k] = queue[k + 1]
    BY <1>1, HeadTailProperties DEF Take, QueueInv, TypeOK
  <2>3. total_produced' = total_produced
    BY DEF GetBody
  <2>4. Removed' <= Len(log') /\ Len(queue') = Len(log') - Removed'
    BY <2>1, <2>2 DEF LogInv
  <2>5. ASSUME NEW k \in 1 .. Len(queue')
        PROVE  queue'[k] = log'[Removed' + k]
    <3>1. k + 1 \in 1 .. Len(queue) /\ Removed' + k = Removed + (k + 1)
      BY <2>1, <2>2
    <3> QED
      BY <2>2, <3>1 DEF LogInv
  <2> QED
    BY <2>3, <2>4, <2>5 DEF LogInv
<1>2. CASE Park(c) \/ ReturnNone(c)
  BY <1>2 DEF Park, ReturnNone, GetBody, LogInv, Removed
<1> QED
  BY <1>1, <1>2 DEF GetBody

(* Every method of the actor keeps the waiting stretch of the log in the   *)
(* queue.                                                                  *)
LEMMA LogNextInvariant ==
  ASSUME QueueInv, LogInv, [LogNext]_logVars
  PROVE  LogInv'
<1>1. CASE UNCHANGED logVars
  BY <1>1 DEF logVars, vars, counters, LogInv, Removed
<1>2. ASSUME NEW s \in Samples, PutSample(s), log' = Append(log, s)
      PROVE  LogInv'
  BY <1>2, PutKeepsLogInv
<1>3. ASSUME NEW c \in Consumers, GetSample(c) \/ GetSampleResumed(c), UNCHANGED log
      PROVE  LogInv'
  BY <1>3, GetKeepsLogInv DEF GetSample, GetSampleResumed
<1>4. CASE ClearQueue /\ UNCHANGED log
  <2>1. Removed' = Len(log) /\ Len(queue') = 0
    BY <1>4 DEF ClearQueue, Removed, LogInv, QueueInv, TypeOK
  <2> QED
    BY <1>4, <2>1 DEF ClearQueue, LogInv
<1>5. ASSUME UNCHANGED <<queue, counters, log>>
      PROVE  LogInv'
  BY <1>5 DEF counters, LogInv, Removed
<1>6. CASE (\E v \in Versions : UpdateParamVersion(v)) /\ UNCHANGED log
  BY <1>5, <1>6 DEF UpdateParamVersion
<1>7. CASE Shutdown /\ UNCHANGED log
  BY <1>5, <1>7 DEF Shutdown
<1>8. CASE ((\E r \in Results : PutValidate(r)) \/ GetValidate) /\ UNCHANGED log
  BY <1>5, <1>8 DEF PutValidate, GetValidate
<1> QED
  BY <1>1, <1>2, <1>3, <1>4, <1>6, <1>7, <1>8 DEF LogNext

(* The queue's invariants and the correspondence with the log hold together.*)
LEMMA LogInvariance == LogSpec => [](QueueInv /\ LogInv)
<1>1. LogInit => LogInv
  BY LogInvInit
<1>2. QueueInv /\ LogInv /\ [LogNext]_logVars => LogInv'
  BY LogNextInvariant
<1> QED
  BY <1>1, <1>2, LogQueueInv, PTL DEF LogSpec

(* Order is kept and nothing is duplicated: the queue always is the        *)
(* stretch of the log of put_sample's arguments that is neither consumed,  *)
(* dropped nor cleared.                                                    *)
THEOREM QueueIsAlwaysLogSuffix == LogSpec => []QueueIsLogSuffix
<1>1. QueueInv /\ LogInv => QueueIsLogSuffix
  BY LogInvImplies DEF QueueInv
<1> QED
  BY <1>1, LogInvariance, PTL
-----------------------------------------------------------------------------
(* How many samples the abstract queue holds.                              *)
LEMMA WaitingIsLength ==
  ASSUME QueueInv, LogInv
  PROVE  Fifo!Waiting = Len(queue)
  BY DEF Fifo!Waiting, QueueInv, TypeOK, LogInv, Removed

(* put_sample accepts the sample, and makes room exactly when the abstract *)
(* queue is full.                                                          *)
LEMMA PutIsAccept ==
  ASSUME QueueInv, LogInv, NEW s \in Samples, PutSample(s), log' = Append(log, s)
  PROVE  Fifo!Accept(s)
<1>1. Full <=> Fifo!Waiting = MaxQueueSize
  BY WaitingIsLength DEF Full, QueueInv, WithinCapacity, TypeOK
<1>2. Removed' + 1 = Removed + 1 + (IF Full THEN 1 ELSE 0)
  BY DEF PutSample, Removed, QueueInv, TypeOK
<1> QED
  BY <1>1, <1>2 DEF Fifo!Accept, PutSample

(* A turn of get_sample delivers the oldest sample waiting, declines because*)
(* the queue is closed, or falls asleep and is invisible.                  *)
LEMMA GetIsDeliverOrDecline ==
  ASSUME QueueInv, LogInv, NEW c \in Consumers, GetBody(c), UNCHANGED log
  PROVE  Fifo!Deliver(c) \/ Fifo!Decline(c) \/ UNCHANGED Fifo!vars
<1>1. CASE Take(c)
  <2>1. Len(queue) > 0 /\ Head(queue) = queue[1] /\ Removed \in Nat
    BY <1>1 DEF Take, QueueInv, TypeOK, Removed
  <2>2. Head(queue) = log[Removed + 1]
    BY <2>1 DEF LogInv
  <2>3. Removed' = Removed + 1
    BY <1>1 DEF Take, GetBody, Removed, QueueInv, TypeOK
  <2> QED
    BY <1>1, <2>1, <2>2, <2>3, WaitingIsLength DEF Fifo!Deliver, Take
<1>2. CASE Park(c)
  BY <1>2 DEF Park, GetBody, Fifo!vars, Removed
<1>3. CASE ReturnNone(c)
  BY <1>3, WaitingIsLength DEF ReturnNone, GetBody, Fifo!Decline, Removed
<1> QED
  BY <1>1, <1>2, <1>3 DEF GetBody

(* Every step of the queue is a step of the lossy FIFO or changes nothing of*)
(* it.                                                                     *)
LEMMA StepRefines ==
  ASSUME QueueInv, LogInv, [LogNext]_logVars
  PROVE  [Fifo!Next]_(Fifo!vars)
<1>1. ASSUME UNCHANGED <<counters, ret, log>>
      PROVE  UNCHANGED Fifo!vars
  BY <1>1 DEF counters, Fifo!vars, Removed
<1>2. CASE UNCHANGED logVars
  BY <1>1, <1>2 DEF logVars, vars
<1>3. ASSUME NEW s \in Samples, PutSample(s), log' = Append(log, s)
      PROVE  Fifo!Next
  BY <1>3, PutIsAccept DEF Fifo!Next
<1>4. ASSUME NEW c \in Consumers, GetSample(c) \/ GetSampleResumed(c), UNCHANGED log
      PROVE  [Fifo!Next]_(Fifo!vars)
  BY <1>4, GetIsDeliverOrDecline DEF GetSample, GetSampleResumed, Fifo!Next
<1>5. CASE ClearQueue /\ UNCHANGED log
  <2>1. Removed' + 1 = Len(log) + 1
    BY <1>5 DEF ClearQueue, Removed, LogInv, QueueInv, TypeOK
  <2> QED
    BY <1>5, <2>1 DEF ClearQueue, Fifo!Clear, Fifo!Next
<1>6. CASE (\E v \in Versions : UpdateParamVersion(v)) /\ UNCHANGED log
  BY <1>1, <1>6 DEF UpdateParamVersion
<1>7. CASE Shutdown /\ UNCHANGED log
  BY <1>1, <1>7 DEF Shutdown
<1>8. CASE ((\E r \in Results : PutValidate(r)) \/ GetValidate) /\ UNCHANGED log
  BY <1>1, <1>8 DEF PutValidate, GetValidate
<1> QED
  BY <1>2, <1>3, <1>4, <1>5, <1>6, <1>7, <1>8 DEF LogNext

(* The message queue implements the lossy FIFO: every call of one of its   *)
(* methods accepts, delivers, declines or clears, or is invisible.         *)
THEOREM Refinement == LogSpec => ImplementsLossyFifo
<1>1. LogInit => Fifo!Init
  BY DEF LogInit, Init, Fifo!Init, Removed
<1>2. QueueInv /\ LogInv /\ [LogNext]_logVars => [Fifo!Next]_(Fifo!vars)
  BY StepRefines
<1> QED
  BY <1>1, <1>2, LogInvariance, PTL DEF LogSpec, ImplementsLossyFifo, Fifo!Spec
=============================================================================
