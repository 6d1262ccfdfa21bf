--------------------------- MODULE MessageQueueLog ---------------------------
(***************************************************************************)
(* The message queue with a history variable, the log of all samples given *)
(* to put_sample, through which it implements LossyFifo.                   *)
(***************************************************************************)
EXTENDS MessageQueue

VARIABLE log

logVars == <<vars, log>>

LogInit == Init /\ log = <<>>

LogNext ==
  \/ \E s \in Samples : PutSample(s) /\ log' = Append(log, s)
  \/ /\ \/ \E c \in Consumers : GetSample(c) \/ GetSampleResumed(c)
        \/ \E v \in Versions : UpdateParamVersion(v)
        \/ ClearQueue
        \/ Shutdown
        \/ \E r \in Results : PutValidate(r)
        \/ GetValidate
     /\ UNCHANGED log

LogFairness == \A c \in Consumers : WF_logVars(GetSampleResumed(c) /\ UNCHANGED log)

LogSpec == LogInit /\ [][LogNext]_logVars /\ LogFairness

(* Position in the log of the queue's head.                                *)
Removed == total_consumed + dropped_samples + cleared_samples

(* The queue is the stretch of the log that was neither consumed, dropped  *)
(* nor cleared: put_sample and get_sample never reorder or duplicate.      *)
QueueIsLogSuffix ==
  /\ Len(log) = total_produced
  /\ Removed <= Len(log)
  /\ queue = SubSeq(log, Removed + 1, Len(log))

Fifo == INSTANCE LossyFifo
  WITH first <- Removed + 1, delivered <- ret, Capacity <- MaxQueueSize

(* The message queue implements the lossy FIFO.                            *)
ImplementsLossyFifo == Fifo!Spec
=============================================================================
