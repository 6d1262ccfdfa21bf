------------------------ MODULE FullyAsyncPipelineProofs ------------------------
(***************************************************************************)
(* Proofs about the streaming pipeline, for any number of samples, any     *)
(* queue size and any configuration: the types of its state, the hand-     *)
(* shake of the parameter synchronization with the stamps of the samples,  *)
(* the lag of the validation log; then how many samples are generated      *)
(* ahead of the trainer, how old one may be when it is trained on, that    *)
(* none is lost or used twice on the way, how many versions they pay for,  *)
(* and that without staleness each is trained on by the weights that       *)
(* generated it.                                                           *)
(***************************************************************************)
EXTENDS FullyAsyncPipeline, FiniteSetTheorems, SequenceTheorems, TLAPS

ProcessorPcs ==
  {"check", "get", "taken", "set paused", "drain", "reap", "wait task",
   "wait unpaused", "submit", "wait resume", "resumed", "ended", "dead"}
MonitorPcs == {"top", "check running", "sleep", "unpause", "ended"}
MainPcs == {"stream", "stop", "stopping", "stopped"}
PausePcs == {"pause", "pausing", "gather", "clear kv"}
UpdatePcs == {"update", "updating", "queue size", "reset", "put validate"}
RpcPcs == PausePcs \cup UpdatePcs
            \cup {"idle", "paused", "updated", "resume", "resuming", "unpause"}
TrainerPcs ==
  {"start", "get", "got", "train", "wait last", "pause", "broadcast", "validate",
   "log", "final wait", "end wait", "end"}
Phases == {"none", "gen", "put", "sent", "sent, full"}

(* A finished sample, its versions not yet known to be bounded.            *)
SampleNat == [id : 0 .. TotalSamples, born : Nat, version : Nat]

(* What may be trained on: not the closing None.                           *)
Trainable == {s \in SampleNat : s.id # Done}

(* The types of the rollouter's state, as far as they do not depend on     *)
(* what the trainer has counted.                                           *)
LoopTypes ==
  /\ lock \in Coroutines \cup {Nobody}
  /\ turn \in Coroutines \cup {Nobody}
  /\ waiters \in Seq(Coroutines)

FlagTypes ==
  /\ current_param_version \in Nat /\ staleness_samples \in Nat
  /\ paused \in BOOLEAN /\ running \in BOOLEAN /\ monitor_loop_trigger \in BOOLEAN

FeedTypes ==
  /\ pending_queue \in Seq(0 .. TotalSamples) /\ cancel_queue \in Seq(Ids)
  /\ Len(pending_queue) <= setup.pending_capacity
  /\ fed \in 0 .. TotalSamples + 1

TaskTypes ==
  /\ phase \in [Ids -> Phases]
  /\ finished \in Nat /\ raised \in SUBSET Ids /\ failures \in Nat
  /\ born \in [Ids -> Nat \cup {NotStarted}] /\ stamp \in [Ids -> Nat]
  /\ \A i \in Ids : phase[i] # "none" => born[i] \in Nat

PcTypes ==
  /\ pp \in ProcessorPcs /\ why \in {"pause", "done", "full"}
  /\ hand \in 0 .. TotalSamples
  /\ mp \in MonitorPcs /\ mainp \in MainPcs
  /\ rp \in RpcPcs /\ rpc_version \in Nat /\ rpc_size \in Nat

QueueTypes ==
  /\ queue \in Seq(SampleNat) /\ mq_version \in Nat
  /\ mq_dropped \in Nat /\ mq_val \in Seq(Nat) /\ mq_running = TRUE
  /\ mq_call \in [{"trainer"} -> {"idle", "waiting", "woken"}]
  /\ mq_ret = [c \in {"trainer"} |-> mq_ret[c]]

TrainerTypes ==
  /\ tp \in TrainerPcs
  /\ version \in Nat
  /\ local_trigger_step \in 1 .. setup.trigger_steps
  /\ batch \in Seq(Trainable)
  /\ final \in BOOLEAN
  /\ trained \in SUBSET Ids
  /\ tp = "got" => mq_ret["trainer"] \in SampleNat

TypeInv ==
  /\ setup \in Setups
  /\ LoopTypes /\ FlagTypes /\ FeedTypes /\ TaskTypes /\ PcTypes
  /\ QueueTypes /\ TrainerTypes

(* What the assumptions say of the configuration in use.                   *)
LEMMA SetupTypes ==
  ASSUME setup \in Setups
  PROVE  /\ setup.pending_capacity \in Nat \ {0}
         /\ setup.max_concurrent_samples \in Nat \ {0}
         /\ setup.required_samples \in Nat \ {0}
         /\ setup.trigger_steps \in Nat \ {0}
         /\ setup.test_freq \in Nat \ {0}
         /\ MaxRequired >= setup.required_samples * setup.trigger_steps
  BY SizeAssumption, TrainerAssumption

(* The processor is the only one to take samples and to create tasks.      *)
LEMMA ProcessorFrame ==
  Processor => UNCHANGED <<current_param_version, running, monitor_loop_trigger, fed,
                           countVars, stamp, failures, mp, mainp, rpcVars, mqVars>>
  BY DEF Processor, ProcessorUnchanged, ProcessorCheck, ProcessorGet, ProcessorTaken,
         ProcessorSetPaused, ProcessorDrain, ProcessorReap, ProcessorWaited,
         ProcessorWaitUnpaused, ProcessorResumed, ProcessorNextRound, ProcessorSubmit

(* The main coroutine puts the closing None and clears running.            *)
LEMMA MainFrame ==
  Main => /\ UNCHANGED <<current_param_version, staleness_samples, paused,
                         monitor_loop_trigger, sampleQueues, countVars, taskVars,
                         procVars, mp, rpcVars>>
          /\ UNCHANGED <<mq_version, mq_val, mq_running, mq_consumed, mq_ret>>
  BY DEF Main, MainUnchanged, MainPutNone, MainStop, MainStopped, MQ!PutSample, mqVars

(* The feeder only fills pending_queue.                                    *)
LEMMA FeedFrame ==
  Feed => UNCHANGED <<lockVars, flagVars, cancel_queue, countVars, taskVars, procVars,
                      mp, mainp, rpcVars, mqVars>>
  BY DEF Feed

(* The remote calls leave the samples and the trainer alone.               *)
LEMMA RpcFrame ==
  Rpc => /\ UNCHANGED <<running, sampleQueues, countVars, phase, born, stamp, failures,
                        why, hand, reaped, mp, mainp, rpc_version>>
         /\ UNCHANGED <<queue, mq_version, mq_produced, mq_consumed, mq_dropped,
                        mq_call, mq_ret, mq_running, mq_cleared>>
  BY DEF Rpc, RpcUnchanged, PauseCall, Pausing, PauseGathered, PauseReturns, UpdateCall,
         Updating, UpdateQueueSize, UpdateReset, UpdatePutValidate, UpdateReturns,
         ResumeCall, ResumeServers, ResumeReturns, MQ!PutValidate, MQ!counters, mqVars,
         flagVars, taskVars, procVars

(* The trainer acts on the rollouter by its remote calls only.             *)
LEMMA TrainerFrame ==
  Trainer \/ ValidateTask =>
    UNCHANGED <<lockVars, flagVars, sampleQueues, countVars, taskVars, procVars, mp,
                mainp, rpc_size, server_paused, mq_produced, mq_dropped, mq_running,
                mq_cleared>>
  BY DEF Trainer, ValidateTask, RollouterUnchanged, TrainerGet, TrainerGot, TrainerStep,
         StartSync, Broadcast, EndSync, TrainerValidated, TrainerLog, FinalWait, EndWait,
         LogValidationData, MQ!GetSample, MQ!GetSampleResumed, MQ!GetBody,
         MQ!UpdateParamVersion, MQ!GetValidate, MQ!counters, rpcVars, mqVars

(* The monitor only unpauses.                                              *)
LEMMA MonitorFrame ==
  Monitor => UNCHANGED <<current_param_version, staleness_samples, running,
                         monitor_loop_trigger, sampleQueues, countVars, taskVars,
                         why, hand, reaped, mainp, rpcVars, mqVars>>
  BY DEF Monitor, MonitorUnchanged, MonitorTop, MonitorCheckRunning, MonitorTick,
         MonitorUnpause

(* A task changes its own sample and what it puts.                         *)
LEMMA TaskFrame ==
  ASSUME NEW i \in Ids, Task(i)
  PROVE  /\ UNCHANGED <<lockVars, flagVars, pending_queue, fed, born, procVars, mp,
                        mainp, rpcVars>>
         /\ UNCHANGED <<mq_version, mq_val, mq_running, mq_consumed, mq_ret>>
  BY DEF Task, TaskGenerated, TaskPut, TaskDone, TaskCancelled, TaskRaises,
         MQ!PutSample, mqVars, sampleQueues, taskVars


(* Taking the lock, or queueing for it, keeps the types.                   *)
LEMMA AcquireTypes ==
  ASSUME LoopTypes, NEW p \in Coroutines, Acquire(p)
  PROVE  LoopTypes'
  BY DEF LoopTypes, Acquire

(* So does giving it up.                                                   *)
LEMMA ReleaseTypes ==
  ASSUME LoopTypes, Release
  PROVE  lock' \in Coroutines \cup {Nobody} /\ waiters' \in Seq(Coroutines)
<1>1. CASE waiters = <<>>
  BY <1>1 DEF LoopTypes, Release
<1>2. CASE waiters # <<>>
  BY <1>2, HeadTailProperties DEF LoopTypes, Release
<1> QED
  BY <1>1, <1>2

(* Which of its steps change what.                                         *)
LEMMA ProcessorSteps ==
  ASSUME Processor
  PROVE  /\ ProcessorGet \/ UNCHANGED <<staleness_samples, pending_queue>>
         /\ ProcessorSetPaused \/ UNCHANGED paused
         /\ ProcessorCheck \/ UNCHANGED cancel_queue
         /\ ProcessorSubmit \/ UNCHANGED <<phase, born>>
         /\ (finished' = 0 /\ raised' = {}) \/ UNCHANGED <<finished, raised>>
         /\ ProcessorCheck \/ ProcessorGet \/ ProcessorSubmit \/ UNCHANGED hand
         /\ ProcessorTaken \/ ProcessorSetPaused \/ UNCHANGED why
  BY DEF Processor, ProcessorUnchanged, ProcessorCheck, ProcessorGet,
         ProcessorTaken, ProcessorSetPaused, ProcessorDrain, ProcessorReap,
         ProcessorWaited, ProcessorWaitUnpaused, ProcessorResumed,
         ProcessorNextRound, ProcessorSubmit

(* The steps of the processor keep the types.                              *)
LEMMA ProcessorTypes ==
  ASSUME TypeInv, Processor, UNCHANGED <<setup, trainerVars>>
  PROVE  TypeInv'
<1> USE DEF TypeInv
<1>1. "processor" \in Coroutines
  BY DEF Coroutines
<1>2. LoopTypes'
  <2>1. CASE ProcessorCheck
    BY <1>1, <2>1, AcquireTypes DEF ProcessorCheck, LoopTypes, Stay, Yield
  <2>2. CASE ProcessorGet \/ ProcessorTaken
    BY <1>1, <2>2 DEF ProcessorGet, ProcessorTaken, LoopTypes, Stay
  <2>3. CASE ProcessorSetPaused \/ ProcessorWaited \/ ProcessorNextRound \/ ProcessorSubmit
    BY <1>1, <2>3, ReleaseTypes DEF ProcessorSetPaused, ProcessorWaited,
       ProcessorNextRound, ProcessorSubmit, LoopTypes, Stay, Yield
  <2>4. CASE ProcessorDrain
    BY <1>1, <2>4, AcquireTypes DEF ProcessorDrain, LoopTypes, Yield
  <2>5. CASE ProcessorReap
    BY <1>1, <2>5, ReleaseTypes DEF ProcessorReap, LoopTypes, Stay, Yield
  <2>6. CASE ProcessorWaitUnpaused
    BY <1>1, <2>6, ReleaseTypes DEF ProcessorWaitUnpaused, LoopTypes, Stay, Yield
  <2>7. CASE ProcessorResumed
    BY <1>1, <2>7, AcquireTypes DEF ProcessorResumed
  <2> QED
    BY <2>1, <2>2, <2>3, <2>4, <2>5, <2>6, <2>7 DEF Processor
<1>3. FlagTypes'
  <2>1. current_param_version' \in Nat /\ staleness_samples' \in Nat
    BY ProcessorFrame, ProcessorSteps DEF ProcessorGet, FlagTypes
  <2>2. paused' \in BOOLEAN
    BY ProcessorSteps DEF ProcessorSetPaused, FlagTypes
  <2>3. running' \in BOOLEAN /\ monitor_loop_trigger' \in BOOLEAN
    BY ProcessorFrame DEF FlagTypes
  <2> QED
    BY <2>1, <2>2, <2>3 DEF FlagTypes
<1>4. FeedTypes'
  <2>1. setup' = setup /\ setup.pending_capacity \in Nat
    BY SetupTypes
  <2>2. cancel_queue' \in Seq(Ids)
    BY ProcessorSteps, HeadTailProperties DEF ProcessorCheck, FeedTypes
  <2>3. /\ pending_queue' \in Seq(0 .. TotalSamples)
        /\ Len(pending_queue') <= Len(pending_queue)
    <3>1. CASE ProcessorGet
      BY <3>1, HeadTailProperties DEF ProcessorGet, FeedTypes
    <3>2. CASE ~ProcessorGet
      BY <3>2, ProcessorSteps DEF FeedTypes
    <3> QED
      BY <3>1, <3>2
  <2> QED
    BY <2>1, <2>2, <2>3, ProcessorFrame DEF FeedTypes
<1>5. TaskTypes'
  <2>1. CASE ProcessorSubmit
    <3>1. /\ phase' = [phase EXCEPT ![hand] = "gen"]
          /\ born' = [born EXCEPT ![hand] =
                        IF @ = NotStarted THEN current_param_version ELSE @]
      BY <2>1 DEF ProcessorSubmit
    <3>2. /\ phase' \in [Ids -> Phases]
          /\ born' \in [Ids -> Nat \cup {NotStarted}]
          /\ \A i \in Ids : phase'[i] # "none" => born'[i] \in Nat
      BY <3>1 DEF TaskTypes, FlagTypes, Phases
    <3> QED
      BY <2>1, <3>2, ProcessorFrame, ProcessorSteps DEF ProcessorSubmit, ProcessorUnchanged, TaskTypes
  <2>2. CASE ~ProcessorSubmit
    <3>1. finished' \in Nat /\ raised' \in SUBSET Ids
      BY ProcessorSteps DEF TaskTypes
    <3>2. UNCHANGED <<phase, born, stamp, failures>>
      BY <2>2, ProcessorFrame, ProcessorSteps
    <3> QED
      BY <3>1, <3>2 DEF TaskTypes
  <2> QED
    BY <2>1, <2>2
<1>6. PcTypes'
  <2>1. hand' \in 0 .. TotalSamples
    <3>1. CASE ProcessorCheck
      <4>1. hand' = hand \/ (cancel_queue # <<>> /\ hand' = Head(cancel_queue))
        BY <3>1 DEF ProcessorCheck
      <4>2. cancel_queue # <<>> => Head(cancel_queue) \in Ids
        BY HeadTailProperties DEF FeedTypes
      <4>3. Ids \subseteq 0 .. TotalSamples
        BY SizeAssumption DEF Ids
      <4> QED
        BY <4>1, <4>2, <4>3 DEF PcTypes
    <3>2. CASE ProcessorGet
      BY <3>2, HeadTailProperties DEF ProcessorGet, FeedTypes
    <3>3. CASE ~ProcessorCheck /\ ~ProcessorGet
      BY <3>3, ProcessorSteps, SizeAssumption DEF ProcessorSubmit, PcTypes, Done
    <3> QED
      BY <3>1, <3>2, <3>3
  <2>2. pp' \in ProcessorPcs
    BY DEF Processor, ProcessorCheck, ProcessorGet, ProcessorTaken, ProcessorSetPaused,
         ProcessorDrain, ProcessorReap, ProcessorWaited, ProcessorWaitUnpaused,
         ProcessorResumed, ProcessorNextRound, ProcessorSubmit, ProcessorPcs
  <2>3. why' \in {"pause", "done", "full"}
    BY ProcessorSteps DEF ProcessorTaken, ProcessorSetPaused, PcTypes
  <2> QED
    BY <2>1, <2>2, <2>3, ProcessorFrame DEF PcTypes, rpcVars
<1>7. QueueTypes' /\ TrainerTypes' /\ setup' \in Setups
  BY ProcessorFrame DEF QueueTypes, TrainerTypes, trainerVars, mqVars
<1> QED
  BY <1>2, <1>3, <1>4, <1>5, <1>6, <1>7

(* put_sample keeps the types of the queue.                                *)
LEMMA PutSampleTypes ==
  ASSUME QueueTypes, NEW s \in SampleNat, MQ!PutSample(s)
  PROVE  QueueTypes'
<1> DEFINE kept == IF MQ!Full THEN Tail(queue) ELSE queue
<1>1. kept \in Seq(SampleNat)
  <2>1. CASE MQ!Full
    <3>1. queue # <<>>
      BY <2>1, SizeAssumption DEF MQ!Full
    <3> QED
      BY <2>1, <3>1, HeadTailProperties DEF QueueTypes
  <2>2. CASE ~MQ!Full
    BY <2>2 DEF QueueTypes
  <2> QED
    BY <2>1, <2>2
<1>2. queue' = Append(kept, s)
  BY DEF MQ!PutSample
<1> HIDE DEF kept
<1>3. queue' \in Seq(SampleNat)
  BY <1>1, <1>2
<1>4. mq_dropped' \in Nat
  BY DEF MQ!PutSample, QueueTypes
<1>5. mq_call' \in [{"trainer"} -> {"idle", "waiting", "woken"}]
  BY DEF MQ!PutSample, MQ!NotifyAll, QueueTypes
<1> QED
  BY <1>3, <1>4, <1>5 DEF MQ!PutSample, QueueTypes

(* The steps of the main coroutine keep the types.                         *)
LEMMA MainTypes ==
  ASSUME TypeInv, Main, UNCHANGED <<setup, trainerVars>>
  PROVE  TypeInv'
<1> USE DEF TypeInv
<1>1. LoopTypes'
  <2>1. "main" \in Coroutines
    BY DEF Coroutines
  <2>2. CASE MainPutNone
    BY <2>2 DEF MainPutNone, lockVars, LoopTypes
  <2>3. CASE MainStop
    BY <2>1, <2>3, AcquireTypes DEF MainStop
  <2>4. CASE MainStopped
    BY <2>4, ReleaseTypes DEF MainStopped, LoopTypes, Yield
  <2> QED
    BY <2>2, <2>3, <2>4 DEF Main
<1>2. FlagTypes'
  <2>1. current_param_version' \in Nat /\ staleness_samples' \in Nat
    BY MainFrame DEF FlagTypes
  <2>2. paused' \in BOOLEAN /\ monitor_loop_trigger' \in BOOLEAN
    BY MainFrame DEF FlagTypes
  <2>3. running' \in BOOLEAN
    BY DEF Main, MainPutNone, MainStop, MainStopped, FlagTypes
  <2> QED
    BY <2>1, <2>2, <2>3 DEF FlagTypes
<1>3. FeedTypes' /\ TaskTypes'
  BY MainFrame DEF FeedTypes, TaskTypes, sampleQueues, taskVars
<1>4. PcTypes'
  <2>1. mainp' \in MainPcs
    BY DEF Main, MainPutNone, MainStop, MainStopped, MainPcs
  <2> QED
    BY <2>1, MainFrame DEF PcTypes, procVars, rpcVars
<1>5. QueueTypes'
  <2>1. CASE MainPutNone
    <3>1. [id |-> Done, born |-> 0, version |-> current_param_version] \in SampleNat
      BY SizeAssumption DEF SampleNat, FlagTypes, Done
    <3> QED
      BY <2>1, <3>1, PutSampleTypes DEF MainPutNone
  <2>2. CASE MainStop \/ MainStopped
    BY <2>2 DEF MainStop, MainStopped, QueueTypes, mqVars
  <2> QED
    BY <2>1, <2>2 DEF Main
<1>6. TrainerTypes' /\ setup' \in Setups
  BY MainFrame DEF TrainerTypes, trainerVars
<1> QED
  BY <1>1, <1>2, <1>3, <1>4, <1>5, <1>6

(* The steps of the monitor loop keep the types.                           *)
LEMMA MonitorTypes ==
  ASSUME TypeInv, Monitor, UNCHANGED <<setup, trainerVars>>
  PROVE  TypeInv'
<1> USE DEF TypeInv
<1>1. LoopTypes'
  <2>1. "monitor" \in Coroutines
    BY DEF Coroutines
  <2>2. CASE MonitorTop
    BY <2>1, <2>2, AcquireTypes DEF MonitorTop
  <2>3. CASE MonitorCheckRunning \/ MonitorUnpause
    BY <2>1, <2>3, ReleaseTypes DEF MonitorCheckRunning, MonitorUnpause, LoopTypes,
       Yield, Stay
  <2>4. CASE MonitorTick
    BY <2>1, <2>4, AcquireTypes DEF MonitorTick, LoopTypes, Stay
  <2> QED
    BY <2>2, <2>3, <2>4 DEF Monitor
<1>2. FlagTypes'
  <2>1. current_param_version' \in Nat /\ staleness_samples' \in Nat
    BY MonitorFrame DEF FlagTypes
  <2>2. running' \in BOOLEAN /\ monitor_loop_trigger' \in BOOLEAN
    BY MonitorFrame DEF FlagTypes
  <2>3. paused' \in BOOLEAN
    BY DEF Monitor, MonitorTop, MonitorCheckRunning, MonitorTick, MonitorUnpause, FlagTypes
  <2> QED
    BY <2>1, <2>2, <2>3 DEF FlagTypes
<1>3. FeedTypes' /\ TaskTypes'
  BY MonitorFrame DEF FeedTypes, TaskTypes, sampleQueues, taskVars
<1>4. PcTypes'
  <2>1. mp' \in MonitorPcs
    BY DEF Monitor, MonitorTop, MonitorCheckRunning, MonitorTick, MonitorUnpause, MonitorPcs
  <2>2. pp' \in ProcessorPcs
    BY DEF Monitor, MonitorTop, MonitorCheckRunning, MonitorTick, MonitorUnpause,
           NotifyAll, ProcessorPcs, PcTypes
  <2> QED
    BY <2>1, <2>2, MonitorFrame DEF PcTypes, rpcVars
<1>5. QueueTypes' /\ TrainerTypes' /\ setup' \in Setups
  BY MonitorFrame DEF QueueTypes, mqVars, TrainerTypes, trainerVars
<1> QED
  BY <1>1, <1>2, <1>3, <1>4, <1>5

(* What a task's step may change, and how.                                 *)
LEMMA TaskSteps ==
  ASSUME NEW i \in Ids, Task(i)
  PROVE  /\ cancel_queue' = Append(cancel_queue, i) \/ UNCHANGED cancel_queue
         /\ finished' = finished + 1 \/ UNCHANGED finished
         /\ failures' = failures + 1 \/ UNCHANGED failures
         /\ raised' = raised \cup {i} \/ UNCHANGED raised
         /\ \/ stamp' = [stamp EXCEPT ![i] = current_param_version]
            \/ UNCHANGED stamp
  BY DEF Task, TaskGenerated, TaskPut, TaskDone, TaskCancelled, TaskRaises, sampleQueues

(* The steps of a task keep the types.                                     *)
LEMMA TaskStepTypes ==
  ASSUME TypeInv, NEW i \in Ids, Task(i), UNCHANGED <<setup, trainerVars>>
  PROVE  TypeInv'
<1> USE DEF TypeInv
<1>1. LoopTypes' /\ FlagTypes'
  BY TaskFrame DEF LoopTypes, lockVars, FlagTypes, flagVars
<1>2. FeedTypes'
  <2>1. cancel_queue' \in Seq(Ids)
    BY TaskSteps DEF FeedTypes
  <2>2. UNCHANGED <<setup, pending_queue, fed>>
    BY TaskFrame
  <2> QED
    BY <2>1, <2>2 DEF FeedTypes
<1>3. TaskTypes'
  <2>1. /\ phase' \in [Ids -> Phases]
        /\ phase[i] # "none"
        /\ \A j \in Ids : j # i => phase'[j] = phase[j]
    BY DEF Task, TaskGenerated, TaskPut, TaskDone, TaskCancelled, TaskRaises,
           TaskTypes, Phases
  <2>2. finished' \in Nat
    BY TaskSteps DEF TaskTypes
  <2>3. failures' \in Nat
    BY TaskSteps DEF TaskTypes
  <2>4. raised' \in SUBSET Ids
    BY TaskSteps DEF TaskTypes
  <2>5. stamp' \in [Ids -> Nat]
    BY TaskSteps DEF TaskTypes, FlagTypes
  <2>6. born' = born
    BY TaskFrame
  <2> QED
    BY <2>1, <2>2, <2>3, <2>4, <2>5, <2>6 DEF TaskTypes
<1>4. PcTypes'
  BY TaskFrame DEF PcTypes, procVars, rpcVars
<1>5. QueueTypes'
  <2>1. CASE TaskPut(i)
    <3>1. [id |-> i, born |-> born[i], version |-> stamp[i]] \in SampleNat
      <4>1. i \in 0 .. TotalSamples
        BY SizeAssumption DEF Ids
      <4>2. born[i] \in Nat /\ stamp[i] \in Nat
        BY <2>1 DEF TaskPut, TaskTypes
      <4> QED
        BY <4>1, <4>2 DEF SampleNat
    <3> QED
      BY <2>1, <3>1, PutSampleTypes DEF TaskPut
  <2>2. CASE ~TaskPut(i)
    BY <2>2 DEF Task, TaskGenerated, TaskDone, TaskCancelled, TaskRaises, QueueTypes, mqVars
  <2> QED
    BY <2>1, <2>2
<1>6. TrainerTypes' /\ setup' \in Setups
  BY TaskFrame DEF TrainerTypes, trainerVars
<1> QED
  BY <1>1, <1>2, <1>3, <1>4, <1>5, <1>6

(* Feeding keeps the types, and pending_queue within its size.             *)
LEMMA FeedStepTypes ==
  ASSUME TypeInv, Feed, UNCHANGED <<setup, trainerVars>>
  PROVE  TypeInv'
<1> USE DEF TypeInv
<1> DEFINE room == setup.pending_capacity - Len(pending_queue)
           left == TotalSamples + 1 - fed
           n == IF room < left THEN room ELSE left
           new == [k \in 1 .. n |-> IF fed + k <= TotalSamples THEN fed + k ELSE Done]
<1>1. /\ pending_queue' = pending_queue \o new
      /\ fed' = fed + n
      /\ n > 0
  BY DEF Feed
<1>2. setup.pending_capacity \in Nat /\ TotalSamples \in Nat
  BY SetupTypes, SizeAssumption
<1>3. /\ room \in Nat /\ left \in Nat /\ n \in Nat
      /\ Len(pending_queue) + n <= setup.pending_capacity
      /\ fed + n <= TotalSamples + 1
  BY <1>2 DEF FeedTypes
<1>4. new \in Seq(0 .. TotalSamples) /\ Len(new) = n
  <2>1. \A k \in 1 .. n : new[k] \in 0 .. TotalSamples
    BY <1>2, <1>3 DEF FeedTypes, Done
  <2> HIDE DEF n
  <2> QED
    BY <1>3, <2>1
<1> HIDE DEF n, new, room, left
<1>5. FeedTypes'
  <2>1. /\ pending_queue' \in Seq(0 .. TotalSamples)
        /\ Len(pending_queue') = Len(pending_queue) + n
    BY <1>1, <1>3, <1>4, ConcatProperties DEF FeedTypes
  <2>2. cancel_queue' = cancel_queue
    BY FeedFrame
  <2> QED
    BY <1>1, <1>2, <1>3, <2>1, <2>2 DEF FeedTypes
<1>6. LoopTypes' /\ FlagTypes'
  BY FeedFrame DEF LoopTypes, lockVars, FlagTypes, flagVars
<1>7. TaskTypes' /\ PcTypes'
  BY FeedFrame DEF TaskTypes, taskVars, PcTypes, procVars, rpcVars
<1>8. QueueTypes' /\ TrainerTypes' /\ setup' \in Setups
  BY FeedFrame DEF QueueTypes, mqVars, TrainerTypes, trainerVars
<1> QED
  BY <1>5, <1>6, <1>7, <1>8

(* What the remote calls change.                                           *)
LEMMA RpcSteps ==
  ASSUME Rpc
  PROVE  /\ current_param_version' = rpc_version \/ UNCHANGED current_param_version
         /\ staleness_samples' = rpc_size \/ UNCHANGED staleness_samples
         /\ paused' \in BOOLEAN \/ UNCHANGED paused
         /\ monitor_loop_trigger' \in BOOLEAN \/ UNCHANGED monitor_loop_trigger
         /\ (finished' = 0 /\ raised' = {}) \/ UNCHANGED <<finished, raised>>
         /\ \/ rpc_size' = ActiveTasks + Len(cancel_queue)
            \/ rpc_size' = rpc_size + Len(queue)
            \/ rpc_size' = 0
            \/ UNCHANGED rpc_size
         /\ rp' \in RpcPcs
         /\ NotifyAll \/ UNCHANGED pp
         /\ mq_val' = Append(mq_val, rpc_version) \/ UNCHANGED mq_val
  BY DEF Rpc, RpcUnchanged, PauseCall, Pausing, PauseGathered, PauseReturns, UpdateCall,
         Updating, UpdateQueueSize, UpdateReset, UpdatePutValidate, UpdateReturns,
         ResumeCall, ResumeServers, ResumeReturns, RpcPcs, PausePcs, UpdatePcs,
         flagVars, taskVars, procVars, mqVars, MQ!PutValidate

(* The number of unfinished tasks is a natural number.                     *)
LEMMA ActiveTasksType ==
  ASSUME TaskTypes
  PROVE  ActiveTasks \in Nat
<1>1. IsFiniteSet(Ids)
  BY SizeAssumption, FS_Interval DEF Ids
<1>2. IsFiniteSet(Unfinished)
  BY <1>1, FS_Subset DEF Unfinished
<1>3. Cardinality(Unfinished) \in Nat
  BY <1>2, FS_CardinalityType
<1> QED
  BY <1>3 DEF ActiveTasks, TaskTypes

(* The steps of the remote calls keep the types.                           *)
LEMMA RpcTypes ==
  ASSUME TypeInv, Rpc, UNCHANGED <<setup, trainerVars>>
  PROVE  TypeInv'
<1> USE DEF TypeInv
<1>1. LoopTypes'
  <2>1. "rpc" \in Coroutines
    BY DEF Coroutines
  <2>2. CASE PauseCall \/ UpdateCall \/ ResumeCall
    BY <2>1, <2>2, AcquireTypes DEF PauseCall, UpdateCall, ResumeCall
  <2>3. CASE PauseReturns \/ UpdateReturns \/ ResumeReturns
    BY <2>3, ReleaseTypes DEF PauseReturns, UpdateReturns, ResumeReturns, LoopTypes, Yield
  <2>4. CASE Pausing \/ PauseGathered \/ Updating \/ UpdateReset \/ ResumeServers
    BY <2>1, <2>4 DEF Pausing, PauseGathered, Updating, UpdateReset, ResumeServers,
       LoopTypes, Yield, Stay
  <2>5. CASE UpdateQueueSize \/ UpdatePutValidate
    BY <2>5 DEF UpdateQueueSize, UpdatePutValidate, LoopTypes, lockVars
  <2> QED
    BY <2>2, <2>3, <2>4, <2>5 DEF Rpc
<1>2. FlagTypes'
  <2>1. current_param_version' \in Nat /\ staleness_samples' \in Nat
    BY RpcSteps DEF FlagTypes, PcTypes
  <2>2. paused' \in BOOLEAN /\ monitor_loop_trigger' \in BOOLEAN
    BY RpcSteps DEF FlagTypes
  <2>3. running' \in BOOLEAN
    BY RpcFrame DEF FlagTypes
  <2> QED
    BY <2>1, <2>2, <2>3 DEF FlagTypes
<1>3. FeedTypes'
  BY RpcFrame DEF FeedTypes, sampleQueues
<1>4. TaskTypes'
  <2>1. finished' \in Nat /\ raised' \in SUBSET Ids
    BY RpcSteps DEF TaskTypes
  <2> QED
    BY <2>1, RpcFrame DEF TaskTypes
<1>5. PcTypes'
  <2>1. pp' \in ProcessorPcs
    BY RpcSteps DEF NotifyAll, ProcessorPcs, PcTypes
  <2>2. rpc_size' \in Nat
    <3>1. ActiveTasks \in Nat /\ Len(cancel_queue) \in Nat /\ Len(queue) \in Nat
      BY ActiveTasksType DEF FeedTypes, QueueTypes
    <3> QED
      BY <3>1, RpcSteps DEF PcTypes
  <2>3. rp' \in RpcPcs
    BY RpcSteps
  <2> QED
    BY <2>1, <2>2, <2>3, RpcFrame DEF PcTypes
<1>6. QueueTypes'
  <2>1. mq_val' \in Seq(Nat)
    <3>1. mq_val' = Append(mq_val, rpc_version) \/ mq_val' = mq_val
      BY RpcSteps
    <3>2. mq_val \in Seq(Nat) /\ rpc_version \in Nat
      BY DEF QueueTypes, PcTypes
    <3> QED
      BY <3>1, <3>2
  <2> QED
    BY <2>1, RpcFrame DEF QueueTypes
<1>7. TrainerTypes' /\ setup' \in Setups
  BY RpcFrame DEF TrainerTypes, trainerVars
<1> QED
  BY <1>1, <1>2, <1>3, <1>4, <1>5, <1>6, <1>7

(* A turn of get_sample's loop: the queue is never shut down, so the       *)
(* trainer gets its head or parks.                                         *)
LEMMA TrainerGetCases ==
  ASSUME QueueTypes, TrainerGet
  PROVE  \/ /\ queue # <<>>
            /\ queue' = Tail(queue)
            /\ mq_ret' = [mq_ret EXCEPT !["trainer"] = Head(queue)]
            /\ mq_call' = [mq_call EXCEPT !["trainer"] = "idle"]
            /\ tp' = "got"
         \/ /\ queue = <<>>
            /\ mq_call' = [mq_call EXCEPT !["trainer"] = "waiting"]
            /\ tp' = "get"
            /\ UNCHANGED <<queue, mq_ret>>
<1>1. MQ!GetBody("trainer")
  BY DEF TrainerGet, MQ!GetSample, MQ!GetSampleResumed
<1>2. mq_running = TRUE
  BY DEF QueueTypes
<1>3. CASE MQ!Take("trainer")
  <2>1. mq_call'["trainer"] = "idle"
    BY <1>3 DEF MQ!Take, QueueTypes
  <2> QED
    BY <1>3, <2>1 DEF MQ!Take, TrainerGet
<1>4. CASE MQ!Park("trainer")
  <2>1. mq_call'["trainer"] = "waiting"
    BY <1>4 DEF MQ!Park, QueueTypes
  <2> QED
    BY <1>4, <2>1 DEF MQ!Park, TrainerGet
<1>5. ~MQ!ReturnNone("trainer")
  BY <1>2 DEF MQ!ReturnNone
<1> QED
  BY <1>1, <1>3, <1>4, <1>5 DEF MQ!GetBody

(* After the log the trainer collects samples again.                       *)
LEMMA AfterLogIsGet == TrainerLog => tp' = "get" /\ tp \in {"start", "log"}
  BY DEF TrainerLog, AfterLog

(* What the trainer's steps change, and how.                               *)
LEMMA TrainerSteps ==
  ASSUME Trainer \/ ValidateTask, tp \in TrainerPcs
  PROVE  /\ tp' \in TrainerPcs
         /\ tp' = "got" => TrainerGet
         /\ TrainerGet \/ UNCHANGED <<queue, mq_ret, mq_call, mq_consumed>>
         /\ mq_version' = version \/ UNCHANGED mq_version
         /\ version' = version + 1 \/ UNCHANGED version
         /\ \/ /\ local_trigger_step < setup.trigger_steps
               /\ local_trigger_step' = local_trigger_step + 1
            \/ local_trigger_step' = 1
            \/ UNCHANGED local_trigger_step
         /\ \/ /\ tp = "got" /\ mq_ret["trainer"].id # Done
               /\ batch' = Append(batch, mq_ret["trainer"])
            \/ batch' = <<>>
            \/ UNCHANGED batch
         /\ final' = TRUE \/ UNCHANGED final
         /\ \/ trained' = trained \cup {batch[k].id : k \in 1 .. Len(batch)}
            \/ UNCHANGED trained
         /\ \/ mq_val # <<>> /\ mq_val' = Tail(mq_val)
            \/ UNCHANGED mq_val
         /\ rpc_version' = version \/ UNCHANGED rpc_version
         /\ rp' \in {"pause", "update"} \/ UNCHANGED rp
<1> USE DEF Trainer, ValidateTask, TrainerGet, TrainerGot, TrainerStep, StartSync,
        Broadcast, EndSync, TrainerValidated, FinalWait, EndWait
<1>1. tp' \in TrainerPcs /\ (tp' = "got" => TrainerGet)
  BY AfterLogIsGet DEF TrainerPcs
<1>2. TrainerGet \/ UNCHANGED <<queue, mq_ret, mq_call, mq_consumed>>
  BY DEF TrainerLog, LogValidationData, MQ!GetSample, MQ!GetSampleResumed, MQ!GetBody,
         MQ!UpdateParamVersion, MQ!GetValidate, MQ!counters, mqVars
<1>3. mq_version' = version \/ UNCHANGED mq_version
  BY DEF TrainerLog, LogValidationData, MQ!GetSample, MQ!GetSampleResumed, MQ!GetBody,
         MQ!UpdateParamVersion, MQ!GetValidate, MQ!counters, mqVars
<1>4. version' = version + 1 \/ UNCHANGED version
  BY DEF TrainerLog
<1>5. \/ /\ local_trigger_step < setup.trigger_steps
         /\ local_trigger_step' = local_trigger_step + 1
      \/ local_trigger_step' = 1
      \/ UNCHANGED local_trigger_step
  BY DEF TrainerLog
<1>6. \/ /\ tp = "got" /\ mq_ret["trainer"].id # Done
         /\ batch' = Append(batch, mq_ret["trainer"])
      \/ batch' = <<>>
      \/ UNCHANGED batch
  BY DEF TrainerLog
<1>7. /\ final' = TRUE \/ UNCHANGED final
      /\ \/ trained' = trained \cup {batch[k].id : k \in 1 .. Len(batch)}
         \/ UNCHANGED trained
  BY DEF TrainerLog
<1>8. \/ mq_val # <<>> /\ mq_val' = Tail(mq_val)
      \/ UNCHANGED mq_val
  BY DEF TrainerLog, LogValidationData, MQ!GetSample, MQ!GetSampleResumed, MQ!GetBody,
         MQ!UpdateParamVersion, MQ!GetValidate, mqVars
<1>9. /\ rpc_version' = version \/ UNCHANGED rpc_version
      /\ rp' \in {"pause", "update"} \/ UNCHANGED rp
  BY DEF TrainerLog, rpcVars
<1> QED
  BY <1>1, <1>2, <1>3, <1>4, <1>5, <1>6, <1>7, <1>8, <1>9

(* The trainer's steps keep the types.                                     *)
LEMMA TrainerStepTypes ==
  ASSUME TypeInv, Trainer \/ ValidateTask, UNCHANGED setup
  PROVE  TypeInv'
<1> USE DEF TypeInv
<1>0. tp \in TrainerPcs
  BY DEF TrainerTypes
<1>1. LoopTypes' /\ FlagTypes' /\ FeedTypes' /\ TaskTypes'
  BY TrainerFrame DEF LoopTypes, lockVars, FlagTypes, flagVars, FeedTypes, sampleQueues,
     TaskTypes, taskVars
<1>2. PcTypes'
  <2>1. rp' \in RpcPcs
    BY <1>0, TrainerSteps DEF RpcPcs, PausePcs, UpdatePcs, PcTypes
  <2>2. rpc_version' \in Nat
    BY <1>0, TrainerSteps DEF PcTypes, TrainerTypes
  <2> QED
    BY <2>1, <2>2, TrainerFrame DEF PcTypes, procVars
<1>3. QueueTypes'
  <2>1. mq_version' \in Nat
    BY <1>0, TrainerSteps DEF QueueTypes, TrainerTypes
  <2>2. mq_val' \in Seq(Nat)
    <3>1. mq_val' = mq_val \/ (mq_val # <<>> /\ mq_val' = Tail(mq_val))
      BY <1>0, TrainerSteps
    <3>2. mq_val \in Seq(Nat)
      BY DEF QueueTypes
    <3> QED
      BY <3>1, <3>2, HeadTailProperties
  <2>3. /\ queue' \in Seq(SampleNat)
        /\ mq_call' \in [{"trainer"} -> {"idle", "waiting", "woken"}]
        /\ mq_ret' = [c \in {"trainer"} |-> mq_ret'[c]]
    <3>1. CASE TrainerGet
      <4>1. queue' = queue \/ (queue # <<>> /\ queue' = Tail(queue))
        BY <3>1, TrainerGetCases
      <4>2. queue' \in Seq(SampleNat)
        <5>1. queue \in Seq(SampleNat)
          BY DEF QueueTypes
        <5> QED
          BY <4>1, <5>1, HeadTailProperties
      <4>3. mq_call' \in [{"trainer"} -> {"idle", "waiting", "woken"}]
        <5>1. \/ mq_call' = [mq_call EXCEPT !["trainer"] = "idle"]
              \/ mq_call' = [mq_call EXCEPT !["trainer"] = "waiting"]
          BY <3>1, TrainerGetCases
        <5> QED
          BY <5>1 DEF QueueTypes
      <4>4. mq_ret' = [c \in {"trainer"} |-> mq_ret'[c]]
        <5>1. \/ mq_ret' = [mq_ret EXCEPT !["trainer"] = Head(queue)]
              \/ mq_ret' = mq_ret
          BY <3>1, TrainerGetCases
        <5> QED
          BY <5>1 DEF QueueTypes
      <4> QED
        BY <4>2, <4>3, <4>4
    <3>2. CASE ~TrainerGet
      BY <1>0, <3>2, TrainerSteps DEF QueueTypes
    <3> QED
      BY <3>1, <3>2
  <2> QED
    BY <2>1, <2>2, <2>3, TrainerFrame DEF QueueTypes
<1>4. TrainerTypes'
  <2>1. tp' \in TrainerPcs
    BY <1>0, TrainerSteps
  <2>2. version' \in Nat
    <3>1. version' = version + 1 \/ version' = version
      BY <1>0, TrainerSteps
    <3> QED
      BY <3>1 DEF TrainerTypes
  <2>3. final' \in BOOLEAN
    BY <1>0, TrainerSteps DEF TrainerTypes
  <2>4. local_trigger_step' \in 1 .. setup'.trigger_steps
    <3>1. setup.trigger_steps \in Nat \ {0}
      BY SetupTypes
    <3>2. \/ /\ local_trigger_step < setup.trigger_steps
             /\ local_trigger_step' = local_trigger_step + 1
          \/ local_trigger_step' = 1
          \/ UNCHANGED local_trigger_step
      BY <1>0, TrainerSteps
    <3> QED
      BY <3>1, <3>2 DEF TrainerTypes
  <2>5. batch' \in Seq(Trainable)
    <3>1. \/ /\ tp = "got" /\ mq_ret["trainer"].id # Done
             /\ batch' = Append(batch, mq_ret["trainer"])
          \/ batch' = <<>>
          \/ UNCHANGED batch
      BY <1>0, TrainerSteps
    <3>2. CASE /\ tp = "got" /\ mq_ret["trainer"].id # Done
               /\ batch' = Append(batch, mq_ret["trainer"])
      <4>1. mq_ret["trainer"] \in Trainable
        BY <3>2 DEF TrainerTypes, Trainable
      <4> QED
        BY <3>2, <4>1, AppendProperties DEF TrainerTypes
    <3>3. CASE batch' = <<>>
      BY <3>3
    <3>4. CASE UNCHANGED batch
      BY <3>4 DEF TrainerTypes
    <3> QED
      BY <3>1, <3>2, <3>3, <3>4
  <2>6. trained' \in SUBSET Ids
    <3>1. \A k \in 1 .. Len(batch) : batch[k].id \in Ids
      <4>1. \A k \in 1 .. Len(batch) : batch[k] \in Trainable
        BY DEF TrainerTypes
      <4> QED
        BY <4>1 DEF Trainable, SampleNat, Ids, Done
    <3>2. \/ trained' = trained \cup {batch[k].id : k \in 1 .. Len(batch)}
          \/ UNCHANGED trained
      BY <1>0, TrainerSteps
    <3> QED
      BY <3>1, <3>2 DEF TrainerTypes
  <2>7. tp' = "got" => mq_ret'["trainer"] \in SampleNat
    <3>1. SUFFICES ASSUME tp' = "got"
                   PROVE  mq_ret'["trainer"] \in SampleNat
      OBVIOUS
    <3>2. TrainerGet
      BY <1>0, <3>1, TrainerSteps
    <3>3. queue # <<>> /\ mq_ret' = [mq_ret EXCEPT !["trainer"] = Head(queue)]
      BY <3>1, <3>2, TrainerGetCases
    <3> QED
      BY <3>3, HeadTailProperties DEF QueueTypes
  <2> QED
    BY <2>1, <2>2, <2>3, <2>4, <2>5, <2>6, <2>7 DEF TrainerTypes
<1> QED
  BY <1>1, <1>2, <1>3, <1>4

(* The initial states have the types.                                      *)
LEMMA InitTypes == PipelineInit => TypeInv
<1> SUFFICES ASSUME PipelineInit
             PROVE  TypeInv
  OBVIOUS
<1> USE DEF PipelineInit, Init
<1>1. LoopTypes /\ setup \in Setups
  BY DEF LoopTypes
<1>2. FlagTypes
  BY DEF FlagTypes
<1>3. FeedTypes
  <2>1. setup.pending_capacity \in Nat /\ TotalSamples \in Nat
    BY SizeAssumption
  <2> QED
    BY <2>1 DEF FeedTypes
<1>4. TaskTypes
  BY DEF TaskTypes, Phases, NotStarted
<1>5. PcTypes
  BY SizeAssumption DEF PcTypes, ProcessorPcs, MonitorPcs, MainPcs, RpcPcs, Done
<1>6. QueueTypes
  BY DEF QueueTypes
<1>7. TrainerTypes
  <2>1. setup.trigger_steps \in Nat \ {0}
    BY SetupTypes
  <2>2. local_trigger_step \in 1 .. setup.trigger_steps
    BY <2>1
  <2>3. tp \in TrainerPcs /\ tp # "got"
    BY DEF TrainerPcs
  <2>4. batch \in Seq(Trainable) /\ trained \in SUBSET Ids
    OBVIOUS
  <2>5. final \in BOOLEAN /\ version \in Nat
    OBVIOUS
  <2> QED
    BY <2>2, <2>3, <2>4, <2>5 DEF TrainerTypes
<1> QED
  BY <1>1, <1>2, <1>3, <1>4, <1>5, <1>6, <1>7 DEF TypeInv

(* The steps of the system, by actor.                                      *)
LEMMA NextCases ==
  ASSUME [Next]_vars
  PROVE  \/ /\ UNCHANGED <<setup, trainerVars>>
            /\ Feed \/ Processor \/ Main \/ Monitor \/ Rpc \/ \E i \in Ids : Task(i)
         \/ /\ UNCHANGED setup
            /\ Trainer \/ ValidateTask
         \/ UNCHANGED vars
  BY DEF Next, RollouterNext, Terminated

(* Every step keeps the types.                                             *)
LEMMA NextTypes ==
  ASSUME TypeInv, [Next]_vars
  PROVE  TypeInv'
<1>1. CASE UNCHANGED vars
  BY <1>1 DEF TypeInv, vars, rollouterVars, trainerVars, LoopTypes, lockVars, FlagTypes,
     flagVars, FeedTypes, sampleQueues, TaskTypes, taskVars, PcTypes, procVars, rpcVars,
     QueueTypes, mqVars, TrainerTypes
<1> QED
  BY <1>1, NextCases, FeedStepTypes, ProcessorTypes, MainTypes, MonitorTypes, RpcTypes,
     TaskStepTypes, TrainerStepTypes

(* The state of the pipeline always has its types.                         *)
THEOREM PipelineTypes == Spec => []TypeInv
  BY InitTypes, NextTypes, PTL DEF Spec
-----------------------------------------------------------------------------
(* The parameter synchronization.                                          *)

(* The hand-shake of the trainer with the rollouter: what each of the two  *)
(* may be doing while the other is somewhere in a synchronization, and the *)
(* exact distance of the three versions, trainer's, queue's, rollouter's.  *)
HandShake ==
  /\ tp = "pause" => rp \in PausePcs \cup {"paused"}
  /\ rp \in PausePcs => tp = "pause"
  /\ tp = "broadcast" => rp = "paused"
  /\ rp = "paused" => tp \in {"pause", "broadcast"}

VersionDistance ==
  /\ tp \in {"wait last", "pause"} => version = mq_version + 1
  /\ tp \notin {"wait last", "pause"} => version = mq_version
  /\ rp \in {"update", "updating"} \/ tp = "broadcast" =>
       mq_version = current_param_version + 1
  /\ ~(rp \in {"update", "updating"} \/ tp = "broadcast") =>
       mq_version = current_param_version
  /\ rp \in UpdatePcs => rpc_version = mq_version

SyncInv == HandShake /\ VersionDistance

(* Outside of the remote calls no step of the rollouter takes part.        *)
LEMMA SyncFrame ==
  ASSUME UNCHANGED trainerVars,
         Feed \/ Processor \/ Main \/ Monitor \/ \E i \in Ids : Task(i)
  PROVE  UNCHANGED <<tp, version, rp, rpc_version, mq_version, current_param_version>>
<1>1. CASE Feed
  BY <1>1, FeedFrame DEF trainerVars, rpcVars, mqVars, flagVars
<1>2. CASE Processor
  BY <1>2, ProcessorFrame DEF trainerVars, rpcVars, mqVars
<1>3. CASE Main
  BY <1>3, MainFrame DEF trainerVars, rpcVars
<1>4. CASE Monitor
  BY <1>4, MonitorFrame DEF trainerVars, rpcVars, mqVars
<1>5. CASE \E i \in Ids : Task(i)
  BY <1>5, TaskFrame DEF trainerVars, rpcVars, flagVars
<1> QED
  BY <1>1, <1>2, <1>3, <1>4, <1>5

CountPcs == {"queue size", "reset", "put validate"}
ResumePcs == {"updated", "resume", "resuming", "unpause"}

(* The progress of the remote calls.                                       *)
LEMMA RpcProgress ==
  ASSUME Rpc
  PROVE  \/ /\ rp \in PausePcs
            /\ rp' \in PausePcs \cup {"paused"}
            /\ UNCHANGED current_param_version
         \/ rp = "update" /\ rp' = "updating" /\ UNCHANGED current_param_version
         \/ rp = "updating" /\ rp' = "queue size" /\ current_param_version' = rpc_version
         \/ /\ rp \in CountPcs
            /\ rp' \in CountPcs \cup {"updated"}
            /\ UNCHANGED current_param_version
         \/ /\ rp \in ResumePcs
            /\ rp' \in ResumePcs \cup {"idle"}
            /\ UNCHANGED current_param_version
<1>1. CASE PauseCall \/ Pausing \/ PauseGathered \/ PauseReturns
  BY <1>1 DEF PauseCall, Pausing, PauseGathered, PauseReturns, PausePcs
<1>2. CASE UpdateCall
  BY <1>2 DEF UpdateCall
<1>3. CASE Updating
  BY <1>3 DEF Updating
<1>4. CASE UpdateQueueSize \/ UpdateReset \/ UpdatePutValidate
  BY <1>4 DEF UpdateQueueSize, UpdateReset, UpdatePutValidate, CountPcs, flagVars
<1>5. CASE UpdateReturns \/ ResumeCall \/ ResumeServers \/ ResumeReturns
  BY <1>5 DEF UpdateReturns, ResumeCall, ResumeServers, ResumeReturns, ResumePcs
<1> QED
  BY <1>1, <1>2, <1>3, <1>4, <1>5 DEF Rpc

(* The progress of the trainer, as far as the versions are concerned.      *)
LEMMA TrainerProgress ==
  ASSUME Trainer \/ ValidateTask
  PROVE  \/ /\ tp \notin {"wait last", "pause", "broadcast"}
            /\ tp' \notin {"wait last", "pause", "broadcast"}
            /\ UNCHANGED <<version, mq_version, rp, rpc_version>>
         \/ /\ tp \in {"train", "final wait"} /\ tp' = "wait last"
            /\ version' = version + 1
            /\ UNCHANGED <<mq_version, rp, rpc_version>>
         \/ /\ tp = "wait last" /\ tp' = "pause" /\ rp = "idle" /\ rp' = "pause"
            /\ UNCHANGED <<version, mq_version, rpc_version>>
         \/ /\ tp = "pause" /\ tp' = "broadcast" /\ rp = "paused" /\ mq_version' = version
            /\ UNCHANGED <<version, rp, rpc_version>>
         \/ /\ tp = "broadcast" /\ tp' \in {"validate", "end wait", "log"}
            /\ rp' = "update" /\ rpc_version' = version
            /\ UNCHANGED <<version, mq_version>>
<1>1. CASE TrainerGet
  BY <1>1 DEF TrainerGet, MQ!GetSample, MQ!GetSampleResumed, MQ!GetBody, rpcVars
<1>2. CASE TrainerGot \/ TrainerValidated
  BY <1>2 DEF TrainerGot, TrainerValidated, rpcVars, mqVars
<1>3. CASE TrainerStep
  BY <1>3 DEF TrainerStep, rpcVars, mqVars
<1>4. CASE StartSync
  BY <1>4 DEF StartSync, LastSyncOver, mqVars
<1>5. CASE Broadcast
  BY <1>5 DEF Broadcast, MQ!UpdateParamVersion, rpcVars
<1>6. CASE EndSync
  BY <1>6 DEF EndSync, mqVars
<1>7. CASE TrainerLog
  BY <1>7, AfterLogIsGet DEF TrainerLog, LogValidationData, MQ!GetValidate, rpcVars, mqVars
<1>8. CASE FinalWait
  BY <1>8 DEF FinalWait, LogValidationData, MQ!GetValidate, rpcVars, mqVars
<1>9. CASE EndWait
  BY <1>9 DEF EndWait, LogValidationData, MQ!GetValidate, rpcVars, mqVars
<1>10. CASE ValidateTask
  BY <1>10 DEF ValidateTask, rpcVars, mqVars
<1> QED
  BY <1>1, <1>2, <1>3, <1>4, <1>5, <1>6, <1>7, <1>8, <1>9, <1>10 DEF Trainer

(* Every step keeps the hand-shake and the distances.                      *)
LEMMA NextSync ==
  ASSUME TypeInv, SyncInv, [Next]_vars
  PROVE  SyncInv'
<1> USE DEF SyncInv
<1>0. /\ current_param_version \in Nat /\ version \in Nat
      /\ mq_version \in Nat /\ rpc_version \in Nat
  BY DEF TypeInv, FlagTypes, TrainerTypes, QueueTypes, PcTypes
<1>1. CASE UNCHANGED vars
  BY <1>1 DEF vars, trainerVars, rollouterVars, flagVars, rpcVars, mqVars, HandShake,
     VersionDistance
<1>2. CASE Rpc /\ UNCHANGED trainerVars
  <2>1. UNCHANGED <<tp, version, mq_version, rpc_version>>
    BY <1>2, RpcFrame DEF trainerVars
  <2>2. HandShake'
    BY <1>2, <2>1, RpcProgress DEF HandShake, PausePcs, CountPcs, ResumePcs
  <2>3. VersionDistance'
    <3> USE <1>0, <2>1 DEF HandShake, VersionDistance
    <3>1. CASE /\ rp \in PausePcs
               /\ rp' \in PausePcs \cup {"paused"}
               /\ UNCHANGED current_param_version
      BY <3>1 DEF PausePcs, UpdatePcs
    <3>2. CASE rp = "update" /\ rp' = "updating" /\ UNCHANGED current_param_version
      BY <3>2 DEF UpdatePcs
    <3>3. CASE /\ rp = "updating" /\ rp' = "queue size"
               /\ current_param_version' = rpc_version
      BY <3>3 DEF UpdatePcs
    <3>4. CASE /\ rp \in CountPcs
               /\ rp' \in CountPcs \cup {"updated"}
               /\ UNCHANGED current_param_version
      BY <3>4 DEF CountPcs, UpdatePcs
    <3>5. CASE /\ rp \in ResumePcs
               /\ rp' \in ResumePcs \cup {"idle"}
               /\ UNCHANGED current_param_version
      BY <3>5 DEF ResumePcs, UpdatePcs
    <3> QED
      BY <1>2, <3>1, <3>2, <3>3, <3>4, <3>5, RpcProgress
  <2> QED
    BY <2>2, <2>3
<1>3. CASE Trainer \/ ValidateTask
  <2>1. UNCHANGED current_param_version
    BY <1>3, TrainerFrame DEF flagVars
  <2>2. HandShake'
    BY <1>3, TrainerProgress DEF HandShake, PausePcs
  <2>3. VersionDistance'
    <3> USE <1>0, <2>1 DEF HandShake, VersionDistance
    <3>1. CASE /\ tp \notin {"wait last", "pause", "broadcast"}
               /\ tp' \notin {"wait last", "pause", "broadcast"}
               /\ UNCHANGED <<version, mq_version, rp, rpc_version>>
      BY <3>1
    <3>2. CASE /\ tp \in {"train", "final wait"} /\ tp' = "wait last"
               /\ version' = version + 1
               /\ UNCHANGED <<mq_version, rp, rpc_version>>
      BY <3>2
    <3>3. CASE /\ tp = "wait last" /\ tp' = "pause" /\ rp = "idle" /\ rp' = "pause"
               /\ UNCHANGED <<version, mq_version, rpc_version>>
      BY <3>3 DEF UpdatePcs
    <3>4. CASE /\ tp = "pause" /\ tp' = "broadcast" /\ rp = "paused"
               /\ mq_version' = version
               /\ UNCHANGED <<version, rp, rpc_version>>
      BY <3>4 DEF UpdatePcs
    <3>5. CASE /\ tp = "broadcast" /\ tp' \in {"validate", "end wait", "log"}
               /\ rp' = "update" /\ rpc_version' = version
               /\ UNCHANGED <<version, mq_version>>
      BY <3>5 DEF UpdatePcs
    <3> QED
      BY <1>3, <3>1, <3>2, <3>3, <3>4, <3>5, TrainerProgress
  <2> QED
    BY <2>2, <2>3
<1>4. CASE /\ Feed \/ Processor \/ Main \/ Monitor \/ \E i \in Ids : Task(i)
           /\ UNCHANGED trainerVars
  BY <1>4, SyncFrame DEF HandShake, VersionDistance
<1> QED
  BY <1>1, <1>2, <1>3, <1>4, NextCases

-----------------------------------------------------------------------------
(* They hold after the first synchronization.                              *)
LEMMA InitSync == PipelineInit => SyncInv
  BY DEF PipelineInit, Init, SyncInv, HandShake, VersionDistance, PausePcs, UpdatePcs
-----------------------------------------------------------------------------
(* The message queue and the versions of the samples.                      *)

(* put_sample: d oldest samples leave, none or one, and s is the newest.   *)
LEMMA PutSampleQueue ==
  ASSUME QueueTypes, NEW s \in SampleNat, MQ!PutSample(s)
  PROVE  \E d \in {0, 1} :
           /\ d <= Len(queue)
           /\ d = 1 <=> Len(queue) >= MaxRequired
           /\ mq_dropped' = mq_dropped + d
           /\ Len(queue') = Len(queue) - d + 1
           /\ \A k \in 1 .. Len(queue) - d : queue'[k] = queue[k + d]
           /\ queue'[Len(queue')] = s
<1>0. queue \in Seq(SampleNat) /\ Len(queue) \in Nat
  BY DEF QueueTypes
<1>1. CASE MQ!Full
  <2>1. queue # <<>> /\ Len(queue) >= 1
    BY <1>0, <1>1, SizeAssumption DEF MQ!Full
  <2>2. /\ Tail(queue) \in Seq(SampleNat)
        /\ Len(Tail(queue)) = Len(queue) - 1
        /\ \A k \in 1 .. Len(Tail(queue)) : Tail(queue)[k] = queue[k + 1]
    BY <1>0, <2>1, HeadTailProperties
  <2>3. queue' = Append(Tail(queue), s) /\ mq_dropped' = mq_dropped + 1
    BY <1>1 DEF MQ!PutSample
  <2>4. /\ Len(queue') = Len(Tail(queue)) + 1
        /\ \A k \in 1 .. Len(Tail(queue)) : queue'[k] = Tail(queue)[k]
        /\ queue'[Len(Tail(queue)) + 1] = s
    BY <2>2, <2>3, AppendProperties
  <2>5. \A k \in 1 .. Len(queue) - 1 : queue'[k] = queue[k + 1]
    BY <2>2, <2>4
  <2> QED
    BY <1>0, <1>1, <2>1, <2>2, <2>3, <2>4, <2>5 DEF MQ!Full
<1>2. CASE ~MQ!Full
  <2>1. queue' = Append(queue, s) /\ mq_dropped' = mq_dropped + 0
    BY <1>2 DEF MQ!PutSample
  <2>2. /\ Len(queue') = Len(queue) + 1
        /\ \A k \in 1 .. Len(queue) : queue'[k] = queue[k]
        /\ queue'[Len(queue) + 1] = s
    BY <1>0, <2>1, AppendProperties
  <2>3. \A k \in 1 .. Len(queue) - 0 : queue'[k] = queue[k + 0]
    BY <1>0, <2>2
  <2> QED
    BY <1>0, <1>2, <2>1, <2>2, <2>3 DEF MQ!Full
<1> QED
  BY <1>1, <1>2

(* A sample in the queue was there before or has just been put.            *)
LEMMA PutSampleMembers ==
  ASSUME QueueTypes, NEW s \in SampleNat, MQ!PutSample(s), NEW k \in 1 .. Len(queue')
  PROVE  queue'[k] = s \/ \E j \in 1 .. Len(queue) : queue'[k] = queue[j]
<1>1. PICK d \in {0, 1} :
           /\ d <= Len(queue)
           /\ Len(queue') = Len(queue) - d + 1
           /\ \A j \in 1 .. Len(queue) - d : queue'[j] = queue[j + d]
           /\ queue'[Len(queue')] = s
  BY PutSampleQueue
<1>2. Len(queue) \in Nat
  BY DEF QueueTypes
<1>3. CASE k = Len(queue')
  BY <1>1, <1>3
<1>4. CASE k # Len(queue')
  <2>1. k \in 1 .. Len(queue) - d
    BY <1>1, <1>2, <1>4
  <2>2. k + d \in 1 .. Len(queue)
    BY <1>1, <1>2, <2>1
  <2> QED
    BY <1>1, <2>1, <2>2
<1> QED
  BY <1>3, <1>4

(* What the tasks and the main coroutine put.                              *)
LEMMA PutTypes ==
  ASSUME TypeInv
  PROVE  /\ [id |-> Done, born |-> 0, version |-> current_param_version] \in SampleNat
         /\ \A i \in Ids : phase[i] = "put" =>
              [id |-> i, born |-> born[i], version |-> stamp[i]] \in SampleNat
<1>1. [id |-> Done, born |-> 0, version |-> current_param_version] \in SampleNat
  BY SizeAssumption DEF TypeInv, SampleNat, FlagTypes, Done
<1>2. ASSUME NEW i \in Ids, phase[i] = "put"
      PROVE  [id |-> i, born |-> born[i], version |-> stamp[i]] \in SampleNat
  <2>1. i \in 0 .. TotalSamples
    BY SizeAssumption DEF Ids
  <2>2. born[i] \in Nat /\ stamp[i] \in Nat
    BY <1>2 DEF TypeInv, TaskTypes
  <2> QED
    BY <2>1, <2>2 DEF SampleNat
<1> QED
  BY <1>1, <1>2

(* The steps that change the queue.                                        *)
LEMMA QueueSteps ==
  ASSUME TypeInv, [Next]_vars
  PROVE  \/ UNCHANGED queue
         \/ TrainerGet /\ queue # <<>> /\ queue' = Tail(queue)
         \/ MainPutNone
         \/ \E i \in Ids : TaskPut(i)
<1>1. CASE UNCHANGED vars
  BY <1>1 DEF vars, rollouterVars, mqVars
<1>2. CASE Feed \/ Processor \/ Monitor \/ Rpc
  BY <1>2, FeedFrame, ProcessorFrame, MonitorFrame, RpcFrame DEF mqVars
<1>3. CASE Main
  BY <1>3 DEF Main, MainStop, MainStopped, mqVars
<1>4. CASE \E i \in Ids : Task(i)
  BY <1>4 DEF Task, TaskGenerated, TaskDone, TaskCancelled, TaskRaises, mqVars
<1>5. CASE Trainer \/ ValidateTask
  <2>1. CASE TrainerGet
    BY <2>1, TrainerGetCases DEF TypeInv
  <2>2. CASE ~TrainerGet
    BY <1>5, <2>2, TrainerSteps DEF TypeInv, TrainerTypes
  <2> QED
    BY <2>1, <2>2
<1> QED
  BY <1>1, <1>2, <1>3, <1>4, <1>5, NextCases

(* The steps that change the samples' stamps.                              *)
LEMMA StampSteps ==
  ASSUME TypeInv, [Next]_vars
  PROVE  /\ \/ UNCHANGED stamp
            \/ \E i \in Ids : TaskGenerated(i)
         /\ \/ UNCHANGED born
            \/ ProcessorSubmit
<1>1. CASE UNCHANGED vars
  BY <1>1 DEF vars, rollouterVars, taskVars
<1>2. CASE Feed \/ Main \/ Monitor \/ Rpc
  BY <1>2, FeedFrame, MainFrame, MonitorFrame, RpcFrame DEF taskVars
<1>3. CASE Processor
  BY <1>3, ProcessorFrame, ProcessorSteps
<1>4. CASE \E i \in Ids : Task(i)
  BY <1>4, TaskFrame DEF Task, TaskPut, TaskDone, TaskCancelled, TaskRaises
<1>5. CASE Trainer \/ ValidateTask
  BY <1>5, TrainerFrame DEF taskVars
<1> QED
  BY <1>1, <1>2, <1>3, <1>4, <1>5, NextCases

(* The rollouter's version never goes back.                                *)
LEMMA VersionGrows ==
  ASSUME TypeInv, SyncInv, [Next]_vars
  PROVE  /\ current_param_version' \in Nat
         /\ current_param_version <= current_param_version'
<1>0. /\ current_param_version \in Nat /\ mq_version \in Nat
  BY DEF TypeInv, FlagTypes, QueueTypes
<1>1. CASE Rpc
  <2>1. rp = "updating" => rpc_version = current_param_version + 1
    BY DEF SyncInv, VersionDistance, UpdatePcs
  <2>2. current_param_version' \in {current_param_version, current_param_version + 1}
    BY <1>1, <2>1, RpcProgress
  <2> QED
    BY <1>0, <2>2
<1>2. CASE UNCHANGED current_param_version
  BY <1>0, <1>2
<1>3. CASE Feed \/ Processor \/ Main \/ Monitor \/ (\E i \in Ids : Task(i))
             \/ Trainer \/ ValidateTask
  BY <1>2, <1>3, FeedFrame, ProcessorFrame, MainFrame, MonitorFrame, TaskFrame,
     TrainerFrame DEF flagVars
<1> QED
  BY <1>1, <1>2, <1>3, NextCases DEF vars, rollouterVars, flagVars

(* No sample is stamped with a version that the rollouter has not got.     *)
TasksStamped ==
  \A i \in Ids : stamp[i] <= current_param_version /\ born[i] <= current_param_version
QueueStamped ==
  \A k \in 1 .. Len(queue) : /\ queue[k].version <= current_param_version
                             /\ queue[k].born <= current_param_version
StampInv == TasksStamped /\ QueueStamped

(* Every step keeps the stamps within the version reached.                 *)
LEMMA NextStamps ==
  ASSUME TypeInv, SyncInv, StampInv, [Next]_vars
  PROVE  StampInv'
<1> USE DEF StampInv
<1>0. /\ stamp \in [Ids -> Nat] /\ born \in [Ids -> Nat \cup {NotStarted}]
      /\ queue \in Seq(SampleNat) /\ current_param_version \in Nat
  BY DEF TypeInv, TaskTypes, QueueTypes, FlagTypes
<1>1. TasksStamped'
  <2> SUFFICES ASSUME NEW i \in Ids
               PROVE  stamp'[i] <= current_param_version' /\ born'[i] <= current_param_version'
    BY DEF TasksStamped
  <2>1. stamp[i] \in Nat /\ born[i] \in Nat \cup {-1}
    BY <1>0 DEF NotStarted
  <2>2. stamp'[i] \in {stamp[i], current_param_version}
    BY <1>0, StampSteps DEF TaskGenerated
  <2>3. born'[i] \in {born[i], current_param_version}
    BY <1>0, StampSteps DEF ProcessorSubmit
  <2> QED
    BY <1>0, <2>1, <2>2, <2>3, VersionGrows DEF TasksStamped
<1>2. QueueStamped'
  <2> SUFFICES ASSUME NEW k \in 1 .. Len(queue')
               PROVE  /\ queue'[k].version <= current_param_version'
                      /\ queue'[k].born <= current_param_version'
    BY DEF QueueStamped
  <2>1. \A j \in 1 .. Len(queue) : /\ queue[j].version \in Nat /\ queue[j].born \in Nat
                                   /\ queue[j].version <= current_param_version
                                   /\ queue[j].born <= current_param_version
    <3>1. \A j \in 1 .. Len(queue) : queue[j] \in SampleNat
      BY <1>0
    <3> QED
      BY <3>1 DEF SampleNat, QueueStamped
  <2>2. CASE \E j \in 1 .. Len(queue) : queue'[k] = queue[j]
    BY <1>0, <2>1, <2>2, VersionGrows
  <2>3. CASE MainPutNone
    <3>1. MQ!PutSample([id |-> Done, born |-> 0, version |-> current_param_version])
      BY <2>3 DEF MainPutNone
    <3>2. CASE queue'[k] = [id |-> Done, born |-> 0, version |-> current_param_version]
      BY <1>0, <3>2, VersionGrows
    <3> QED
      BY <2>2, <3>1, <3>2, PutTypes, PutSampleMembers DEF TypeInv
  <2>4. CASE \E i \in Ids : TaskPut(i)
    <3>1. PICK i \in Ids : TaskPut(i)
      BY <2>4
    <3> DEFINE s == [id |-> i, born |-> born[i], version |-> stamp[i]]
    <3>2. MQ!PutSample(s) /\ phase[i] = "put"
      BY <3>1 DEF TaskPut
    <3>3. s \in SampleNat
      BY <3>2, PutTypes
    <3>4. s.version \in Nat /\ s.born \in Nat
          /\ s.version <= current_param_version /\ s.born <= current_param_version
      <4>1. s.version = stamp[i] /\ s.born = born[i]
        OBVIOUS
      <4>2. s.version \in Nat /\ s.born \in Nat
        BY <3>3 DEF SampleNat
      <4> QED
        BY <4>1, <4>2 DEF TasksStamped
    <3> HIDE DEF s
    <3>5. CASE queue'[k] = s
      BY <1>0, <3>4, <3>5, VersionGrows
    <3> QED
      BY <2>2, <3>2, <3>3, <3>5, PutSampleMembers DEF TypeInv
  <2>5. CASE TrainerGet /\ queue # <<>> /\ queue' = Tail(queue)
    <3>1. Len(queue') = Len(queue) - 1 /\ Len(queue) \in Nat
          /\ \A j \in 1 .. Len(queue') : queue'[j] = queue[j + 1]
      BY <1>0, <2>5, HeadTailProperties
    <3>2. k + 1 \in 1 .. Len(queue) /\ queue'[k] = queue[k + 1]
      BY <3>1
    <3> QED
      BY <2>2, <3>2
  <2>6. CASE UNCHANGED queue
    BY <2>2, <2>6
  <2> QED
    BY <2>3, <2>4, <2>5, <2>6, QueueSteps
<1> QED
  BY <1>1, <1>2

(* Nothing is stamped at first.                                            *)
LEMMA InitStamps == PipelineInit => StampInv
<1> SUFFICES ASSUME PipelineInit
             PROVE  StampInv
  OBVIOUS
<1>1. TasksStamped
  BY DEF PipelineInit, Init, TasksStamped, NotStarted
<1>2. QueueStamped
  BY DEF PipelineInit, Init, QueueStamped
<1> QED
  BY <1>1, <1>2 DEF StampInv

(* The two invariants together are inductive.                              *)
THEOREM SynchronizationInvariant == Spec => [](TypeInv /\ SyncInv /\ StampInv)
<1>1. PipelineInit => TypeInv /\ SyncInv /\ StampInv
  BY InitTypes, InitSync, InitStamps
<1>2. TypeInv /\ SyncInv /\ StampInv /\ [Next]_vars => (TypeInv /\ SyncInv /\ StampInv)'
  BY NextTypes, NextSync, NextStamps
<1> QED
  BY <1>1, <1>2, PTL DEF Spec

(* A synchronization starts only when the previous one is over: outside of *)
(* the wait for it the rollouter is at most one version behind the         *)
(* trainer, the queue actor lies between the two, and no queued sample is  *)
(* stamped with a version of the future.                                   *)
THEOREM VersionsStayInStep == Spec => []VersionsInStep
<1>1. TypeInv /\ SyncInv /\ StampInv => VersionsInStep
  <2> SUFFICES ASSUME TypeInv, SyncInv, StampInv
               PROVE  VersionsInStep
    OBVIOUS
  <2>1. /\ current_param_version \in Nat /\ version \in Nat /\ mq_version \in Nat
    BY DEF TypeInv, FlagTypes, TrainerTypes, QueueTypes
  <2>2. \A k \in 1 .. Len(queue) : queue[k].version <= current_param_version
    BY DEF StampInv, QueueStamped
  <2>3. /\ mq_version = current_param_version \/ mq_version = current_param_version + 1
        /\ version = mq_version \/ version = mq_version + 1
    BY DEF SyncInv, VersionDistance
  <2> DEFINE lag == IF tp = "wait last" THEN 2 ELSE 1
  <2>4. ASSUME tp = "wait last" PROVE version <= current_param_version + lag
    <3>1. lag = 2
      BY <2>4
    <3> HIDE DEF lag
    <3> QED
      BY <2>1, <2>3, <3>1
  <2>5. ASSUME tp # "wait last" PROVE version <= current_param_version + lag
    <3>0. lag = 1
      BY <2>5
    <3> HIDE DEF lag
    <3>1. mq_version = current_param_version \/ version = mq_version
      BY <2>5 DEF SyncInv, VersionDistance, HandShake, PausePcs
    <3> QED
      BY <2>1, <2>3, <3>0, <3>1
  <2>6. version <= current_param_version + lag
    BY <2>4, <2>5
  <2>7. current_param_version <= mq_version /\ mq_version <= version
    BY <2>1, <2>3
  <2> QED
    BY <2>2, <2>6, <2>7 DEF VersionsInStep
<1> QED
  BY <1>1, SynchronizationInvariant, PTL
-----------------------------------------------------------------------------
(* The lag of the validation log.                                          *)

(* The results up to version b are logged, the next ones are queued.       *)
LoggedTo(b) ==
  /\ \A k \in 1 .. Len(mq_val) : mq_val[k] = b + k
  /\ logged = 0 .. b

(* The result of a version is put in the course of update_param_version,   *)
(* after the broadcast that made it the queue's version.                   *)
ResultOutstanding == rp \in UpdatePcs \/ tp = "broadcast"

(* Where the trainer has just logged, or will not train any more before it *)
(* logs again.                                                             *)
AfterLogPcs == {"start", "get", "got", "train", "final wait", "end wait", "end"}

(* Every result that was put is logged or queued, and how far the log has  *)
(* come depends on where the trainer is.                                   *)
LogPosition(b) ==
  /\ ResultOutstanding => b + Len(mq_val) = mq_version - 1
  /\ ~ResultOutstanding => b + Len(mq_val) = mq_version
  /\ b >= -1 /\ b >= version - 2
  /\ final \/ tp \in AfterLogPcs => b >= version - 1
  /\ tp = "end" => b = version

(* The loop ends once: no training after it.                               *)
FinalInv ==
  /\ final => tp \in {"final wait", "wait last", "pause", "broadcast", "validate",
                      "end wait", "end"}
  /\ tp \in {"final wait", "end wait", "end"} => final

ValidationInv == FinalInv /\ \E b \in Int : LoggedTo(b) /\ LogPosition(b)

(* The loop ends once.                                                     *)
LEMMA NextFinal ==
  ASSUME TypeInv, FinalInv, [Next]_vars
  PROVE  FinalInv'
<1>1. CASE UNCHANGED trainerVars
  BY <1>1 DEF FinalInv, trainerVars
<1>2. CASE Trainer \/ ValidateTask
  <2>1. CASE TrainerGet
    BY <2>1 DEF TrainerGet, FinalInv
  <2>2. CASE TrainerGot
    <3>1. /\ tp = "got"
          /\ \/ tp' \in {"train", "get"} /\ final' = final
             \/ tp' = "final wait" /\ final' = TRUE
      BY <2>2 DEF TrainerGot
    <3>2. ~final
      BY <3>1 DEF FinalInv
    <3>3. CASE tp' \in {"train", "get"} /\ final' = final
      BY <3>2, <3>3 DEF FinalInv
    <3>4. CASE tp' = "final wait" /\ final' = TRUE
      BY <3>4 DEF FinalInv
    <3> QED
      BY <3>1, <3>3, <3>4
  <2>3. CASE TrainerStep
    BY <2>3 DEF TrainerStep, FinalInv
  <2>4. CASE StartSync \/ Broadcast \/ TrainerValidated
    <3>1. /\ final' = final
          /\ \/ tp = "wait last" /\ tp' = "pause"
             \/ tp = "pause" /\ tp' = "broadcast"
             \/ tp = "validate" /\ tp' = "end wait" /\ final
             \/ tp = "validate" /\ tp' = "log" /\ ~final
      BY <2>4 DEF StartSync, Broadcast, TrainerValidated
    <3> QED
      BY <3>1 DEF FinalInv
  <2>5. CASE EndSync
    BY <2>5 DEF EndSync, FinalInv
  <2>6. CASE FinalWait \/ EndWait
    BY <2>6 DEF FinalWait, EndWait, FinalInv
  <2>7. CASE ValidateTask
    BY <2>7 DEF ValidateTask, FinalInv
  <2>8. CASE TrainerLog
    BY <2>8, AfterLogIsGet DEF TrainerLog, FinalInv
  <2> QED
    BY <1>2, <2>1, <2>2, <2>3, <2>4, <2>5, <2>6, <2>7, <2>8 DEF Trainer
<1> QED
  BY <1>1, <1>2, NextCases DEF vars

(* Logging moves the position by one, unless nothing is queued.            *)
LEMMA LoggingMoves ==
  ASSUME TypeInv, NEW b \in Int, b >= -1, LoggedTo(b), LogValidationData
  PROVE  \E c \in {b, b + 1} :
           /\ LoggedTo(c)'
           /\ c + Len(mq_val') = b + Len(mq_val)
           /\ c = b => Len(mq_val) = 0
<1>0. mq_val \in Seq(Nat) /\ Len(mq_val) \in Nat
  BY DEF TypeInv, QueueTypes
<1>1. CASE mq_val = <<>>
  <2>1. LoggedTo(b)' /\ mq_val' = mq_val /\ Len(mq_val) = 0
    BY <1>1 DEF LogValidationData, LoggedTo, mqVars
  <2> QED
    BY <2>1
<1>2. CASE mq_val # <<>>
  <2>1. /\ mq_val' = Tail(mq_val)
        /\ logged' = logged \cup {Head(mq_val)}
    BY <1>2 DEF LogValidationData, MQ!GetValidate
  <2>2. /\ Len(mq_val') = Len(mq_val) - 1 /\ Len(mq_val) >= 1
        /\ Head(mq_val) = mq_val[1]
        /\ \A k \in 1 .. Len(mq_val') : mq_val'[k] = mq_val[k + 1]
    BY <1>0, <1>2, <2>1, HeadTailProperties
  <2>3. logged' = 0 .. (b + 1)
    <3>1. Head(mq_val) = b + 1
      BY <1>0, <2>2 DEF LoggedTo
    <3>2. 0 .. (b + 1) = (0 .. b) \cup {b + 1}
      OBVIOUS
    <3> QED
      BY <2>1, <3>1, <3>2 DEF LoggedTo
  <2>4. \A k \in 1 .. Len(mq_val') : mq_val'[k] = (b + 1) + k
    <3> SUFFICES ASSUME NEW k \in 1 .. Len(mq_val')
                 PROVE  mq_val'[k] = (b + 1) + k
      OBVIOUS
    <3>1. k + 1 \in 1 .. Len(mq_val)
      BY <1>0, <2>2
    <3> QED
      BY <2>2, <3>1 DEF LoggedTo
  <2>5. LoggedTo(b + 1)'
    BY <2>3, <2>4 DEF LoggedTo
  <2> QED
    BY <1>0, <2>2, <2>5
<1> QED
  BY <1>1, <1>2

(* The steps after which the trainer has logged what there was.            *)
LEMMA TrainerLogs ==
  ASSUME TypeInv, SyncInv, FinalInv, TrainerLog \/ FinalWait \/ EndWait
  PROVE  /\ LogValidationData
         /\ UNCHANGED <<mq_version, rp, final>>
         /\ tp \in {"start", "log", "final wait", "end wait"}
         /\ version = mq_version
         /\ \/ /\ tp \in {"start", "log"} /\ tp' = "get" /\ ~final
               /\ UNCHANGED version
            \/ /\ tp = "final wait" /\ tp' = "wait last" /\ rp = "idle" /\ final
               /\ version' = version + 1
            \/ /\ tp \in {"final wait", "end wait"} /\ tp' = "end" /\ rp = "idle" /\ final
               /\ UNCHANGED version
<1>1. LogValidationData
  BY DEF TrainerLog, FinalWait, EndWait
<1>2. UNCHANGED <<mq_version, rp, final>>
  BY <1>1 DEF TrainerLog, FinalWait, EndWait, LogValidationData, MQ!GetValidate, rpcVars,
     mqVars
<1>3. \/ tp \in {"start", "log"} /\ tp' = "get" /\ UNCHANGED version
      \/ tp = "final wait" /\ tp' = "wait last" /\ rp = "idle" /\ version' = version + 1
      \/ tp \in {"final wait", "end wait"} /\ tp' = "end" /\ rp = "idle" /\ UNCHANGED version
  BY AfterLogIsGet DEF TrainerLog, FinalWait, EndWait, LastSyncOver
<1>4. version = mq_version
  BY <1>3 DEF SyncInv, VersionDistance
<1> QED
  BY <1>1, <1>2, <1>3, <1>4 DEF FinalInv

(* Every step keeps the position of the log.                               *)
LEMMA NextValidation ==
  ASSUME TypeInv, SyncInv, ValidationInv, [Next]_vars
  PROVE  ValidationInv'
<1>0. FinalInv /\ FinalInv'
  BY NextFinal DEF ValidationInv
<1>1. PICK b \in Int : LoggedTo(b) /\ LogPosition(b)
  BY DEF ValidationInv
<1>2. /\ version \in Nat /\ mq_version \in Nat /\ mq_val \in Seq(Nat)
      /\ Len(mq_val) \in Nat /\ b \in Int
  BY <1>1 DEF TypeInv, TrainerTypes, QueueTypes
<1>3. CASE /\ UNCHANGED <<mq_val, logged, mq_version, version, tp, final>>
           /\ rp' \in UpdatePcs <=> rp \in UpdatePcs
  <2>1. LoggedTo(b)' /\ LogPosition(b)'
    BY <1>1, <1>3 DEF LoggedTo, LogPosition, ResultOutstanding
  <2> QED
    BY <1>0, <2>1 DEF ValidationInv
<1>4. CASE UNCHANGED vars
  BY <1>3, <1>4 DEF vars, trainerVars, rollouterVars, mqVars, rpcVars
<1>5. CASE /\ UNCHANGED trainerVars
           /\ Feed \/ Processor \/ Main \/ Monitor \/ \E i \in Ids : Task(i)
  <2>1. UNCHANGED <<mq_val, mq_version, rp>>
    BY <1>5, FeedFrame, ProcessorFrame, MainFrame, MonitorFrame, TaskFrame
       DEF mqVars, rpcVars
  <2> QED
    BY <1>3, <1>5, <2>1 DEF trainerVars
<1>6. CASE Rpc /\ UNCHANGED trainerVars
  <2>0. UNCHANGED <<mq_version, rpc_version>>
    BY <1>6, RpcFrame
  <2>1. CASE UpdatePutValidate
    <3>1. mq_val' = Append(mq_val, mq_version)
      BY <2>1 DEF UpdatePutValidate, MQ!PutValidate, SyncInv, VersionDistance, UpdatePcs
    <3>2. ResultOutstanding /\ ~ResultOutstanding'
      <4>1. rp = "put validate" /\ rp' = "updated"
        BY <2>1 DEF UpdatePutValidate
      <4>2. tp' = tp /\ tp # "broadcast"
        BY <1>6, <4>1 DEF trainerVars, SyncInv, HandShake
      <4> QED
        BY <4>1, <4>2 DEF ResultOutstanding, UpdatePcs
    <3>3. /\ Len(mq_val') = Len(mq_val) + 1
          /\ \A k \in 1 .. Len(mq_val) : mq_val'[k] = mq_val[k]
          /\ mq_val'[Len(mq_val) + 1] = mq_version
      BY <1>2, <3>1, AppendProperties
    <3>4. b + Len(mq_val) = mq_version - 1
      BY <1>1, <3>2 DEF LogPosition
    <3>5. \A k \in 1 .. Len(mq_val') : mq_val'[k] = b + k
      BY <1>1, <1>2, <3>3, <3>4 DEF LoggedTo
    <3>6. LoggedTo(b)'
      BY <1>1, <1>6, <3>5 DEF LoggedTo, trainerVars
    <3>7. b + Len(mq_val') = mq_version'
      BY <1>2, <2>0, <3>3, <3>4
    <3>8. LogPosition(b)'
      BY <1>1, <1>6, <3>2, <3>7 DEF LogPosition, trainerVars
    <3> QED
      BY <1>0, <3>6, <3>8 DEF ValidationInv
  <2>2. CASE ~UpdatePutValidate
    <3>1. UNCHANGED mq_val
      BY <1>6, <2>2 DEF Rpc, RpcUnchanged, PauseCall, Pausing, PauseGathered,
         PauseReturns, UpdateCall, Updating, UpdateQueueSize, UpdateReset, UpdateReturns,
         ResumeCall, ResumeServers, ResumeReturns, mqVars
    <3>2. rp' \in UpdatePcs <=> rp \in UpdatePcs
      BY <1>6, <2>2 DEF Rpc, PauseCall, Pausing, PauseGathered,
         PauseReturns, UpdateCall, Updating, UpdateQueueSize, UpdateReset, UpdateReturns,
         ResumeCall, ResumeServers, ResumeReturns, UpdatePcs
    <3> QED
      BY <1>3, <1>6, <2>0, <3>1, <3>2 DEF trainerVars
  <2> QED
    BY <2>1, <2>2
<1>7. CASE TrainerLog \/ FinalWait \/ EndWait
  <2>1. PICK c \in {b, b + 1} : /\ LoggedTo(c)'
                                /\ c + Len(mq_val') = b + Len(mq_val)
                                /\ c = b => Len(mq_val) = 0
    BY <1>1, <1>2, <1>7, LoggingMoves, TrainerLogs DEF ValidationInv, LogPosition
  <2>2. UNCHANGED <<mq_version, rp, final>> /\ version = mq_version
    BY <1>7, TrainerLogs DEF ValidationInv
  <2>3. ResultOutstanding' <=> ResultOutstanding
    BY <1>7, <2>2, TrainerLogs DEF ValidationInv, ResultOutstanding
  <2>4. /\ b + Len(mq_val) = mq_version \/ b + Len(mq_val) = mq_version - 1
        /\ b >= -1 /\ b >= version - 2
    BY <1>1 DEF LogPosition
  <2>5. c >= version - 1 /\ c >= -1 /\ c \in Int
    BY <1>2, <2>1, <2>2, <2>4
  <2>6. /\ ResultOutstanding' => c + Len(mq_val') = mq_version' - 1
        /\ ~ResultOutstanding' => c + Len(mq_val') = mq_version'
    BY <1>1, <2>1, <2>2, <2>3 DEF LogPosition
  <2>7. CASE tp \in {"start", "log"} /\ tp' = "get" /\ ~final /\ UNCHANGED version
    <3>1. c >= -1 /\ c >= version' - 2 /\ c >= version' - 1
      BY <1>2, <2>5, <2>7
    <3>2. LogPosition(c)'
      BY <2>6, <2>7, <3>1 DEF LogPosition
    <3> QED
      BY <1>0, <2>1, <2>5, <3>2 DEF ValidationInv
  <2>8. CASE final /\ rp = "idle" /\ tp \in {"final wait", "end wait"}
    <3>1. b + Len(mq_val) = mq_version /\ b >= version - 1
      BY <1>1, <2>8 DEF LogPosition, ResultOutstanding, AfterLogPcs, UpdatePcs
    <3>2. c = version
      <4>1. Len(mq_val') \in Nat
        BY NextTypes DEF TypeInv, QueueTypes
      <4> QED
        BY <1>2, <2>1, <2>2, <3>1, <4>1
    <3>3. CASE tp' = "wait last" /\ version' = version + 1
      <4>0. version' = version + 1
        BY <3>3
      <4>1. c >= -1 /\ c >= version' - 2 /\ c >= version' - 1
        BY <1>2, <3>2, <4>0
      <4>2. LogPosition(c)'
        BY <2>6, <3>3, <4>1 DEF LogPosition
      <4> QED
        BY <1>0, <2>1, <2>5, <4>2 DEF ValidationInv
    <3>4. CASE tp' = "end" /\ UNCHANGED version
      <4>1. c >= -1 /\ c >= version' - 2 /\ c >= version' - 1 /\ c = version'
        BY <1>2, <3>2, <3>4
      <4>2. LogPosition(c)'
        BY <2>6, <4>1 DEF LogPosition
      <4> QED
        BY <1>0, <2>1, <2>5, <4>2 DEF ValidationInv
    <3> QED
      BY <1>7, <2>8, <3>3, <3>4, TrainerLogs DEF ValidationInv
  <2> QED
    BY <1>7, <2>7, <2>8, TrainerLogs DEF ValidationInv
<1> DEFINE Kept == UNCHANGED <<mq_val, logged>>
<1>8. ASSUME Kept, LogPosition(b)'
      PROVE  ValidationInv'
  BY <1>0, <1>1, <1>8 DEF ValidationInv, LoggedTo
<1>9. CASE TrainerGet
  <2>1. Kept /\ UNCHANGED <<mq_version, version, rp, final>>
    BY <1>9 DEF TrainerGet, MQ!GetSample, MQ!GetSampleResumed, MQ!GetBody, rpcVars
  <2>2. tp = "get" /\ tp' \in {"get", "got"}
    BY <1>9 DEF TrainerGet
  <2>3. LogPosition(b)'
    BY <1>1, <2>1, <2>2 DEF LogPosition, ResultOutstanding, AfterLogPcs
  <2> QED
    BY <1>8, <2>1, <2>3
<1>10. CASE TrainerGot
  <2>1. Kept /\ UNCHANGED <<mq_version, version, rp>>
    BY <1>10 DEF TrainerGot, rpcVars, mqVars
  <2>2. tp = "got" /\ tp' \in {"get", "train", "final wait"}
    BY <1>10 DEF TrainerGot
  <2>3. LogPosition(b)'
    BY <1>1, <2>1, <2>2 DEF LogPosition, ResultOutstanding, AfterLogPcs
  <2> QED
    BY <1>8, <2>1, <2>3
<1>11. CASE TrainerStep
  <2>1. Kept /\ UNCHANGED <<mq_version, rp, final>>
    BY <1>11 DEF TrainerStep, rpcVars, mqVars
  <2>2. /\ tp = "train"
        /\ \/ tp' = "log" /\ UNCHANGED version
           \/ tp' = "wait last" /\ version' = version + 1
    BY <1>11 DEF TrainerStep
  <2>3. ~final
    BY <1>0, <2>2 DEF FinalInv
  <2>4. b >= version - 1
    BY <1>1, <2>2 DEF LogPosition, AfterLogPcs
  <2>5. b >= version' - 2
    <3>1. version' = version \/ version' = version + 1
      BY <2>2
    <3>2. CASE version' = version
      BY <1>2, <2>4, <3>2
    <3>3. CASE version' = version + 1
      BY <1>2, <2>4, <3>3
    <3> QED
      BY <3>1, <3>2, <3>3
  <2>6. LogPosition(b)'
    BY <1>1, <2>1, <2>2, <2>3, <2>5 DEF LogPosition, ResultOutstanding, AfterLogPcs
  <2> QED
    BY <1>8, <2>1, <2>6
<1>12. CASE StartSync
  <2>1. Kept /\ UNCHANGED <<mq_version, version, final>>
    BY <1>12 DEF StartSync, mqVars
  <2>2. tp = "wait last" /\ tp' = "pause" /\ rp = "idle" /\ rp' = "pause"
    BY <1>12 DEF StartSync, LastSyncOver
  <2>3. LogPosition(b)'
    BY <1>1, <2>1, <2>2 DEF LogPosition, ResultOutstanding, AfterLogPcs, UpdatePcs
  <2> QED
    BY <1>8, <2>1, <2>3
<1>13. CASE Broadcast
  <2>1. Kept /\ UNCHANGED <<version, rp, final>>
    BY <1>13 DEF Broadcast, MQ!UpdateParamVersion, rpcVars
  <2>2. tp = "pause" /\ tp' = "broadcast" /\ rp = "paused" /\ mq_version' = version
    BY <1>13 DEF Broadcast, MQ!UpdateParamVersion
  <2>3. version = mq_version + 1
    BY <2>2 DEF SyncInv, VersionDistance
  <2>4. b + Len(mq_val) = mq_version
    BY <1>1, <2>2 DEF LogPosition, ResultOutstanding, UpdatePcs
  <2>5. b + Len(mq_val') = mq_version' - 1
    BY <1>2, <2>1, <2>2, <2>3, <2>4
  <2>6. LogPosition(b)'
    BY <1>1, <2>1, <2>2, <2>5 DEF LogPosition, ResultOutstanding, AfterLogPcs
  <2> QED
    BY <1>8, <2>1, <2>6
<1>14. CASE EndSync
  <2>1. Kept /\ UNCHANGED <<mq_version, version, final>>
    BY <1>14 DEF EndSync, mqVars
  <2>2. tp = "broadcast" /\ tp' \in {"validate", "end wait", "log"} /\ rp' = "update"
    BY <1>14 DEF EndSync
  <2>3. LogPosition(b)'
    BY <1>0, <1>1, <2>1, <2>2 DEF LogPosition, ResultOutstanding, AfterLogPcs, UpdatePcs,
       FinalInv
  <2> QED
    BY <1>8, <2>1, <2>3
<1>15. CASE TrainerValidated \/ ValidateTask
  <2>1. Kept /\ UNCHANGED <<mq_version, version, rp, final>>
    BY <1>15 DEF TrainerValidated, ValidateTask, mqVars, rpcVars
  <2>2. tp' = tp \/ (tp = "validate" /\ tp' \in {"end wait", "log"})
    BY <1>15 DEF TrainerValidated, ValidateTask
  <2>3. LogPosition(b)'
    BY <1>0, <1>1, <2>1, <2>2 DEF LogPosition, ResultOutstanding, AfterLogPcs, UpdatePcs,
       FinalInv
  <2> QED
    BY <1>8, <2>1, <2>3
<1> QED
  BY <1>4, <1>5, <1>6, <1>7, <1>9, <1>10, <1>11, <1>12, <1>13, <1>14, <1>15, NextCases
     DEF Trainer

(* At first the result of version 0 is queued and nothing is logged.       *)
LEMMA InitValidation == PipelineInit => ValidationInv
<1> SUFFICES ASSUME PipelineInit
             PROVE  ValidationInv
  OBVIOUS
<1>1. mq_val = <<0>> /\ Len(mq_val) = 1 /\ mq_val[1] = 0 /\ logged = {}
  BY DEF PipelineInit, Init
<1>2. LoggedTo(-1)
  <2>1. \A k \in 1 .. Len(mq_val) : mq_val[k] = -1 + k
    BY <1>1
  <2> QED
    BY <1>1, <2>1 DEF LoggedTo
<1>3. /\ version = 0 /\ mq_version = 0 /\ tp = "start" /\ rp = "idle" /\ ~final
  BY DEF PipelineInit, Init
<1>4. LogPosition(-1)
  BY <1>1, <1>3 DEF LogPosition, ResultOutstanding, UpdatePcs
<1>5. FinalInv
  BY <1>3 DEF FinalInv
<1> QED
  BY <1>2, <1>4, <1>5 DEF ValidationInv

(* The validation results reach the log in order and with a lag of at most *)
(* one version; when fit() returns all of them are in it.                  *)
THEOREM ValidationIsLogged == Spec => []ValidationLogged
<1>1. TypeInv /\ SyncInv /\ ValidationInv => ValidationLogged
  <2> SUFFICES ASSUME TypeInv, SyncInv, ValidationInv
               PROVE  ValidationLogged
    OBVIOUS
  <2>1. PICK b \in Int : LoggedTo(b) /\ LogPosition(b)
    BY DEF ValidationInv
  <2>2. /\ version \in Nat /\ mq_version \in Nat /\ mq_val \in Seq(Nat)
        /\ Len(mq_val) \in Nat
    BY DEF TypeInv, TrainerTypes, QueueTypes
  <2>3. mq_version <= version
    <3>1. version = mq_version \/ version = mq_version + 1
      BY DEF SyncInv, VersionDistance
    <3> QED
      BY <2>2, <3>1
  <2>4. /\ b + Len(mq_val) = mq_version \/ b + Len(mq_val) = mq_version - 1
        /\ b >= version - 2
    BY <2>1 DEF LogPosition
  <2>5. Len(mq_val) <= 2
    BY <2>2, <2>3, <2>4
  <2>6. \A k \in 1 .. Len(mq_val) : mq_val[k] >= version - 1
    BY <2>1, <2>2, <2>4 DEF LoggedTo
  <2>7. tp = "end" => logged = 0 .. version
    BY <2>1 DEF LoggedTo, LogPosition
  <2> QED
    BY <2>5, <2>6, <2>7 DEF ValidationLogged, ValidationLag
<1>2. Spec => [](TypeInv /\ SyncInv /\ ValidationInv)
  <2>1. PipelineInit => TypeInv /\ SyncInv /\ ValidationInv
    BY InitTypes, InitSync, InitValidation
  <2>2. TypeInv /\ SyncInv /\ ValidationInv /\ [Next]_vars =>
          (TypeInv /\ SyncInv /\ ValidationInv)'
    BY NextTypes, NextSync, NextValidation
  <2> QED
    BY <2>1, <2>2, PTL DEF Spec
<1> QED
  BY <1>1, <1>2, PTL

-----------------------------------------------------------------------------
(* The bound on what is generated ahead of the trainer.                    *)

(* The lock is held from the count of the samples to its assignment.       *)
LockInv == rp \in {"queue size", "reset"} => lock = "rpc"

(* What the processor may have in its hand.                                *)
LoopPcs == {"drain", "reap", "wait task", "wait resume", "resumed", "submit"}
HandInv ==
  /\ pp \in {"check", "get", "set paused", "wait unpaused"} => hand = Done
  /\ pp \in LoopPcs => (hand # Done <=> why = "full")
  /\ pp = "submit" => why = "full"
  /\ pp = "wait unpaused" => why = "pause"
  /\ pp \in {"wait resume", "resumed"} => why # "done"

(* Who holds the lock keeps it: nobody else can release it.                *)
LEMMA LockKept ==
  ASSUME TypeInv, lock = "rpc", ~Rpc, [Next]_vars
  PROVE  lock' = "rpc"
<1>1. CASE UNCHANGED vars
  BY <1>1 DEF vars, rollouterVars, lockVars
<1>2. CASE Feed \/ Trainer \/ ValidateTask \/ \E i \in Ids : Task(i)
  BY <1>2, FeedFrame, TrainerFrame, TaskFrame DEF lockVars
<1>3. CASE Processor
  BY <1>3 DEF Processor, ProcessorCheck, ProcessorGet, ProcessorTaken,
     ProcessorSetPaused, ProcessorDrain, ProcessorReap, ProcessorWaited,
     ProcessorWaitUnpaused, ProcessorResumed, ProcessorNextRound, ProcessorSubmit,
     Holds, Acquire, Nobody
<1>4. CASE Main
  BY <1>4 DEF Main, MainPutNone, MainStop, MainStopped, Holds, Acquire, Nobody, lockVars
<1>5. CASE Monitor
  BY <1>5 DEF Monitor, MonitorTop, MonitorCheckRunning, MonitorTick, MonitorUnpause, Holds,
     Acquire, Nobody
<1> QED
  BY <1>1, <1>2, <1>3, <1>4, <1>5, NextCases

(* The call in the middle of its count keeps the lock.                     *)
LEMMA NextLock ==
  ASSUME TypeInv, LockInv, [Next]_vars
  PROVE  LockInv'
<1>1. CASE Rpc
  <2>1. CASE Updating
    BY <2>1 DEF Updating, Holds, LockInv
  <2>2. CASE UpdateQueueSize
    BY <2>2 DEF UpdateQueueSize, LockInv, lockVars
  <2>3. CASE ~Updating /\ ~UpdateQueueSize
    BY <1>1, <2>3 DEF Rpc, PauseCall, Pausing, PauseGathered, PauseReturns, UpdateCall,
       UpdateReset, UpdatePutValidate, UpdateReturns, ResumeCall, ResumeServers,
       ResumeReturns, LockInv
  <2> QED
    BY <2>1, <2>2, <2>3
<1>2. CASE ~Rpc
  <2>1. rp' = rp \/ rp' \in {"pause", "update"}
    BY <1>2, NextCases, FeedFrame, ProcessorFrame, MainFrame, MonitorFrame, TaskFrame,
       TrainerSteps DEF TypeInv, TrainerTypes, rpcVars, vars, rollouterVars
  <2> QED
    BY <1>2, <2>1, LockKept DEF LockInv
<1> QED
  BY <1>1, <1>2

(* Every step keeps what the hand may hold.                                *)
LEMMA NextHand ==
  ASSUME TypeInv, HandInv, [Next]_vars
  PROVE  HandInv'
<1>0. why \in {"pause", "done", "full"} /\ pp \in ProcessorPcs
  BY DEF TypeInv, PcTypes
<1>1. CASE UNCHANGED <<pp, why, hand>>
  BY <1>1 DEF HandInv
<1>2. CASE NotifyAll /\ UNCHANGED <<why, hand>>
  BY <1>2 DEF HandInv, NotifyAll, LoopPcs
<1>3. CASE UNCHANGED vars \/ Feed \/ Main \/ (\E i \in Ids : Task(i)) \/ Trainer
             \/ ValidateTask
  BY <1>1, <1>3, FeedFrame, MainFrame, TaskFrame, TrainerFrame
     DEF vars, rollouterVars, procVars
<1>4. CASE Rpc
  BY <1>1, <1>2, <1>4, RpcFrame, RpcSteps
<1>5. CASE Monitor
  BY <1>1, <1>2, <1>5, MonitorFrame DEF Monitor, MonitorTop, MonitorCheckRunning,
     MonitorTick, MonitorUnpause
<1>6. CASE Processor
  <2>1. CASE ProcessorCheck \/ ProcessorGet
    BY <2>1 DEF ProcessorCheck, ProcessorGet, HandInv, LoopPcs
  <2>2. CASE ProcessorTaken
    BY <2>2 DEF ProcessorTaken, HandInv, LoopPcs
  <2>3. CASE ProcessorSetPaused
    BY <2>3 DEF ProcessorSetPaused, HandInv, LoopPcs
  <2>4. CASE ProcessorDrain
    BY <1>0, <2>4 DEF ProcessorDrain, HandInv, LoopPcs
  <2>5. CASE ProcessorReap \/ ProcessorWaited
    BY <2>5 DEF ProcessorReap, ProcessorWaited, HandInv, LoopPcs
  <2>6. CASE ProcessorWaitUnpaused \/ ProcessorResumed
    BY <1>0, <2>6 DEF ProcessorWaitUnpaused, ProcessorResumed, HandInv, LoopPcs
  <2>7. CASE ProcessorNextRound \/ ProcessorSubmit
    BY <2>7 DEF ProcessorNextRound, ProcessorSubmit, HandInv, LoopPcs
  <2> QED
    BY <1>6, <2>1, <2>2, <2>3, <2>4, <2>5, <2>6, <2>7 DEF Processor
<1> QED
  BY <1>3, <1>4, <1>5, <1>6, NextCases

(* A shift maps a set of positions one to one.                             *)
LEMMA ShiftCount ==
  ASSUME NEW S \in SUBSET Int, NEW T \in SUBSET Int, IsFiniteSet(T), NEW d \in Int,
         \A k \in S : k + d \in T
  PROVE  Cardinality(S) <= Cardinality(T)
<1> DEFINE f == [k \in S |-> k + d]
<1>1. f \in Injection(S, T)
  BY DEF Injection, IsInjective
<1> QED
  BY <1>1, FS_Injection

(* The tasks at work, and the places of the queue that hold a sample.      *)
Working == {i \in Ids : phase[i] \in {"gen", "put"}}
Queued == {k \in 1 .. Len(queue) : queue[k].id # Done}
Held == IF hand = Done THEN 0 ELSE 1

(* The counts of the bound are natural numbers.                            *)
LEMMA Counts ==
  ASSUME TypeInv
  PROVE  /\ IsFiniteSet(Working) /\ IsFiniteSet(Queued)
         /\ Cardinality(Working) \in Nat /\ Cardinality(Queued) \in Nat
         /\ Len(cancel_queue) \in Nat /\ Len(queue) \in Nat
         /\ Held \in {0, 1}
         /\ Cardinality(Working) <= ActiveTasks
         /\ Cardinality(Queued) <= Len(queue)
         /\ staleness_samples \in Nat /\ rpc_size \in Nat
<1>1. Len(queue) \in Nat /\ Len(cancel_queue) \in Nat
  BY DEF TypeInv, QueueTypes, FeedTypes
<1>2. IsFiniteSet(Unfinished) /\ Working \in SUBSET Unfinished
  <2>1. IsFiniteSet(Ids)
    BY SizeAssumption, FS_Interval DEF Ids
  <2> QED
    BY <2>1, FS_Subset DEF Unfinished, Working
<1>3. IsFiniteSet(Working) /\ Cardinality(Working) <= Cardinality(Unfinished)
  BY <1>2, FS_Subset
<1>4. /\ IsFiniteSet(Queued) /\ Cardinality(Queued) <= Len(queue)
  <2>0. 1 \in Int /\ Len(queue) \in Int
    BY <1>1
  <2>1. IsFiniteSet(1 .. Len(queue)) /\ Cardinality(1 .. Len(queue)) = Len(queue)
    <3>1. /\ IsFiniteSet(1 .. Len(queue))
          /\ Cardinality(1 .. Len(queue)) =
               IF 1 > Len(queue) THEN 0 ELSE Len(queue) - 1 + 1
      BY <2>0, FS_Interval, Zenon
    <3> QED
      BY <1>1, <3>1
  <2>2. Queued \in SUBSET (1 .. Len(queue))
    BY DEF Queued
  <2> QED
    BY <2>1, <2>2, FS_Subset
<1>5. /\ Cardinality(Working) \in Nat /\ Cardinality(Queued) \in Nat
      /\ Cardinality(Unfinished) \in Nat
  BY <1>2, <1>3, <1>4, FS_CardinalityType
<1>6. Cardinality(Working) <= ActiveTasks
  BY <1>3, <1>5 DEF ActiveTasks, TypeInv, TaskTypes
<1> QED
  BY <1>1, <1>3, <1>4, <1>5, <1>6 DEF Held, TypeInv, FlagTypes, PcTypes

(* A put adds at most one sample to the queue, the closing None none.      *)
LEMMA PutCounts ==
  ASSUME TypeInv, NEW s \in SampleNat, MQ!PutSample(s)
  PROVE  /\ Cardinality(Queued') <= Cardinality(Queued) + 1
         /\ s.id = Done => Cardinality(Queued') <= Cardinality(Queued)
<1>1. PICK d \in {0, 1} :
           /\ d <= Len(queue)
           /\ Len(queue') = Len(queue) - d + 1
           /\ \A j \in 1 .. Len(queue) - d : queue'[j] = queue[j + d]
           /\ queue'[Len(queue')] = s
  BY PutSampleQueue DEF TypeInv
<1>2. /\ Len(queue) \in Nat /\ IsFiniteSet(Queued) /\ Cardinality(Queued) \in Nat
  BY Counts
<1> DEFINE kept == {k \in 1 .. Len(queue) - d : queue'[k].id # Done}
<1>3. kept \in SUBSET Int /\ Queued \in SUBSET Int
  BY DEF Queued
<1>4. \A k \in kept : k + d \in Queued
  BY <1>1, <1>2 DEF Queued
<1>5. /\ IsFiniteSet(kept) /\ Cardinality(kept) \in Nat
      /\ Cardinality(kept) <= Cardinality(Queued)
  <2>1. 1 \in Int /\ Len(queue) - d \in Int /\ d \in Int
    BY <1>2
  <2>2. IsFiniteSet(1 .. Len(queue) - d)
    BY <2>1, FS_Interval, Zenon
  <2>3. IsFiniteSet(kept)
    BY <2>2, FS_Subset
  <2> HIDE DEF kept
  <2>4. Cardinality(kept) <= Cardinality(Queued)
    BY <1>2, <1>3, <1>4, <2>1, ShiftCount, Zenon
  <2> QED
    BY <2>3, <2>4, FS_CardinalityType
<1>6. Queued' = IF s.id = Done THEN kept ELSE kept \cup {Len(queue')}
  <2>1. \A k : k \in 1 .. Len(queue') <=> k \in 1 .. Len(queue) - d \/ k = Len(queue')
    BY <1>1, <1>2
  <2>2. \A k : k \in Queued' <=> k \in 1 .. Len(queue') /\ queue'[k].id # Done
    BY DEF Queued
  <2>3. \A k : k \in kept <=> k \in 1 .. Len(queue) - d /\ queue'[k].id # Done
    OBVIOUS
  <2>4. Len(queue') \notin 1 .. Len(queue) - d
    BY <1>1, <1>2
  <2> HIDE DEF kept
  <2>5. CASE s.id = Done
    BY <1>1, <2>1, <2>2, <2>3, <2>5
  <2>6. CASE s.id # Done
    BY <1>1, <2>1, <2>2, <2>3, <2>6
  <2> QED
    BY <2>5, <2>6
<1> HIDE DEF kept
<1>7. CASE s.id = Done
  BY <1>2, <1>5, <1>6, <1>7
<1>8. CASE s.id # Done
  <2>1. Cardinality(kept \cup {Len(queue')}) \in {Cardinality(kept), Cardinality(kept) + 1}
    BY <1>5, FS_AddElement
  <2> QED
    BY <1>2, <1>5, <1>6, <1>8, <2>1
<1> QED
  BY <1>7, <1>8

(* A step of get_sample takes none or one.                                 *)
LEMMA TakeCounts ==
  ASSUME TypeInv, queue # <<>>, queue' = Tail(queue)
  PROVE  Cardinality(Queued') <= Cardinality(Queued)
<1>1. IsFiniteSet(Queued) /\ Len(queue) \in Nat
  BY Counts
<1>2. /\ Len(queue') = Len(queue) - 1
      /\ \A k \in 1 .. Len(queue') : queue'[k] = queue[k + 1]
  <2>1. queue \in Seq(SampleNat)
    BY DEF TypeInv, QueueTypes
  <2> QED
    BY <2>1, HeadTailProperties
<1>3. \A k \in Queued' : k + 1 \in Queued
  <2> SUFFICES ASSUME NEW k \in Queued'
               PROVE  k + 1 \in Queued
    OBVIOUS
  <2>1. k \in 1 .. Len(queue') /\ queue'[k].id # Done
    BY DEF Queued
  <2> QED
    BY <1>1, <1>2, <2>1 DEF Queued
<1>4. Queued' \in SUBSET Int /\ Queued \in SUBSET Int
  BY DEF Queued
<1>5. 1 \in Int
  OBVIOUS
<1> QED
  BY <1>1, <1>3, <1>4, <1>5, ShiftCount, Zenon

(* A task that is created, goes on or ends.                                *)
LEMMA WorkingCounts ==
  ASSUME TypeInv, NEW i \in Ids, NEW x, phase' = [phase EXCEPT ![i] = x]
  PROVE  /\ Cardinality(Working') <= Cardinality(Working) + 1
         /\ phase[i] \in {"gen", "put"} /\ x \in {"gen", "put"} =>
              Cardinality(Working') = Cardinality(Working)
         /\ phase[i] \in {"gen", "put"} /\ x \notin {"gen", "put"} =>
              Cardinality(Working') = Cardinality(Working) - 1
         /\ phase[i] \notin {"gen", "put"} /\ x \notin {"gen", "put"} =>
              Cardinality(Working') = Cardinality(Working)
<1>1. IsFiniteSet(Working) /\ Cardinality(Working) \in Nat
  BY Counts
<1>2. phase \in [Ids -> Phases]
  BY DEF TypeInv, TaskTypes
<1>3. i \in Working <=> phase[i] \in {"gen", "put"}
  BY DEF Working
<1>4. CASE x \in {"gen", "put"}
  <2>1. Working' = Working \cup {i}
    BY <1>2, <1>4 DEF Working
  <2>2. CASE i \in Working
    BY <1>1, <1>3, <1>4, <2>1, <2>2, FS_AddElement
  <2>3. CASE i \notin Working
    <3>1. Cardinality(Working') = Cardinality(Working) + 1
      BY <1>1, <2>1, <2>3, FS_AddElement
    <3>2. phase[i] \notin {"gen", "put"}
      BY <1>3, <2>3
    <3> QED
      BY <1>1, <1>4, <3>1, <3>2
  <2> QED
    BY <2>2, <2>3
<1>5. CASE x \notin {"gen", "put"}
  <2>1. Working' = Working \ {i}
    BY <1>2, <1>5 DEF Working
  <2>2. CASE i \in Working
    BY <1>1, <1>3, <1>5, <2>1, <2>2, FS_RemoveElement
  <2>3. CASE i \notin Working
    BY <1>1, <1>3, <1>5, <2>1, <2>3, FS_RemoveElement
  <2> QED
    BY <2>2, <2>3
<1> QED
  BY <1>4, <1>5

(* Every kind of step, by what it does to the counts.                      *)
LEMMA CountSteps ==
  ASSUME TypeInv, HandInv, [Next]_vars
  PROVE  \/ /\ UNCHANGED <<cancel_queue, hand>>
            /\ Cardinality(Working') = Cardinality(Working)
            /\ Cardinality(Queued') <= Cardinality(Queued)
         \/ /\ UNCHANGED <<cancel_queue, hand>>
            /\ Cardinality(Working') = Cardinality(Working) - 1
            /\ Cardinality(Queued') <= Cardinality(Queued) + 1
         \/ /\ UNCHANGED hand
            /\ Len(cancel_queue') = Len(cancel_queue) + 1
            /\ Cardinality(Working') = Cardinality(Working) - 1
            /\ Cardinality(Queued') = Cardinality(Queued)
         \/ /\ hand = Done
            /\ Len(cancel_queue') = Len(cancel_queue) - 1
            /\ Cardinality(Working') = Cardinality(Working)
            /\ Cardinality(Queued') = Cardinality(Queued)
         \/ /\ ProcessorGet
            /\ UNCHANGED cancel_queue
            /\ Cardinality(Working') = Cardinality(Working)
            /\ Cardinality(Queued') = Cardinality(Queued)
         \/ /\ lock = "processor"
            /\ hand # Done /\ hand' = Done
            /\ UNCHANGED cancel_queue
            /\ Cardinality(Working') <= Cardinality(Working) + 1
            /\ Cardinality(Queued') = Cardinality(Queued)
<1>1. CASE UNCHANGED <<cancel_queue, hand, phase, queue>>
  <2>1. Working' = Working /\ Queued' = Queued
    BY <1>1 DEF Working, Queued
  <2>2. Cardinality(Queued') <= Cardinality(Queued)
    BY <2>1, Counts
  <2> QED
    BY <1>1, <2>1, <2>2
<1>2. CASE UNCHANGED vars \/ Feed \/ Monitor \/ Rpc \/ MainStop \/ MainStopped
             \/ ValidateTask \/ (Trainer /\ ~TrainerGet)
  <2>1. CASE UNCHANGED vars \/ Feed \/ Monitor \/ Rpc
    BY <1>1, <2>1, FeedFrame, MonitorFrame, RpcFrame
       DEF vars, rollouterVars, sampleQueues, taskVars, procVars, mqVars
  <2>2. CASE MainStop \/ MainStopped
    BY <1>1, <2>2 DEF MainStop, MainStopped, MainUnchanged, sampleQueues, taskVars,
       procVars, mqVars
  <2>3. CASE ValidateTask \/ (Trainer /\ ~TrainerGet)
    <3>1. UNCHANGED queue
      BY <2>3, TrainerSteps DEF TypeInv, TrainerTypes, ValidateTask, mqVars
    <3> QED
      BY <1>1, <2>3, <3>1, TrainerFrame DEF sampleQueues, taskVars, procVars
  <2> QED
    BY <1>2, <2>1, <2>2, <2>3
<1>3. CASE TrainerGet
  <2>1. UNCHANGED <<cancel_queue, hand, phase>>
    BY <1>3, TrainerFrame DEF Trainer, sampleQueues, taskVars, procVars
  <2>2. Working' = Working
    BY <2>1 DEF Working
  <2>3. queue' = queue \/ (queue # <<>> /\ queue' = Tail(queue))
    BY <1>3, TrainerGetCases DEF TypeInv
  <2>4. CASE queue # <<>> /\ queue' = Tail(queue)
    BY <2>1, <2>2, <2>4, TakeCounts
  <2> QED
    BY <1>1, <2>1, <2>3, <2>4
<1>4. CASE MainPutNone
  <2>1. UNCHANGED <<cancel_queue, hand, phase>>
    BY <1>4 DEF MainPutNone, MainUnchanged, sampleQueues, taskVars, procVars
  <2>2. Working' = Working
    BY <2>1 DEF Working
  <2>3. Cardinality(Queued') <= Cardinality(Queued)
    <3> DEFINE s == [id |-> Done, born |-> 0, version |-> current_param_version]
    <3>1. s \in SampleNat /\ s.id = Done /\ MQ!PutSample(s)
      BY <1>4, PutTypes DEF MainPutNone
    <3> HIDE DEF s
    <3> QED
      BY <3>1, PutCounts
  <2> QED
    BY <2>1, <2>2, <2>3
<1>5. CASE \E i \in Ids : Task(i)
  <2>1. PICK i \in Ids : Task(i)
    BY <1>5
  <2>2. UNCHANGED hand
    BY <2>1, TaskFrame DEF procVars
  <2>3. CASE TaskGenerated(i) \/ TaskDone(i) \/ TaskRaises(i) \/ TaskCancelled(i)
    <3>1. UNCHANGED queue
      BY <2>3 DEF TaskGenerated, TaskDone, TaskRaises, TaskCancelled, mqVars
    <3>2. Queued' = Queued /\ Cardinality(Queued') <= Cardinality(Queued)
                           /\ Cardinality(Queued') <= Cardinality(Queued) + 1
      <4>1. Queued' = Queued
        BY <3>1 DEF Queued
      <4> QED
        BY <4>1, Counts
    <3>3. CASE TaskGenerated(i)
      <4>1. /\ phase' = [phase EXCEPT ![i] = "put"] /\ phase[i] = "gen"
            /\ UNCHANGED cancel_queue
        BY <3>3 DEF TaskGenerated, sampleQueues
      <4>2. Cardinality(Working') = Cardinality(Working)
        BY <4>1, WorkingCounts
      <4> QED
        BY <2>2, <3>2, <4>1, <4>2
    <3>4. CASE TaskDone(i)
      <4>1. /\ phase' = [phase EXCEPT ![i] = "none"] /\ phase[i] \in {"sent", "sent, full"}
            /\ UNCHANGED cancel_queue
        BY <3>4 DEF TaskDone, sampleQueues
      <4>2. phase[i] \notin {"gen", "put"} /\ "none" \notin {"gen", "put"}
        BY <4>1
      <4>3. Cardinality(Working') = Cardinality(Working)
        BY <4>1, <4>2, WorkingCounts
      <4> QED
        BY <2>2, <3>2, <4>1, <4>3
    <3>5. CASE TaskRaises(i)
      <4>1. /\ phase' = [phase EXCEPT ![i] = "none"] /\ phase[i] = "gen"
            /\ UNCHANGED cancel_queue
        BY <3>5 DEF TaskRaises, sampleQueues
      <4>2. phase[i] \in {"gen", "put"} /\ "none" \notin {"gen", "put"}
        BY <4>1
      <4>3. Cardinality(Working') = Cardinality(Working) - 1
        BY <4>1, <4>2, WorkingCounts
      <4> QED
        BY <2>2, <3>2, <4>1, <4>3
    <3>6. CASE TaskCancelled(i)
      <4>1. /\ phase' = [phase EXCEPT ![i] = "none"] /\ phase[i] = "gen"
            /\ cancel_queue' = Append(cancel_queue, i)
        BY <3>6 DEF TaskCancelled
      <4>2. phase[i] \in {"gen", "put"} /\ "none" \notin {"gen", "put"}
        BY <4>1
      <4>3. Cardinality(Working') = Cardinality(Working) - 1
        BY <4>1, <4>2, WorkingCounts
      <4>4. Len(cancel_queue') = Len(cancel_queue) + 1
        BY <4>1, AppendProperties DEF TypeInv, FeedTypes
      <4> QED
        BY <2>2, <3>2, <4>3, <4>4
    <3> QED
      BY <2>3, <3>3, <3>4, <3>5, <3>6
  <2>4. CASE TaskPut(i)
    <3>1. /\ phase[i] = "put" /\ UNCHANGED cancel_queue
          /\ phase' = [phase EXCEPT ![i] = IF MQ!Full THEN "sent, full" ELSE "sent"]
          /\ MQ!PutSample([id |-> i, born |-> born[i], version |-> stamp[i]])
      BY <2>4 DEF TaskPut, sampleQueues
    <3>2. Cardinality(Queued') <= Cardinality(Queued) + 1
      BY <3>1, PutTypes, PutCounts
    <3> DEFINE x == IF MQ!Full THEN "sent, full" ELSE "sent"
    <3>3. phase[i] \in {"gen", "put"} /\ x \notin {"gen", "put"}
      BY <3>1
    <3>4. phase' = [phase EXCEPT ![i] = x]
      BY <3>1
    <3> HIDE DEF x
    <3>5. Cardinality(Working') = Cardinality(Working) - 1
      BY <3>3, <3>4, WorkingCounts
    <3> QED
      BY <2>2, <3>1, <3>2, <3>5
  <2> QED
    BY <2>1, <2>3, <2>4 DEF Task
<1>6. CASE Processor
  <2>1. Queued' = Queued /\ Cardinality(Queued') <= Cardinality(Queued)
    <3>1. Queued' = Queued
      BY <1>6, ProcessorFrame DEF Queued, mqVars
    <3> QED
      BY <3>1, Counts
  <2>2. CASE ProcessorSubmit
    <3>1. /\ lock = "processor" /\ hand # Done /\ hand' = Done /\ hand \in Ids
          /\ UNCHANGED cancel_queue /\ phase' = [phase EXCEPT ![hand] = "gen"]
      <4>1. pp = "submit" /\ lock = "processor" /\ hand' = Done
            /\ UNCHANGED cancel_queue /\ phase' = [phase EXCEPT ![hand] = "gen"]
        BY <2>2 DEF ProcessorSubmit, Holds
      <4>2. hand # Done
        BY <4>1 DEF HandInv, LoopPcs
      <4>3. hand \in Ids
        BY <4>2, SizeAssumption DEF TypeInv, PcTypes, Ids, Done
      <4> QED
        BY <4>1, <4>2, <4>3
    <3>2. Cardinality(Working') <= Cardinality(Working) + 1
      BY <3>1, WorkingCounts
    <3> QED
      BY <2>1, <3>1, <3>2
  <2>3. CASE ~ProcessorSubmit
    <3>1. Working' = Working
      BY <1>6, <2>3, ProcessorSteps DEF Working
    <3>2. CASE ProcessorCheck
      <4>1. \/ UNCHANGED <<cancel_queue, hand>>
            \/ hand = Done /\ cancel_queue # <<>> /\ cancel_queue' = Tail(cancel_queue)
        BY <3>2 DEF ProcessorCheck, HandInv
      <4>2. cancel_queue # <<>> => Len(Tail(cancel_queue)) = Len(cancel_queue) - 1
        BY HeadTailProperties DEF TypeInv, FeedTypes
      <4> QED
        BY <2>1, <3>1, <4>1, <4>2
    <3>3. CASE ProcessorGet
      BY <2>1, <3>1, <3>3 DEF ProcessorGet
    <3>4. CASE ~ProcessorCheck /\ ~ProcessorGet
      <4>1. UNCHANGED <<cancel_queue, hand>>
        BY <1>6, <2>3, <3>4, ProcessorSteps
      <4> QED
        BY <2>1, <3>1, <4>1
    <3> QED
      BY <3>2, <3>3, <3>4
  <2> QED
    BY <2>2, <2>3
<1> QED
  BY <1>2, <1>3, <1>4, <1>5, <1>6, NextCases DEF Main

(* The counts of update_param_version, and what is ahead of the trainer.   *)
BoundInv ==
  /\ rp = "queue size" => Cardinality(Working) + Len(cancel_queue) <= rpc_size
  /\ rp = "reset" =>
       Cardinality(Working) + Len(cancel_queue) + Cardinality(Queued) <= rpc_size
  /\ Planned <= staleness_samples + 1
  /\ pp = "get" => Planned <= MaxRequired
  /\ Planned <= MaxRequired + 1

(* Planned is the sum of the four counts, now and after a step.            *)
LEMMA PlannedIsSum ==
  /\ Planned = Cardinality(Working) + Len(cancel_queue) + Cardinality(Queued) + Held
  /\ Planned' = Cardinality(Working') + Len(cancel_queue') + Cardinality(Queued') + Held'
  BY DEF Planned, InFlight, Working, Queued, Held

(* Four of the steps change the bound's other terms.                       *)
LEMMA BoundSteps ==
  ASSUME TypeInv, [Next]_vars
  PROVE  /\ \/ /\ rp = "updating" /\ rp' = "queue size" /\ ~ProcessorGet
               /\ rpc_size' = ActiveTasks + Len(cancel_queue)
               /\ UNCHANGED staleness_samples
            \/ /\ rp = "queue size" /\ rp' = "reset" /\ ~ProcessorGet
               /\ rpc_size' = rpc_size + Len(queue)
               /\ UNCHANGED staleness_samples
            \/ /\ rp = "reset" /\ rp' = "put validate" /\ ~ProcessorGet
               /\ staleness_samples' = rpc_size
            \/ /\ rp' = rp \/ rp' \notin {"queue size", "reset"}
               /\ UNCHANGED <<rpc_size, staleness_samples>> /\ ~ProcessorGet
            \/ /\ ProcessorGet /\ pp = "get" /\ pp' = "taken"
               /\ UNCHANGED <<rp, rpc_size>>
               /\ staleness_samples' = staleness_samples + 1
         /\ pp' = "get" => pp = "get" \/ (staleness_samples < MaxRequired /\ ProcessorCheck)
<1>1. CASE UNCHANGED vars
  <2>1. UNCHANGED <<rp, rpc_size, staleness_samples, pp>>
    BY <1>1 DEF vars, rollouterVars, flagVars, rpcVars, procVars
  <2>2. ~ProcessorGet
    BY <2>1 DEF ProcessorGet
  <2> QED
    BY <2>1, <2>2
<1>2. CASE Feed \/ Main \/ \E i \in Ids : Task(i)
  <2>1. UNCHANGED <<rp, rpc_size, staleness_samples, pp>>
    BY <1>2, FeedFrame, MainFrame, TaskFrame DEF flagVars, rpcVars, procVars
  <2>2. ~ProcessorGet
    BY <2>1 DEF ProcessorGet
  <2> QED
    BY <2>1, <2>2
<1>3. CASE Trainer \/ ValidateTask
  <2>1. UNCHANGED <<rpc_size, staleness_samples, pp>>
    BY <1>3, TrainerFrame DEF flagVars, procVars
  <2>2. ~ProcessorGet
    BY <2>1 DEF ProcessorGet
  <2>3. rp' = rp \/ rp' \notin {"queue size", "reset"}
    BY <1>3, TrainerSteps DEF TypeInv, TrainerTypes
  <2> QED
    BY <2>1, <2>2, <2>3
<1>4. CASE Monitor
  <2>1. UNCHANGED <<rp, rpc_size, staleness_samples, hand>>
    BY <1>4, MonitorFrame DEF rpcVars
  <2>2. pp' = pp \/ (pp = "wait resume" /\ pp' = "resumed")
    BY <1>4 DEF Monitor, MonitorTop, MonitorCheckRunning, MonitorTick, MonitorUnpause,
       NotifyAll
  <2>3. ~ProcessorGet
    BY <2>2 DEF ProcessorGet
  <2> QED
    BY <2>1, <2>2, <2>3
<1>5. CASE Rpc
  <2>1. pp' = pp \/ (pp = "wait resume" /\ pp' = "resumed")
    BY <1>5, RpcSteps DEF NotifyAll
  <2>2. ~ProcessorGet
    BY <2>1 DEF ProcessorGet
  <2>3. CASE Updating
    BY <2>1, <2>2, <2>3 DEF Updating
  <2>4. CASE UpdateQueueSize
    BY <2>1, <2>2, <2>4 DEF UpdateQueueSize
  <2>5. CASE UpdateReset
    BY <2>1, <2>2, <2>5 DEF UpdateReset
  <2>6. CASE ~Updating /\ ~UpdateQueueSize /\ ~UpdateReset
    <3>1. /\ rp' \notin {"queue size", "reset"}
          /\ UNCHANGED <<rpc_size, staleness_samples>>
      BY <1>5, <2>6 DEF Rpc, PauseCall, Pausing, PauseGathered, PauseReturns, UpdateCall,
         UpdatePutValidate, UpdateReturns, ResumeCall, ResumeServers, ResumeReturns, flagVars
    <3> QED
      BY <2>1, <2>2, <3>1
  <2> QED
    BY <2>3, <2>4, <2>5, <2>6
<1>6. CASE Processor
  <2>1. UNCHANGED <<rp, rpc_size>>
    BY <1>6, ProcessorFrame DEF rpcVars
  <2>2. CASE ProcessorGet
    BY <2>1, <2>2 DEF ProcessorGet
  <2>3. CASE ~ProcessorGet
    <3>1. UNCHANGED staleness_samples
      BY <1>6, <2>3, ProcessorSteps
    <3>2. pp' = "get" => ProcessorCheck
      BY <1>6 DEF Processor, ProcessorGet, ProcessorTaken, ProcessorSetPaused,
         ProcessorDrain, ProcessorReap, ProcessorWaited, ProcessorWaitUnpaused,
         ProcessorResumed, ProcessorNextRound, ProcessorSubmit
    <3>3. pp' = "get" => ~ShouldPause
      BY <3>2 DEF ProcessorCheck
    <3>4. ~ShouldPause => staleness_samples < MaxRequired
      BY SizeAssumption DEF ShouldPause, TypeInv, FlagTypes
    <3> QED
      BY <2>1, <2>3, <3>1, <3>2, <3>3, <3>4
  <2> QED
    BY <2>2, <2>3
<1> QED
  BY <1>1, <1>2, <1>3, <1>4, <1>5, <1>6, NextCases

(* The counts are numbers in the next state, too.                          *)
LEMMA CountsNow ==
  TypeInv => Cardinality(Working) \in Nat /\ Cardinality(Queued) \in Nat
               /\ Len(cancel_queue) \in Nat
  BY Counts

(* The counts are natural numbers after a step, too.                       *)
LEMMA CountsNext ==
  (TypeInv => Cardinality(Working) \in Nat /\ Cardinality(Queued) \in Nat
                /\ Len(cancel_queue) \in Nat)'
  BY CountsNow, PTL

(* Every step keeps the bound.                                             *)
LEMMA NextBound ==
  ASSUME TypeInv, LockInv, HandInv, BoundInv, [Next]_vars
  PROVE  BoundInv'
<1>1. TypeInv'
  BY NextTypes
<1>2. /\ Cardinality(Working) \in Nat /\ Cardinality(Queued) \in Nat
      /\ Len(cancel_queue) \in Nat /\ Len(queue) \in Nat
      /\ Cardinality(Working) <= ActiveTasks /\ Cardinality(Queued) <= Len(queue)
      /\ ActiveTasks \in Nat
  BY Counts, ActiveTasksType DEF TypeInv
<1>3. /\ Cardinality(Working') \in Nat /\ Cardinality(Queued') \in Nat
      /\ Len(cancel_queue') \in Nat
  BY <1>1, CountsNext
<1>4. /\ staleness_samples \in Nat /\ rpc_size \in Nat
      /\ staleness_samples' \in Nat /\ rpc_size' \in Nat
  BY <1>1 DEF TypeInv, FlagTypes, PcTypes
<1>5. MaxRequired \in Nat
  BY SizeAssumption
<1>6. Held \in Nat /\ Held' \in Nat /\ Held \in {0, 1} /\ Held' \in {0, 1}
  BY DEF Held
(* The numbers before and after the step.                                  *)
<1>w. PICK w \in Nat : w = Cardinality(Working)
  BY <1>2
<1>w2. PICK w2 \in Nat : w2 = Cardinality(Working')
  BY <1>3
<1>q. PICK q \in Nat : q = Cardinality(Queued)
  BY <1>2
<1>q2. PICK q2 \in Nat : q2 = Cardinality(Queued')
  BY <1>3
<1>c. PICK c \in Nat : c = Len(cancel_queue)
  BY <1>2
<1>c2. PICK c2 \in Nat : c2 = Len(cancel_queue')
  BY <1>3
<1>h. PICK h \in Nat : h = Held /\ h <= 1
  BY <1>6
<1>h2. PICK h2 \in Nat : h2 = Held' /\ h2 <= 1
  BY <1>6
<1>u. h <= 1 /\ h2 <= 1
  BY <1>h, <1>h2
<1> DEFINE p == w + c + q + h
           p2 == w2 + c2 + q2 + h2
<1>7. /\ w = Cardinality(Working) /\ w2 = Cardinality(Working')
      /\ q = Cardinality(Queued) /\ q2 = Cardinality(Queued')
      /\ c = Len(cancel_queue) /\ c2 = Len(cancel_queue')
      /\ h = Held /\ h2 = Held'
  BY <1>w, <1>w2, <1>q, <1>q2, <1>c, <1>c2, <1>h, <1>h2
<1>8. Planned = p /\ Planned' = p2
  BY <1>7, PlannedIsSum
<1>s. PICK s \in Nat : s = staleness_samples
  BY <1>4
<1>s2. PICK s2 \in Nat : s2 = staleness_samples'
  BY <1>4
<1>z. PICK z \in Nat : z = rpc_size
  BY <1>4
<1>z2. PICK z2 \in Nat : z2 = rpc_size'
  BY <1>4
<1>a. PICK a \in Nat : a = ActiveTasks /\ w <= a
  BY <1>2, <1>7
<1>l. PICK l \in Nat : l = Len(queue) /\ q <= l
  BY <1>2, <1>7
<1>9. /\ s = staleness_samples /\ s2 = staleness_samples'
      /\ z = rpc_size /\ z2 = rpc_size'
      /\ a = ActiveTasks /\ l = Len(queue)
  BY <1>s, <1>s2, <1>z, <1>z2, <1>a, <1>l
<1>p. p \in Nat /\ p2 \in Nat
  OBVIOUS
<1> HIDE DEF p, p2
<1>10. /\ rp = "queue size" => w + c <= z
       /\ rp = "reset" => w + c + q <= z
       /\ p <= s + 1
       /\ pp = "get" => p <= MaxRequired
       /\ p <= MaxRequired + 1
  BY <1>7, <1>8, <1>9 DEF BoundInv
<1>11. SUFFICES /\ rp' = "queue size" => w2 + c2 <= z2
                /\ rp' = "reset" => w2 + c2 + q2 <= z2
                /\ p2 <= s2 + 1
                /\ pp' = "get" => p2 <= MaxRequired
                /\ p2 <= MaxRequired + 1
  BY <1>7, <1>8, <1>9 DEF BoundInv
<1>12. \/ h2 = h /\ c2 = c /\ w2 = w /\ q2 <= q
       \/ h2 = h /\ c2 = c /\ w2 = w - 1 /\ q2 <= q + 1
       \/ h2 = h /\ c2 = c + 1 /\ w2 = w - 1 /\ q2 = q
       \/ h = 0 /\ c2 = c - 1 /\ w2 = w /\ q2 = q
       \/ ProcessorGet /\ c2 = c /\ w2 = w /\ q2 = q
       \/ lock = "processor" /\ h = 1 /\ h2 = 0 /\ c2 = c /\ w2 <= w + 1 /\ q2 = q
  <2>1. /\ hand = Done => h = 0
        /\ hand # Done => h = 1
        /\ hand' = Done => h2 = 0
        /\ hand' = hand => h2 = h
    BY <1>7 DEF Held
  <2> QED
    BY <1>7, <2>1, CountSteps
<1>13. CASE ProcessorGet
  <2>1. /\ pp = "get" /\ pp' = "taken" /\ rp' = rp /\ rpc_size' = rpc_size
        /\ staleness_samples' = staleness_samples + 1
    BY <1>13 DEF ProcessorGet, ProcessorUnchanged, rpcVars
  <2>2. w2 = w /\ c2 = c /\ q2 = q
    <3>1. UNCHANGED <<cancel_queue, phase, queue>>
      BY <1>13 DEF ProcessorGet, ProcessorUnchanged, mqVars
    <3> QED
      BY <1>7, <3>1 DEF Working, Queued
  <2>3. p2 <= p + 1
    BY <1>u, <2>2 DEF p, p2
  <2>4. s2 = s + 1 /\ z2 = z
    BY <1>9, <2>1
  <2>5. p <= MaxRequired /\ p <= s + 1
    BY <1>10, <2>1
  <2>6. p2 <= MaxRequired + 1 /\ p2 <= s2 + 1
    BY <1>5, <1>p, <2>3, <2>4, <2>5
  <2>7. /\ rp' = "queue size" => w2 + c2 <= z2
        /\ rp' = "reset" => w2 + c2 + q2 <= z2
    BY <1>10, <2>1, <2>2, <2>4
  <2> QED
    BY <2>1, <2>6, <2>7
<1>14. CASE ~ProcessorGet
  <2>1. /\ p2 <= p
        /\ lock = "processor" \/ (w2 + c2 <= w + c /\ w2 + c2 + q2 <= w + c + q)
    <3>1. ASSUME h2 = h, c2 = c, w2 = w, q2 <= q
          PROVE  p2 <= p /\ w2 + c2 <= w + c /\ w2 + c2 + q2 <= w + c + q
      BY <3>1 DEF p, p2
    <3>2. ASSUME h2 = h, c2 = c, w2 = w - 1, q2 <= q + 1
          PROVE  p2 <= p /\ w2 + c2 <= w + c /\ w2 + c2 + q2 <= w + c + q
      BY <3>2 DEF p, p2
    <3>3. ASSUME h2 = h, c2 = c + 1, w2 = w - 1, q2 = q
          PROVE  p2 <= p /\ w2 + c2 <= w + c /\ w2 + c2 + q2 <= w + c + q
      BY <3>3 DEF p, p2
    <3>4. ASSUME h = 0, c2 = c - 1, w2 = w, q2 = q
          PROVE  p2 <= p /\ w2 + c2 <= w + c /\ w2 + c2 + q2 <= w + c + q
      BY <1>u, <3>4 DEF p, p2
    <3>5. ASSUME h = 1, h2 = 0, c2 = c, w2 <= w + 1, q2 = q
          PROVE  p2 <= p
      BY <3>5 DEF p, p2
    <3> QED
      BY <1>12, <1>14, <3>1, <3>2, <3>3, <3>4, <3>5
  <2>2. p2 <= MaxRequired + 1
    <3>1. p <= MaxRequired + 1 /\ p2 <= p
      BY <1>10, <2>1
    <3> QED
      BY <1>5, <1>p, <3>1
  <2>3. pp' = "get" => p2 <= MaxRequired
    <3>1. pp' = "get" => pp = "get" \/ s < MaxRequired
      BY <1>9, BoundSteps
    <3>2. s < MaxRequired => p <= MaxRequired
      <4>1. p <= s + 1
        BY <1>10
      <4> QED
        BY <1>5, <1>p, <4>1
    <3>3. p <= MaxRequired => p2 <= MaxRequired
      <4>1. p2 <= p
        BY <2>1
      <4> QED
        BY <1>5, <1>p, <4>1
    <3> QED
      BY <1>10, <3>1, <3>2, <3>3
  <2>4. CASE rp = "updating" /\ rp' = "queue size" /\ z2 = a + c /\ s2 = s
    <3>1. UNCHANGED <<cancel_queue, phase>>
      <4>1. CASE Rpc
        BY <4>1, RpcFrame DEF sampleQueues
      <4>2. CASE ~Rpc
        BY <2>4, <4>2, NextCases, FeedFrame, ProcessorFrame, MainFrame, MonitorFrame,
           TaskFrame, TrainerSteps DEF TypeInv, TrainerTypes, rpcVars, vars, rollouterVars
      <4> QED
        BY <4>1, <4>2
    <3>2. w2 = w /\ c2 = c
      BY <1>7, <3>1 DEF Working
    <3>3. w2 + c2 <= z2
      <4>1. z2 = a + c
        BY <2>4
      <4> QED
        BY <1>a, <3>2, <4>1
    <3>4. p2 <= s2 + 1
      <4>1. p2 <= p /\ p <= s + 1 /\ s2 = s
        BY <1>10, <2>1, <2>4
      <4> QED
        BY <1>p, <4>1
    <3> QED
      BY <2>2, <2>3, <2>4, <3>3, <3>4
  <2>5. CASE rp = "queue size" /\ rp' = "reset" /\ z2 = z + l /\ s2 = s
    <3>1. lock # "processor"
      BY <2>5 DEF LockInv
    <3>2. q <= l /\ w + c <= z /\ w2 + c2 + q2 <= w + c + q /\ z2 = z + l
      BY <1>l, <1>10, <2>1, <2>5, <3>1
    <3>3. w2 + c2 + q2 <= z2
      BY <3>2
    <3>4. p2 <= s2 + 1
      <4>1. p2 <= p /\ p <= s + 1 /\ s2 = s
        BY <1>10, <2>1, <2>5
      <4> QED
        BY <1>p, <4>1
    <3> QED
      BY <2>2, <2>3, <2>5, <3>3, <3>4
  <2>6. CASE rp = "reset" /\ rp' = "put validate" /\ s2 = z
    <3>1. lock # "processor"
      BY <2>6 DEF LockInv
    <3>2. w + c + q <= z
      BY <1>10, <2>6
    <3>3. w2 + c2 + q2 <= w + c + q
      BY <2>1, <3>1
    <3>4. p2 <= s2 + 1
      <4>1. s2 = z
        BY <2>6
      <4> QED
        BY <1>u, <3>2, <3>3, <4>1 DEF p2
    <3> QED
      BY <2>2, <2>3, <2>6, <3>4
  <2>7. CASE (rp' = rp \/ rp' \notin {"queue size", "reset"}) /\ z2 = z /\ s2 = s
    <3>1. p2 <= s2 + 1
      <4>1. p2 <= p /\ p <= s + 1 /\ s2 = s
        BY <1>10, <2>1, <2>7
      <4> QED
        BY <1>p, <4>1
    <3>2. CASE rp' \notin {"queue size", "reset"}
      BY <2>2, <2>3, <3>1, <3>2
    <3>3. CASE rp' = rp /\ rp \in {"queue size", "reset"}
      <4>1. lock # "processor"
        BY <3>3 DEF LockInv
      <4>2. w2 + c2 <= w + c /\ w2 + c2 + q2 <= w + c + q
        BY <2>1, <4>1
      <4>3. rp = "queue size" => w2 + c2 <= z2
        <5>1. rp = "queue size" => w + c <= z /\ z2 = z
          BY <1>10, <2>7
        <5>2. ASSUME w + c <= z, z2 = z
              PROVE  w2 + c2 <= z2
          BY <4>2, <5>2
        <5> QED
          BY <5>1, <5>2
      <4>4. rp = "reset" => w2 + c2 + q2 <= z2
        <5>1. rp = "reset" => w + c + q <= z /\ z2 = z
          BY <1>10, <2>7
        <5>2. ASSUME w + c + q <= z, z2 = z
              PROVE  w2 + c2 + q2 <= z2
          BY <4>2, <5>2
        <5> QED
          BY <5>1, <5>2
      <4> QED
        BY <2>2, <2>3, <3>1, <3>3, <4>3, <4>4
    <3> QED
      BY <2>7, <3>2, <3>3
  <2> QED
    BY <1>7, <1>9, <1>14, <2>4, <2>5, <2>6, <2>7, BoundSteps
<1> QED
  BY <1>13, <1>14

(* The bound holds at first: nothing is planned.                           *)
LEMMA InitBound == PipelineInit => LockInv /\ HandInv /\ BoundInv
<1> SUFFICES ASSUME PipelineInit
             PROVE  LockInv /\ HandInv /\ BoundInv
  OBVIOUS
<1>1. /\ rp = "idle" /\ pp = "check" /\ hand = Done /\ staleness_samples = 0
      /\ queue = <<>> /\ cancel_queue = <<>> /\ phase = [i \in Ids |-> "none"]
  BY DEF PipelineInit, Init
<1>2. LockInv /\ HandInv
  BY <1>1 DEF LockInv, HandInv, LoopPcs
<1>3. Working = {} /\ Queued = {} /\ Len(cancel_queue) = 0 /\ Held = 0
  BY <1>1 DEF Working, Queued, Held
<1>4. Planned = 0
  BY <1>3, FS_EmptySet, PlannedIsSum
<1>5. BoundInv
  BY <1>1, <1>4, SizeAssumption DEF BoundInv
<1> QED
  BY <1>2, <1>5

(* The staleness count bounds what is generated ahead, for every timing of *)
(* pauses, resets and the monitor: at most max_required_samples + 1        *)
(* samples are being generated, interrupted, queued or in the processor's  *)
(* hand.                                                                   *)
THEOREM InFlightIsBounded == Spec => []InFlightBounded
<1> DEFINE Inv == TypeInv /\ LockInv /\ HandInv /\ BoundInv
<1>1. PipelineInit => Inv
  BY InitTypes, InitBound
<1>2. Inv /\ [Next]_vars => Inv'
  BY NextTypes, NextLock, NextHand, NextBound
<1>3. Inv => InFlightBounded
  BY DEF BoundInv, InFlightBounded
<1> QED
  BY <1>1, <1>2, <1>3, PTL DEF Spec
-----------------------------------------------------------------------------
(* The freshness of what is trained on.                                    *)

(* Facts of arithmetic that the provers do not find among others.          *)
LEMMA Distribute ==
  ASSUME NEW a \in Int, NEW q \in Int
  PROVE  (a + 1) * q = a * q + q /\ (a - 1) * q = a * q - q
  OBVIOUS

(* A product grows with its factor.                                        *)
LEMMA ProductGrows ==
  ASSUME NEW a \in Int, NEW b \in Int, NEW q \in Nat, a <= b
  PROVE  a * q <= b * q
  OBVIOUS

(* A positive product with a natural number has a positive factor.         *)
LEMMA FactorPositive ==
  ASSUME NEW a \in Int, NEW q \in Nat, 0 < a * q
  PROVE  0 < a
  OBVIOUS

(* What integer division leaves is less than the divisor.                  *)
LEMMA QuotientBound ==
  ASSUME NEW n \in Nat, NEW q \in Nat \ {0}
  PROVE  n \div q \in Nat /\ n < ((n \div q) + 1) * q
  OBVIOUS

(* The samples of a version.                                               *)
Quota == setup.required_samples * setup.trigger_steps

(* The queue holds less than VersionLag - 1 versions, and one sample.      *)
LEMMA QuotaTypes ==
  ASSUME setup \in Setups
  PROVE  Quota \in Nat \ {0} /\ VersionLag \in Nat /\ VersionLag >= 2
           /\ MaxRequired - 1 < (VersionLag - 1) * Quota
<1>1. PICK r \in Nat \ {0} : r = setup.required_samples
  BY SetupTypes
<1>2. PICK t \in Nat \ {0} : t = setup.trigger_steps
  BY SetupTypes
<1>3. Quota = r * t
  BY <1>1, <1>2 DEF Quota
<1>4. r * t \in Nat \ {0}
  OBVIOUS
<1>5. PICK q \in Nat \ {0} : q = Quota
  BY <1>3, <1>4
<1>6. PICK n \in Nat : n = MaxRequired - 1
  BY SizeAssumption
<1>7. VersionLag = 2 + (n \div q)
  BY <1>5, <1>6 DEF VersionLag, Quota
<1>8. n \div q \in Nat /\ n < ((n \div q) + 1) * q
  BY QuotientBound
<1>9. PICK l \in Nat : l = n \div q
  BY <1>8
<1>10. VersionLag = 2 + l /\ n < (l + 1) * q
  BY <1>7, <1>8, <1>9
<1>11. VersionLag - 1 = l + 1
  BY <1>10
<1> QED
  BY <1>5, <1>6, <1>10, <1>11

(* A sample is put under the version of its stamp or the next one; none is *)
(* put between the end of a pause and the next version.                    *)
StampWindow == {"clear kv", "paused", "update", "updating"}
FreshTasks ==
  /\ \A i \in Ids : phase[i] = "put" => current_param_version <= stamp[i] + 1
  /\ rp \in StampWindow =>
       \A i \in Ids : phase[i] = "put" => current_param_version <= stamp[i]

(* The queue keeps its size.                                               *)
CapacityInv == Len(queue) <= MaxRequired

(* The trainer collects one step's samples at a time.                      *)
BatchInv ==
  /\ tp = "train" => Len(batch) = setup.required_samples
  /\ tp \in {"get", "got"} => Len(batch) < setup.required_samples
  /\ tp \in {"start", "log", "wait last", "pause", "broadcast", "validate"} /\ ~final =>
       batch = <<>>
  /\ tp \in {"wait last", "pause", "broadcast"} => local_trigger_step = 1

(* How many samples of the version being trained are taken from the queue. *)
StepDone == (local_trigger_step - 1) * setup.required_samples + Len(batch)
Counted ==
  IF tp \in {"wait last", "pause"} THEN Quota
  ELSE IF tp = "got" THEN StepDone + 1 ELSE StepDone

(* A queued sample is taken before the trainer is VersionLag versions past *)
(* its stamp: the samples ahead of it leave room for it.                   *)
QueueFresh ==
  ~final => \A k \in 1 .. Len(queue) : queue[k].id # Done =>
    Counted + k - 1 < (queue[k].version + VersionLag + 1 - mq_version) * Quota

(* What was taken is fresh.                                                *)
TakenFresh ==
  /\ ~final /\ tp = "got" /\ mq_ret["trainer"].id # Done =>
       mq_version <= mq_ret["trainer"].version + VersionLag
  /\ ~final => \A k \in 1 .. Len(batch) : mq_version <= batch[k].version + VersionLag

FreshInv == FreshTasks /\ CapacityInv /\ BatchInv /\ QueueFresh /\ TakenFresh

(* No step but the end of a generation makes a sample one to be put.       *)
LEMMA PutPhases ==
  ASSUME TypeInv, [Next]_vars, NEW i \in Ids, phase'[i] = "put"
  PROVE  \/ phase[i] = "put" /\ stamp'[i] = stamp[i]
         \/ stamp'[i] = current_param_version /\ UNCHANGED <<current_param_version, rp>>
<1>0. stamp \in [Ids -> Nat] /\ phase \in [Ids -> Phases]
  BY DEF TypeInv, TaskTypes
<1>1. CASE UNCHANGED vars
  BY <1>1 DEF vars, rollouterVars, taskVars
<1>2. CASE Feed \/ Main \/ Monitor \/ Rpc
  BY <1>2, FeedFrame, MainFrame, MonitorFrame, RpcFrame DEF taskVars
<1>3. CASE Trainer \/ ValidateTask
  BY <1>3, TrainerFrame DEF taskVars
<1>4. CASE Processor
  <2>1. CASE ProcessorSubmit
    <3>1. phase' = [phase EXCEPT ![hand] = "gen"] /\ stamp' = stamp
      BY <2>1 DEF ProcessorSubmit, ProcessorUnchanged
    <3>2. phase[i] = "put"
      BY <1>0, <3>1
    <3> QED
      BY <3>1, <3>2
  <2>2. CASE ~ProcessorSubmit
    BY <1>4, <2>2, ProcessorFrame, ProcessorSteps
  <2> QED
    BY <2>1, <2>2
<1>5. ASSUME NEW j \in Ids, Task(j)
      PROVE  \/ phase[i] = "put" /\ stamp'[i] = stamp[i]
             \/ stamp'[i] = current_param_version /\ UNCHANGED <<current_param_version, rp>>
  <2>1. UNCHANGED <<current_param_version, rp>>
    BY <1>5, TaskFrame DEF flagVars, rpcVars
  <2>2. CASE TaskGenerated(j)
    <3>1. /\ phase' = [phase EXCEPT ![j] = "put"]
          /\ stamp' = [stamp EXCEPT ![j] = current_param_version]
      BY <2>2 DEF TaskGenerated
    <3> QED
      BY <1>0, <2>1, <3>1
  <2>3. CASE ~TaskGenerated(j)
    <3>1. stamp' = stamp
      BY <1>5, <2>3 DEF Task, TaskPut, TaskDone, TaskCancelled, TaskRaises
    <3>2. \E x \in {"none", "sent", "sent, full"} : phase' = [phase EXCEPT ![j] = x]
      BY <1>5, <2>3 DEF Task, TaskPut, TaskDone, TaskCancelled, TaskRaises
    <3>3. phase[i] = "put"
      BY <1>0, <3>2
    <3> QED
      BY <3>1, <3>3
  <2> QED
    BY <2>2, <2>3
<1> QED
  BY <1>1, <1>2, <1>3, <1>4, <1>5, NextCases

(* How the rollouter's version and the window change.                      *)
LEMMA WindowSteps ==
  ASSUME TypeInv, SyncInv, [Next]_vars
  PROVE  \/ UNCHANGED <<current_param_version, rp>>
         \/ UNCHANGED current_param_version /\ rp' \notin StampWindow
         \/ UNCHANGED current_param_version /\ rp \in StampWindow
         \/ rp = "updating" /\ current_param_version' = current_param_version + 1
              /\ rp' \notin StampWindow
         \/ Unfinished = {} /\ UNCHANGED <<current_param_version, phase>>
<1>1. CASE Rpc
  <2>1. CASE PauseCall \/ Pausing
    BY <2>1 DEF PauseCall, Pausing, StampWindow
  <2>2. CASE PauseGathered
    BY <2>2 DEF PauseGathered, RpcUnchanged
  <2>3. CASE PauseReturns \/ UpdateCall
    BY <2>3 DEF PauseReturns, UpdateCall, StampWindow
  <2>4. CASE Updating
    BY <2>4 DEF Updating, StampWindow, SyncInv, VersionDistance, UpdatePcs
  <2>5. CASE UpdateQueueSize \/ UpdateReset \/ UpdatePutValidate \/ UpdateReturns
    BY <2>5 DEF UpdateQueueSize, UpdateReset, UpdatePutValidate, UpdateReturns,
       StampWindow, flagVars
  <2>6. CASE ResumeCall \/ ResumeServers \/ ResumeReturns
    BY <2>6 DEF ResumeCall, ResumeServers, ResumeReturns, StampWindow
  <2> QED
    BY <1>1, <2>1, <2>2, <2>3, <2>4, <2>5, <2>6 DEF Rpc
<1>2. CASE Trainer \/ ValidateTask
  <2>1. UNCHANGED current_param_version
    BY <1>2, TrainerFrame DEF flagVars
  <2>2. \/ UNCHANGED rp
        \/ rp' = "pause"
        \/ tp = "broadcast"
    BY <1>2, TrainerProgress
  <2>3. tp = "broadcast" => rp \in StampWindow
    BY DEF SyncInv, HandShake, StampWindow
  <2> QED
    BY <2>1, <2>2, <2>3 DEF StampWindow
<1>3. CASE UNCHANGED trainerVars
             /\ (Feed \/ Processor \/ Main \/ Monitor \/ \E i \in Ids : Task(i))
  BY <1>3, SyncFrame
<1>4. CASE UNCHANGED vars
  BY <1>4 DEF vars, rollouterVars, flagVars, rpcVars
<1> QED
  BY <1>1, <1>2, <1>3, <1>4, NextCases

(* Every step keeps the stamps of what is to be put fresh.                 *)
LEMMA NextFreshTasks ==
  ASSUME TypeInv, SyncInv, FreshTasks, [Next]_vars
  PROVE  FreshTasks'
<1> SUFFICES ASSUME NEW i \in Ids, phase'[i] = "put"
             PROVE  /\ current_param_version' <= stamp'[i] + 1
                    /\ rp' \in StampWindow => current_param_version' <= stamp'[i]
  BY DEF FreshTasks
<1>0. /\ current_param_version \in Nat /\ stamp[i] \in Nat
  BY DEF TypeInv, FlagTypes, TaskTypes
<1>1. CASE stamp'[i] = current_param_version /\ UNCHANGED <<current_param_version, rp>>
  BY <1>0, <1>1
<1>2. CASE phase[i] = "put" /\ stamp'[i] = stamp[i]
  <2>1. /\ current_param_version <= stamp[i] + 1
        /\ rp \in StampWindow => current_param_version <= stamp[i]
    BY <1>2 DEF FreshTasks
  <2>2. CASE UNCHANGED <<current_param_version, rp>>
    BY <1>2, <2>1, <2>2
  <2>3. CASE UNCHANGED current_param_version /\ rp' \notin StampWindow
    BY <1>2, <2>1, <2>3
  <2>4. CASE UNCHANGED current_param_version /\ rp \in StampWindow
    BY <1>2, <2>1, <2>4
  <2>5. CASE rp = "updating" /\ current_param_version' = current_param_version + 1
              /\ rp' \notin StampWindow
    <3>1. current_param_version <= stamp[i]
      BY <2>1, <2>5 DEF StampWindow
    <3>2. current_param_version' = current_param_version + 1
      BY <2>5
    <3>3. current_param_version' <= stamp[i] + 1
      BY <1>0, <3>1, <3>2
    <3> QED
      BY <1>2, <2>5, <3>3
  <2>6. CASE Unfinished = {} /\ UNCHANGED <<current_param_version, phase>>
    BY <1>2, <2>6 DEF Unfinished
  <2> QED
    BY <2>2, <2>3, <2>4, <2>5, <2>6, WindowSteps
<1> QED
  BY <1>1, <1>2, PutPhases

(* Every step keeps the queue within its size.                             *)
LEMMA NextCapacity ==
  ASSUME TypeInv, CapacityInv, [Next]_vars
  PROVE  CapacityInv'
<1>0. queue \in Seq(SampleNat) /\ Len(queue) \in Nat /\ MaxRequired \in Nat
  BY SizeAssumption DEF TypeInv, QueueTypes
<1>1. ASSUME NEW s \in SampleNat, MQ!PutSample(s)
      PROVE  CapacityInv'
  <2>1. PICK d \in {0, 1} :
           /\ d = 1 <=> Len(queue) >= MaxRequired
           /\ Len(queue') = Len(queue) - d + 1
    BY <1>1, PutSampleQueue DEF TypeInv
  <2>2. CASE d = 1
    BY <1>0, <2>1, <2>2 DEF CapacityInv
  <2>3. CASE d = 0
    BY <1>0, <2>1, <2>3 DEF CapacityInv
  <2> QED
    BY <2>2, <2>3
<1>2. CASE MainPutNone
  BY <1>1, <1>2, PutTypes DEF MainPutNone
<1>3. CASE \E i \in Ids : TaskPut(i)
  BY <1>1, <1>3, PutTypes DEF TaskPut
<1>4. CASE queue # <<>> /\ queue' = Tail(queue)
  <2>1. Len(queue') = Len(queue) - 1
    BY <1>0, <1>4, HeadTailProperties
  <2> QED
    BY <1>0, <2>1 DEF CapacityInv
<1>5. CASE UNCHANGED queue
  BY <1>5 DEF CapacityInv
<1> QED
  BY <1>2, <1>3, <1>4, <1>5, QueueSteps

(* Every step keeps what the batch holds.                                  *)
LEMMA NextBatch ==
  ASSUME TypeInv, FinalInv, BatchInv, [Next]_vars
  PROVE  BatchInv'
<1>0. /\ batch \in Seq(Trainable) /\ Len(batch) \in Nat
      /\ setup.required_samples \in Nat \ {0}
      /\ FinalInv'
  BY SetupTypes, NextFinal DEF TypeInv, TrainerTypes
<1>1. CASE UNCHANGED <<setup, trainerVars>>
  BY <1>1 DEF BatchInv, trainerVars
<1>2. CASE UNCHANGED setup /\ TrainerGet
  <2>1. tp = "get" /\ tp' \in {"get", "got"} /\ batch' = batch
    BY <1>2 DEF TrainerGet
  <2> QED
    BY <1>2, <2>1 DEF BatchInv
<1>3. CASE UNCHANGED setup /\ TrainerGot
  <2>1. tp = "got" /\ Len(batch) < setup.required_samples
    BY <1>3 DEF TrainerGot, BatchInv
  <2>2. CASE batch' = Append(batch, mq_ret["trainer"])
              /\ tp' = IF Len(batch) + 1 = setup.required_samples THEN "train" ELSE "get"
    <3>1. Len(batch') = Len(batch) + 1
      BY <1>0, <2>1, <2>2, AppendProperties DEF TypeInv, TrainerTypes
    <3>2. CASE Len(batch) + 1 = setup.required_samples
      <4>1. tp' = "train" /\ Len(batch') = setup.required_samples
        BY <2>2, <3>1, <3>2
      <4> QED
        BY <1>3, <4>1 DEF BatchInv
    <3>3. CASE Len(batch) + 1 # setup.required_samples
      <4>1. tp' = "get"
        BY <2>2, <3>3
      <4>2. Len(batch') < setup.required_samples
        BY <1>0, <2>1, <3>1, <3>3
      <4> QED
        BY <1>3, <4>1, <4>2 DEF BatchInv
    <3> QED
      BY <3>2, <3>3
  <2>3. CASE tp' = "final wait" /\ final' = TRUE
    BY <2>3 DEF BatchInv
  <2> QED
    BY <1>3, <2>2, <2>3 DEF TrainerGot
<1>4. CASE UNCHANGED setup /\ TrainerStep
  <2>1. /\ batch' = <<>>
        /\ tp' = "log" \/ (tp' = "wait last" /\ local_trigger_step' = 1)
    BY <1>4 DEF TrainerStep
  <2> QED
    BY <2>1 DEF BatchInv
<1>5. CASE UNCHANGED setup /\ (StartSync \/ Broadcast)
  <2>1. /\ tp \in {"wait last", "pause"} /\ tp' \in {"pause", "broadcast"}
        /\ UNCHANGED <<batch, local_trigger_step, final>>
    BY <1>5 DEF StartSync, Broadcast
  <2> QED
    BY <2>1 DEF BatchInv
<1>6. CASE UNCHANGED setup /\ (EndSync \/ TrainerValidated)
  <2>1. /\ tp \in {"broadcast", "validate"} /\ tp' \in {"validate", "end wait", "log"}
        /\ UNCHANGED <<batch, final>>
    BY <1>6 DEF EndSync, TrainerValidated
  <2> QED
    BY <2>1 DEF BatchInv
<1>7. CASE UNCHANGED setup /\ TrainerLog
  <2>1. tp \in {"start", "log"} /\ tp' = "get" /\ batch' = batch
    BY <1>7, AfterLogIsGet DEF TrainerLog
  <2>2. ~final
    BY <2>1 DEF FinalInv
  <2>3. batch = <<>> /\ Len(batch) = 0
    BY <2>1, <2>2 DEF BatchInv
  <2>4. Len(batch') < setup'.required_samples
    BY <1>0, <1>7, <2>1, <2>3
  <2> QED
    BY <2>1, <2>4 DEF BatchInv
<1>8. CASE UNCHANGED setup /\ FinalWait
  <2>1. /\ tp' = "end" \/ (tp' = "wait last" /\ local_trigger_step' = 1)
        /\ tp = "final wait" /\ final' = final
    BY <1>8 DEF FinalWait
  <2>2. final'
    BY <2>1 DEF FinalInv
  <2> QED
    BY <2>1, <2>2 DEF BatchInv
<1>9. CASE EndWait
  <2>1. tp' = "end"
    BY <1>9 DEF EndWait
  <2> QED
    BY <2>1 DEF BatchInv
<1>10. CASE UNCHANGED setup /\ ValidateTask
  BY <1>10 DEF ValidateTask, BatchInv
<1> QED
  BY <1>1, <1>2, <1>3, <1>4, <1>5, <1>6, <1>7, <1>8, <1>9, <1>10, NextCases DEF Trainer,
     vars, trainerVars

(* So many samples are counted as training steps are done, and no more     *)
(* than a version has.                                                     *)
LEMMA StepBound ==
  ASSUME NEW l \in Nat \ {0}, NEW t \in Nat, l <= t, NEW r \in Nat, NEW n \in Nat, n <= r
  PROVE  (l - 1) * r + n \in Nat /\ (l - 1) * r + n <= r * t
<1>1. l - 1 \in Nat /\ (l - 1) * r \in Nat
  OBVIOUS
<1>2. (l - 1) * r = l * r - r
  BY Distribute
<1>3. l * r <= t * r
  BY ProductGrows
<1>4. t * r = r * t
  OBVIOUS
<1>5. PICK m \in Nat : m = (l - 1) * r
  BY <1>1
<1>6. PICK k \in Int : k = l * r
  OBVIOUS
<1>7. PICK q \in Int : q = r * t
  OBVIOUS
<1>8. m = k - r /\ k <= q
  BY <1>2, <1>3, <1>4, <1>5, <1>6, <1>7
<1>9. m + n \in Nat /\ m + n <= q
  BY <1>8
<1> QED
  BY <1>5, <1>7, <1>9

(* The count does not pass the samples of a version.                       *)
LEMMA CountedRange ==
  ASSUME TypeInv, FinalInv, BatchInv, ~final
  PROVE  Counted \in Nat /\ Quota \in Nat /\ Counted <= Quota
<1>0. /\ Quota \in Nat /\ setup.required_samples \in Nat \ {0}
      /\ setup.trigger_steps \in Nat \ {0}
      /\ Quota = setup.required_samples * setup.trigger_steps
  BY QuotaTypes, SetupTypes DEF TypeInv, Quota
<1>1. /\ local_trigger_step \in Nat \ {0} /\ local_trigger_step <= setup.trigger_steps
      /\ Len(batch) \in Nat
  BY <1>0 DEF TypeInv, TrainerTypes
<1>2. CASE tp \in {"wait last", "pause"}
  <2>1. Counted = Quota
    BY <1>2 DEF Counted
  <2>2. PICK q \in Nat : q = Quota
    BY <1>0
  <2> QED
    BY <2>1, <2>2
<1>3. CASE tp = "got"
  <2>1. Counted = (local_trigger_step - 1) * setup.required_samples + Len(batch) + 1
    BY <1>3 DEF Counted, StepDone
  <2>2. PICK n \in Nat : n = Len(batch) + 1
    BY <1>1
  <2>3. n <= setup.required_samples
    BY <1>0, <1>1, <1>3, <2>2 DEF BatchInv
  <2>4. /\ (local_trigger_step - 1) * setup.required_samples + n \in Nat
        /\ (local_trigger_step - 1) * setup.required_samples + n <= Quota
    BY <1>0, <1>1, <2>3, StepBound
  <2>5. (local_trigger_step - 1) * setup.required_samples \in Int
    BY <1>0, <1>1
  <2>6. Counted = (local_trigger_step - 1) * setup.required_samples + n
    BY <1>1, <2>1, <2>2, <2>5
  <2> QED
    BY <1>0, <2>4, <2>6
<1>4. CASE tp \notin {"wait last", "pause", "got"}
  <2>1. Counted = (local_trigger_step - 1) * setup.required_samples + Len(batch)
    BY <1>4 DEF Counted, StepDone
  <2>2. Len(batch) = setup.required_samples \/ Len(batch) < setup.required_samples
          \/ batch = <<>>
    BY <1>4 DEF BatchInv, FinalInv, TypeInv, TrainerTypes, TrainerPcs
  <2>3. Len(batch) <= setup.required_samples
    BY <1>0, <1>1, <2>2
  <2>4. /\ (local_trigger_step - 1) * setup.required_samples + Len(batch) \in Nat
        /\ (local_trigger_step - 1) * setup.required_samples + Len(batch) <= Quota
    BY <1>0, <1>1, <2>3, StepBound
  <2> QED
    BY <1>0, <2>1, <2>4
<1> QED
  BY <1>2, <1>3, <1>4

(* The count goes on when a sample is taken and starts anew when a version *)
(* is published; no other step changes it, or the queue's version.         *)
LEMMA CountedSteps ==
  ASSUME TypeInv, SyncInv, FinalInv, BatchInv, ~final, ~final', [Next]_vars
  PROVE  \/ Counted' = Counted /\ UNCHANGED mq_version /\ (tp' = "got" => tp = "got")
         \/ /\ queue # <<>> /\ queue' = Tail(queue)
            /\ mq_ret'["trainer"] = Head(queue)
            /\ Counted' = Counted + 1 /\ UNCHANGED <<mq_version, batch>>
         \/ /\ Counted = Quota /\ Counted' = 0 /\ mq_version' = mq_version + 1
            /\ tp' # "got" /\ batch' = <<>> /\ UNCHANGED queue
<1>0. /\ mq_version \in Nat /\ batch \in Seq(Trainable) /\ Len(batch) \in Nat
      /\ setup.required_samples \in Nat \ {0} /\ setup.trigger_steps \in Nat \ {0}
      /\ local_trigger_step \in 1 .. setup.trigger_steps
  BY SetupTypes DEF TypeInv, TrainerTypes, QueueTypes
<1>1. CASE UNCHANGED <<setup, tp, local_trigger_step, batch, mq_version>>
  BY <1>1 DEF Counted, StepDone, Quota
<1>2. CASE UNCHANGED vars
  BY <1>1, <1>2 DEF vars, rollouterVars, trainerVars, mqVars
<1>3. CASE /\ UNCHANGED <<setup, trainerVars>>
           /\ Feed \/ Processor \/ Main \/ Monitor \/ Rpc \/ \E i \in Ids : Task(i)
  BY <1>1, <1>3, SyncFrame, RpcFrame DEF trainerVars
<1>4. CASE UNCHANGED setup /\ TrainerGet
  <2>0. UNCHANGED <<batch, local_trigger_step, mq_version>>
    BY <1>4 DEF TrainerGet, MQ!GetSample, MQ!GetSampleResumed, MQ!GetBody
  <2>1. CASE tp' = "get"
    <3>1. tp' = tp
      BY <1>4, <2>1 DEF TrainerGet
    <3> QED
      BY <1>1, <1>4, <2>0, <3>1
  <2>2. CASE /\ queue # <<>> /\ queue' = Tail(queue) /\ tp' = "got"
             /\ mq_ret' = [mq_ret EXCEPT !["trainer"] = Head(queue)]
    <3>1. tp = "get"
      BY <1>4 DEF TrainerGet
    <3>2. Counted = StepDone /\ Counted' = StepDone' + 1 /\ StepDone' = StepDone
      BY <1>4, <2>0, <2>2, <3>1 DEF Counted, StepDone
    <3>3. mq_ret'["trainer"] = Head(queue)
      BY <2>2 DEF TypeInv, QueueTypes
    <3> QED
      BY <2>0, <2>2, <3>2, <3>3
  <2> QED
    BY <1>4, <2>1, <2>2, TrainerGetCases DEF TypeInv
<1>5. CASE UNCHANGED setup /\ TrainerGot
  <2>1. /\ tp = "got" /\ UNCHANGED <<local_trigger_step, mq_version>>
        /\ batch' = Append(batch, mq_ret["trainer"])
        /\ tp' \in {"train", "get"}
    BY <1>5 DEF TrainerGot, mqVars
  <2>2. Len(batch') = Len(batch) + 1
    BY <1>0, <2>1, AppendProperties DEF TypeInv, TrainerTypes
  <2>3. /\ Counted = StepDone + 1 /\ Counted' = StepDone'
        /\ StepDone = (local_trigger_step - 1) * setup.required_samples + Len(batch)
        /\ StepDone' = (local_trigger_step - 1) * setup.required_samples + (Len(batch) + 1)
    BY <1>5, <2>1, <2>2 DEF Counted, StepDone
  <2>4. PICK m \in Int : m = (local_trigger_step - 1) * setup.required_samples
    BY <1>0
  <2>5. Counted' = Counted
    BY <1>0, <2>3, <2>4
  <2> QED
    BY <2>1, <2>5
<1>6. CASE UNCHANGED setup /\ TrainerStep
  <2>1. /\ tp = "train" /\ batch' = <<>> /\ UNCHANGED mq_version
        /\ Len(batch) = setup.required_samples
    BY <1>6 DEF TrainerStep, mqVars, BatchInv
  <2>2. PICK l \in Int : l = local_trigger_step
    BY <1>0
  <2>3. PICK r \in Int : r = setup.required_samples
    BY <1>0
  <2>4. Counted = (l - 1) * r + r
    BY <2>1, <2>2, <2>3 DEF Counted, StepDone
  <2>5. (l - 1) * r = l * r - r
    BY Distribute
  <2>6. Counted = l * r
    BY <2>4, <2>5
  <2>7. CASE /\ local_trigger_step < setup.trigger_steps
             /\ local_trigger_step' = local_trigger_step + 1 /\ tp' = "log"
    <3>1. Counted' = (local_trigger_step' - 1) * setup'.required_samples + Len(batch')
      BY <2>7 DEF Counted, StepDone
    <3>2. Len(batch') = 0 /\ local_trigger_step' - 1 = l /\ setup'.required_samples = r
      BY <1>0, <1>6, <2>1, <2>2, <2>3, <2>7
    <3>3. Counted' = l * r
      BY <3>1, <3>2
    <3> QED
      BY <2>1, <2>6, <2>7, <3>3
  <2>8. CASE ~(local_trigger_step < setup.trigger_steps) /\ tp' = "wait last"
    <3>1. Counted' = setup'.required_samples * setup'.trigger_steps
      BY <2>8 DEF Counted, Quota
    <3>0. PICK t \in Nat : t = setup.trigger_steps
      BY <1>0
    <3>2. setup'.required_samples = r /\ setup'.trigger_steps = t
      BY <1>6, <2>3, <3>0
    <3>7. ~(l < t)
      BY <2>2, <2>8, <3>0
    <3>8. l \in 1 .. t
      BY <1>0, <2>2, <3>0
    <3>4. l <= t /\ ~(l < t)
      BY <3>7, <3>8
    <3>5. t = l
      BY <3>4
    <3>6. Counted' = r * l
      BY <3>1, <3>2, <3>5
    <3>3. Counted' = l * r
      BY <3>6
    <3> QED
      BY <2>1, <2>6, <2>8, <3>3
  <2> QED
    BY <1>6, <2>7, <2>8 DEF TrainerStep
<1>7. CASE UNCHANGED setup /\ StartSync
  BY <1>7 DEF StartSync, mqVars, Counted, Quota
<1>8. CASE UNCHANGED setup /\ Broadcast
  <2>1. /\ tp = "pause" /\ tp' = "broadcast" /\ mq_version' = version
        /\ UNCHANGED <<batch, local_trigger_step, queue>>
    BY <1>8 DEF Broadcast, MQ!UpdateParamVersion
  <2>2. batch = <<>> /\ local_trigger_step = 1
    BY <2>1 DEF BatchInv
  <2>3. Counted = Quota /\ Counted' = StepDone'
    BY <2>1 DEF Counted
  <2>4. StepDone' = (1 - 1) * setup.required_samples + 0
    BY <1>8, <2>1, <2>2 DEF StepDone
  <2>5. Counted' = 0
    BY <1>0, <2>3, <2>4
  <2>6. mq_version' = mq_version + 1
    BY <2>1 DEF SyncInv, VersionDistance
  <2> QED
    BY <2>1, <2>2, <2>3, <2>5, <2>6
<1>9. CASE UNCHANGED setup /\ (EndSync \/ TrainerValidated \/ TrainerLog)
  <2>1. /\ UNCHANGED <<batch, local_trigger_step>>
        /\ tp \notin {"wait last", "pause", "got"}
    BY <1>9, AfterLogIsGet DEF EndSync, TrainerValidated, TrainerLog
  <2>2. tp' \notin {"wait last", "pause", "got"}
    BY <1>9, AfterLogIsGet DEF EndSync, TrainerValidated, TrainerLog
  <2>3. UNCHANGED mq_version
    BY <1>9 DEF EndSync, TrainerValidated, TrainerLog, LogValidationData, MQ!GetValidate,
       mqVars
  <2> QED
    BY <1>9, <2>1, <2>2, <2>3 DEF Counted, StepDone
<1>10. CASE FinalWait \/ EndWait
  BY <1>10 DEF FinalWait, EndWait, FinalInv
<1>11. CASE UNCHANGED setup /\ ValidateTask
  BY <1>1, <1>11 DEF ValidateTask, mqVars
<1> QED
  BY <1>2, <1>3, <1>4, <1>5, <1>6, <1>7, <1>8, <1>9, <1>10, <1>11, NextCases DEF Trainer

(* Where a sample of the queue was before the step.                        *)
LEMMA QueuePositions ==
  ASSUME TypeInv, [Next]_vars, NEW k \in 1 .. Len(queue')
  PROVE  \/ \E j \in 1 .. Len(queue) : k <= j /\ queue'[k] = queue[j]
         \/ queue'[k].id = Done
         \/ \E i \in Ids : phase[i] = "put" /\ queue'[k].version = stamp[i]
<1>0. queue \in Seq(SampleNat) /\ Len(queue) \in Nat
  BY DEF TypeInv, QueueTypes
<1>1. ASSUME NEW s \in SampleNat, MQ!PutSample(s), queue'[k] # s
      PROVE  \E j \in 1 .. Len(queue) : k <= j /\ queue'[k] = queue[j]
  <2>1. PICK d \in {0, 1} :
           /\ d <= Len(queue)
           /\ Len(queue') = Len(queue) - d + 1
           /\ \A j \in 1 .. Len(queue) - d : queue'[j] = queue[j + d]
           /\ queue'[Len(queue')] = s
    BY <1>1, PutSampleQueue DEF TypeInv
  <2>2. k # Len(queue')
    BY <1>1, <2>1
  <2>3. k \in 1 .. Len(queue) - d /\ k + d \in 1 .. Len(queue) /\ k <= k + d
    BY <1>0, <2>1, <2>2
  <2>4. queue'[k] = queue[k + d]
    BY <2>1, <2>3
  <2> QED
    BY <2>3, <2>4
<1>2. CASE UNCHANGED queue
  BY <1>0, <1>2
<1>3. CASE queue # <<>> /\ queue' = Tail(queue)
  <2>1. /\ Len(queue') = Len(queue) - 1
        /\ \A j \in 1 .. Len(queue') : queue'[j] = queue[j + 1]
    BY <1>0, <1>3, HeadTailProperties
  <2>2. k + 1 \in 1 .. Len(queue) /\ k <= k + 1
    BY <1>0, <2>1
  <2> QED
    BY <2>1, <2>2
<1>4. CASE MainPutNone
  <2> DEFINE s == [id |-> Done, born |-> 0, version |-> current_param_version]
  <2>1. s \in SampleNat /\ MQ!PutSample(s)
    BY <1>4, PutTypes DEF MainPutNone
  <2>2. s.id = Done
    OBVIOUS
  <2> HIDE DEF s
  <2> QED
    BY <1>1, <2>1, <2>2
<1>5. ASSUME NEW i \in Ids, TaskPut(i)
      PROVE  \/ \E j \in 1 .. Len(queue) : k <= j /\ queue'[k] = queue[j]
             \/ phase[i] = "put" /\ queue'[k].version = stamp[i]
  <2> DEFINE s == [id |-> i, born |-> born[i], version |-> stamp[i]]
  <2>1. s \in SampleNat /\ MQ!PutSample(s) /\ phase[i] = "put"
    BY <1>5, PutTypes DEF TaskPut
  <2>2. s.version = stamp[i]
    OBVIOUS
  <2> HIDE DEF s
  <2> QED
    BY <1>1, <2>1, <2>2
<1> QED
  BY <1>2, <1>3, <1>4, <1>5, QueueSteps

(* When a sample is put, the queue actor is at most one version past it.   *)
LEMMA PutWithinOneVersion ==
  ASSUME TypeInv, SyncInv, FreshTasks, NEW i \in Ids, phase[i] = "put"
  PROVE  stamp[i] \in Nat /\ mq_version \in Nat /\ mq_version <= stamp[i] + 1
<1>0. stamp[i] \in Nat /\ mq_version \in Nat /\ current_param_version \in Nat
  BY DEF TypeInv, TaskTypes, FlagTypes, QueueTypes
<1>1. /\ current_param_version <= stamp[i] + 1
      /\ rp \in StampWindow => current_param_version <= stamp[i]
  BY DEF FreshTasks
<1>2. CASE rp \in {"update", "updating"} \/ tp = "broadcast"
  <2>1. rp \in StampWindow /\ mq_version = current_param_version + 1
    BY <1>2 DEF SyncInv, HandShake, VersionDistance, StampWindow
  <2>2. mq_version = current_param_version + 1 /\ current_param_version <= stamp[i]
    BY <1>1, <2>1
  <2> QED
    BY <1>0, <2>2
<1>3. CASE ~(rp \in {"update", "updating"} \/ tp = "broadcast")
  <2>1. mq_version = current_param_version
    BY <1>3 DEF SyncInv, VersionDistance
  <2> QED
    BY <1>0, <1>1, <2>1
<1> QED
  BY <1>2, <1>3

(* The arithmetic of a sample that is put last in a queue of n + 1 places. *)
LEMMA RoomAtPut ==
  ASSUME NEW c \in Nat, NEW q \in Nat, NEW k \in Nat, NEW n \in Int, NEW l \in Nat,
         NEW v \in Nat, NEW m \in Nat,
         c <= q, k <= n + 1, n < (l - 1) * q, m <= v + 1
  PROVE  c + k - 1 < (v + l + 1 - m) * q
<1>1. (l - 1) * q = l * q - q
  BY Distribute
<1>2. l <= v + l + 1 - m
  OBVIOUS
<1>3. PICK a \in Int : a = v + l + 1 - m
  OBVIOUS
<1>4. l * q <= a * q
  BY <1>2, <1>3, ProductGrows
<1>5. PICK x \in Int : x = l * q
  OBVIOUS
<1>6. PICK y \in Int : y = a * q
  OBVIOUS
<1>7. n < x - q /\ x <= y
  BY <1>1, <1>4, <1>5, <1>6
<1>8. c + k - 1 < y
  BY <1>7
<1> QED
  BY <1>3, <1>6, <1>8

(* The arithmetic of a version that is published after q samples.          *)
LEMMA RoomAtBroadcast ==
  ASSUME NEW q \in Nat, NEW k \in Nat, NEW l \in Nat, NEW v \in Nat, NEW m \in Nat,
         q + k - 1 < (v + l + 1 - m) * q
  PROVE  0 + k - 1 < (v + l + 1 - (m + 1)) * q
<1>1. PICK a \in Int : a = v + l + 1 - m
  OBVIOUS
<1>2. v + l + 1 - (m + 1) = a - 1
  BY <1>1
<1>3. (a - 1) * q = a * q - q
  BY Distribute
<1>4. PICK y \in Int : y = a * q
  OBVIOUS
<1>5. q + k - 1 < y /\ (a - 1) * q = y - q
  BY <1>1, <1>3, <1>4
<1>6. 0 + k - 1 < y - q
  BY <1>5
<1> QED
  BY <1>2, <1>5, <1>6

(* fit()'s loop ends once.                                                 *)
LEMMA FinalStays ==
  ASSUME TypeInv, [Next]_vars, final
  PROVE  final'
<1>1. CASE Trainer \/ ValidateTask
  BY <1>1, TrainerSteps DEF TypeInv, TrainerTypes
<1> QED
  BY <1>1, NextCases DEF trainerVars, vars

(* Every step keeps room for what is queued.                               *)
LEMMA NextQueueFresh ==
  ASSUME TypeInv, SyncInv, FinalInv, FreshInv, [Next]_vars
  PROVE  QueueFresh'
<1> USE DEF FreshInv
<1> SUFFICES ASSUME ~final', NEW k \in 1 .. Len(queue'), queue'[k].id # Done
             PROVE  Counted' + k - 1
                      < (queue'[k].version + VersionLag' + 1 - mq_version') * Quota'
  BY DEF QueueFresh
<1>0. /\ ~final /\ setup' = setup
  BY FinalStays, NextCases DEF vars
<1>1. /\ queue \in Seq(SampleNat) /\ mq_version \in Nat /\ Len(queue) \in Nat
      /\ Len(queue') \in Nat
  <2>1. TypeInv'
    BY NextTypes
  <2> QED
    BY <2>1 DEF TypeInv, QueueTypes
<1>2. PICK q \in Nat : q = Quota /\ q = Quota'
  BY <1>0, QuotaTypes DEF TypeInv, Quota
<1>3. PICK l \in Nat : l = VersionLag /\ l = VersionLag'
  BY <1>0, QuotaTypes DEF TypeInv, VersionLag
<1>4. PICK c \in Nat : c = Counted /\ c <= q
  BY <1>0, <1>2, CountedRange
<1>5. PICK m \in Nat : m = mq_version
  BY <1>1
<1>6. k \in Nat
  BY <1>1
(* A sample that was in the queue before, at place j.                      *)
<1>7. ASSUME NEW j \in 1 .. Len(queue), queue'[k] = queue[j]
      PROVE  queue'[k].version \in Nat /\ c + j - 1 < (queue'[k].version + l + 1 - m) * q
  <2>1. queue[j].version \in Nat
    <3>1. queue[j] \in SampleNat
      BY <1>1
    <3> QED
      BY <3>1 DEF SampleNat
  <2>2. Counted + j - 1 < (queue[j].version + VersionLag + 1 - mq_version) * Quota
    BY <1>0, <1>7 DEF QueueFresh
  <2> QED
    BY <1>2, <1>3, <1>4, <1>5, <1>7, <2>1, <2>2
<1>8. CASE Counted' = Counted /\ UNCHANGED mq_version
  <2>1. ASSUME NEW j \in 1 .. Len(queue), k <= j, queue'[k] = queue[j]
        PROVE  c + k - 1 < (queue'[k].version + l + 1 - m) * q
    <3>1. PICK v \in Nat : v = queue'[k].version /\ c + j - 1 < (v + l + 1 - m) * q
      BY <1>7, <2>1
    <3>2. (v + l + 1 - m) * q \in Int /\ j \in Nat
      BY <1>1
    <3>3. PICK y \in Int : y = (v + l + 1 - m) * q
      BY <3>2
    <3>4. c + k - 1 < y
      BY <1>6, <2>1, <3>1, <3>2, <3>3
    <3> QED
      BY <3>1, <3>3, <3>4
  <2>2. ASSUME NEW i \in Ids, phase[i] = "put", queue'[k].version = stamp[i]
        PROVE  c + k - 1 < (queue'[k].version + l + 1 - m) * q
    <3>1. PICK v \in Nat : v = queue'[k].version /\ m <= v + 1
      BY <1>5, <2>2, PutWithinOneVersion
    <3>2. PICK n \in Int : n = MaxRequired - 1
      BY SizeAssumption
    <3>3. k <= n + 1
      <4>1. Len(queue') <= MaxRequired
        BY NextCapacity DEF CapacityInv
      <4> QED
        BY <1>1, <1>6, <3>2, <4>1, SizeAssumption
    <3>4. n < (l - 1) * q
      BY <1>2, <1>3, <3>2, QuotaTypes DEF TypeInv
    <3>5. c + k - 1 < (v + l + 1 - m) * q
      BY <1>4, <1>6, <3>1, <3>3, <3>4, RoomAtPut
    <3> QED
      BY <3>1, <3>5
  <2>3. c + k - 1 < (queue'[k].version + l + 1 - m) * q
    BY <2>1, <2>2, QueuePositions
  <2> QED
    BY <1>2, <1>3, <1>4, <1>5, <1>8, <2>3
<1>9. CASE /\ queue # <<>> /\ queue' = Tail(queue)
           /\ Counted' = Counted + 1 /\ UNCHANGED mq_version
  <2>1. Len(queue') = Len(queue) - 1 /\ queue'[k] = queue[k + 1]
    BY <1>1, <1>9, HeadTailProperties
  <2>2. k + 1 \in 1 .. Len(queue)
    BY <1>1, <2>1
  <2>3. PICK v \in Nat : v = queue'[k].version /\ c + (k + 1) - 1 < (v + l + 1 - m) * q
    BY <1>7, <2>1, <2>2
  <2>4. (c + 1) + k - 1 = c + (k + 1) - 1
    BY <1>6
  <2>5. (c + 1) + k - 1 < (v + l + 1 - m) * q
    BY <2>3, <2>4
  <2> QED
    BY <1>2, <1>3, <1>4, <1>5, <1>9, <2>3, <2>5
<1>10. CASE /\ Counted = Quota /\ Counted' = 0 /\ mq_version' = mq_version + 1
            /\ UNCHANGED queue
  <2>1. k \in 1 .. Len(queue) /\ queue'[k] = queue[k]
    BY <1>10
  <2>2. PICK v \in Nat : v = queue'[k].version /\ c + k - 1 < (v + l + 1 - m) * q
    BY <1>7, <2>1
  <2>3. c = q
    BY <1>2, <1>4, <1>10
  <2>4. q + k - 1 < (v + l + 1 - m) * q
    BY <2>2, <2>3
  <2>5. 0 + k - 1 < (v + l + 1 - (m + 1)) * q
    BY <1>6, <2>4, RoomAtBroadcast
  <2> QED
    BY <1>2, <1>3, <1>5, <1>10, <2>2, <2>5
<1> QED
  BY <1>0, <1>8, <1>9, <1>10, CountedSteps

(* Only get_sample returns a sample to the trainer.                        *)
LEMMA ReturnSteps ==
  ASSUME TypeInv, [Next]_vars
  PROVE  TrainerGet \/ UNCHANGED mq_ret
<1>1. CASE UNCHANGED vars
  BY <1>1 DEF vars, rollouterVars, mqVars
<1>2. CASE Feed \/ Processor \/ Main \/ Monitor \/ Rpc \/ \E i \in Ids : Task(i)
  BY <1>2, FeedFrame, ProcessorFrame, MainFrame, MonitorFrame, RpcFrame, TaskFrame
     DEF mqVars
<1>3. CASE Trainer \/ ValidateTask
  BY <1>3, TrainerSteps DEF TypeInv, TrainerTypes
<1> QED
  BY <1>1, <1>2, <1>3, NextCases

(* Every step keeps fresh what was taken.                                  *)
LEMMA NextTakenFresh ==
  ASSUME TypeInv, SyncInv, FinalInv, FreshInv, [Next]_vars
  PROVE  TakenFresh'
<1> USE DEF FreshInv
<1> SUFFICES ASSUME ~final'
             PROVE  /\ tp' = "got" /\ mq_ret'["trainer"].id # Done =>
                         mq_version' <= mq_ret'["trainer"].version + VersionLag'
                    /\ \A k \in 1 .. Len(batch') :
                         mq_version' <= batch'[k].version + VersionLag'
  BY DEF TakenFresh
<1>0. /\ ~final /\ setup' = setup
  BY FinalStays, NextCases DEF vars
<1>1. /\ queue \in Seq(SampleNat) /\ mq_version \in Nat /\ batch \in Seq(Trainable)
      /\ Len(batch) \in Nat /\ Len(queue) \in Nat
  BY DEF TypeInv, QueueTypes, TrainerTypes
<1>2. VersionLag' = VersionLag /\ VersionLag \in Nat
  BY <1>0, QuotaTypes DEF TypeInv, VersionLag
<1>3. /\ tp = "got" /\ mq_ret["trainer"].id # Done =>
           mq_version <= mq_ret["trainer"].version + VersionLag
      /\ \A k \in 1 .. Len(batch) : mq_version <= batch[k].version + VersionLag
  BY <1>0 DEF TakenFresh
<1>4. CASE Counted' = Counted /\ UNCHANGED mq_version /\ (tp' = "got" => tp = "got")
  <2>1. ASSUME tp' = "got"
        PROVE  UNCHANGED mq_ret /\ tp = "got"
    <3>1. ~TrainerGet
      BY <1>4, <2>1 DEF TrainerGet
    <3> QED
      BY <1>4, <2>1, <3>1, ReturnSteps
  <2>2. ASSUME NEW k \in 1 .. Len(batch')
        PROVE  mq_version' <= batch'[k].version + VersionLag'
    <3>1. CASE batch' = batch
      BY <1>2, <1>3, <1>4, <2>2, <3>1
    <3>2. CASE /\ tp = "got" /\ mq_ret["trainer"].id # Done
               /\ batch' = Append(batch, mq_ret["trainer"])
      <4>0. mq_ret["trainer"] \in Trainable
        BY <3>2 DEF TypeInv, TrainerTypes, Trainable
      <4>1. /\ Len(batch') = Len(batch) + 1
            /\ \A j \in 1 .. Len(batch) : batch'[j] = batch[j]
            /\ batch'[Len(batch) + 1] = mq_ret["trainer"]
        BY <1>1, <3>2, <4>0, AppendProperties
      <4>2. k \in 1 .. Len(batch) \/ k = Len(batch) + 1
        BY <1>1, <2>2, <4>1
      <4>3. CASE k \in 1 .. Len(batch)
        BY <1>2, <1>3, <1>4, <4>1, <4>3
      <4>4. CASE k = Len(batch) + 1
        BY <1>2, <1>3, <1>4, <3>2, <4>1, <4>4
      <4> QED
        BY <4>2, <4>3, <4>4
    <3>3. CASE batch' = <<>>
      BY <2>2, <3>3
    <3>4. \/ batch' = batch
          \/ /\ tp = "got" /\ mq_ret["trainer"].id # Done
             /\ batch' = Append(batch, mq_ret["trainer"])
          \/ batch' = <<>>
      BY NextCases, TrainerSteps DEF TypeInv, TrainerTypes, trainerVars, vars
    <3> QED
      BY <3>1, <3>2, <3>3, <3>4
  <2> QED
    BY <1>2, <1>3, <1>4, <2>1, <2>2
<1>5. CASE /\ queue # <<>> /\ queue' = Tail(queue)
           /\ mq_ret'["trainer"] = Head(queue)
           /\ Counted' = Counted + 1 /\ UNCHANGED <<mq_version, batch>>
  <2>1. ASSUME mq_ret'["trainer"].id # Done
        PROVE  mq_version' <= mq_ret'["trainer"].version + VersionLag'
    <3>1. mq_ret'["trainer"] = queue[1] /\ 1 \in 1 .. Len(queue)
      BY <1>1, <1>5
    <3>2. PICK v \in Nat : v = queue[1].version
      <4>1. queue[1] \in SampleNat
        BY <1>1, <3>1
      <4> QED
        BY <4>1 DEF SampleNat
    <3>3. PICK c \in Nat : c = Counted
      BY <1>0, CountedRange
    <3>4. PICK l \in Nat : l = VersionLag
      BY <1>2
    <3>5. PICK q \in Nat : q = Quota
      BY QuotaTypes DEF TypeInv
    <3>6. PICK m \in Nat : m = mq_version
      BY <1>1
    <3>7. c + 1 - 1 < (v + l + 1 - m) * q
      BY <1>0, <2>1, <3>1, <3>2, <3>3, <3>4, <3>5, <3>6 DEF QueueFresh
    <3>8. PICK a \in Int : a = v + l + 1 - m
      OBVIOUS
    <3>9. PICK y \in Int : y = a * q
      OBVIOUS
    <3>10. 0 < y
      BY <3>7, <3>8, <3>9
    <3>11. 0 < a
      BY <3>9, <3>10, FactorPositive
    <3>12. m <= v + l
      BY <3>8, <3>11
    <3> QED
      BY <1>2, <1>5, <3>1, <3>2, <3>4, <3>6, <3>12
  <2> QED
    BY <1>2, <1>3, <1>5, <2>1
<1>6. CASE tp' # "got" /\ batch' = <<>>
  BY <1>6
<1> QED
  BY <1>0, <1>4, <1>5, <1>6, CountedSteps

(* Nothing is queued or taken at first.                                    *)
LEMMA InitFresh == PipelineInit => FinalInv /\ FreshInv
<1> SUFFICES ASSUME PipelineInit
             PROVE  FinalInv /\ FreshInv
  OBVIOUS
<1>1. FreshTasks
  BY DEF PipelineInit, Init, FreshTasks
<1>2. queue = <<>> /\ batch = <<>> /\ tp = "start" /\ final = FALSE
  BY DEF PipelineInit, Init
<1>3. CapacityInv
  BY <1>2, SizeAssumption DEF CapacityInv
<1>4. BatchInv
  BY <1>2 DEF BatchInv
<1>5. QueueFresh /\ TakenFresh
  BY <1>2 DEF QueueFresh, TakenFresh
<1> QED
  BY <1>1, <1>2, <1>3, <1>4, <1>5 DEF FreshInv, FinalInv

(* Freshness control: what is put is at most one version old, what is      *)
(* trained on at most VersionLag versions, whatever the sizes, the pauses, *)
(* the interruptions and the drops.                                        *)
THEOREM TrainedSamplesAreFresh == Spec => []TrainedSamplesFresh
<1>1. TypeInv /\ SyncInv /\ FinalInv /\ FreshInv => TrainedSamplesFresh
  <2> SUFFICES ASSUME TypeInv, SyncInv, FinalInv, FreshInv
               PROVE  TrainedSamplesFresh
    OBVIOUS
  <2>1. ASSUME NEW i \in Ids, phase[i] = "put"
        PROVE  mq_version - stamp[i] <= 1
    BY <2>1, PutWithinOneVersion DEF FreshInv
  <2>2. ASSUME ~final, NEW k \in 1 .. Len(batch)
        PROVE  version - batch[k].version <= VersionLag
    <3>0. batch # <<>> /\ ~final
      BY <2>2
    <3>1. tp \in {"get", "got", "train"}
      BY <3>0 DEF FreshInv, BatchInv, FinalInv, TypeInv, TrainerTypes, TrainerPcs
    <3>2. version = mq_version
      BY <3>1 DEF SyncInv, VersionDistance
    <3>3. mq_version <= batch[k].version + VersionLag
      BY <2>2 DEF FreshInv, TakenFresh
    <3>4. mq_version \in Nat /\ VersionLag \in Nat /\ batch[k].version \in Nat
      <4>1. batch[k] \in Trainable
        BY DEF TypeInv, TrainerTypes
      <4> QED
        BY <4>1, QuotaTypes DEF TypeInv, QueueTypes, Trainable, SampleNat
    <3> QED
      BY <3>2, <3>3, <3>4
  <2> QED
    BY <2>1, <2>2 DEF TrainedSamplesFresh
<1>2. Spec => [](TypeInv /\ SyncInv /\ FinalInv /\ FreshInv)
  <2>1. PipelineInit => TypeInv /\ SyncInv /\ FinalInv /\ FreshInv
    BY InitTypes, InitSync, InitFresh
  <2>2. TypeInv /\ SyncInv /\ FinalInv /\ FreshInv /\ [Next]_vars =>
          (TypeInv /\ SyncInv /\ FinalInv /\ FreshInv)'
    <3> SUFFICES ASSUME TypeInv, SyncInv, FinalInv, FreshInv, [Next]_vars
                 PROVE  (TypeInv /\ SyncInv /\ FinalInv /\ FreshInv)'
      OBVIOUS
    <3> QED
      BY NextTypes, NextSync, NextFinal, NextFreshTasks, NextCapacity, NextBatch,
         NextQueueFresh, NextTakenFresh DEF FreshInv
  <2> QED
    BY <2>1, <2>2, PTL DEF Spec
<1> QED
  BY <1>1, <1>2, PTL
-----------------------------------------------------------------------------
(* Exactly-once: where a sample is.                                        *)

(* Sequences whose elements differ, and whose samples do.                  *)
Apart(seq) == \A k, l \in 1 .. Len(seq) : seq[k] = seq[l] => k = l
SamplesApart(seq) ==
  \A k, l \in 1 .. Len(seq) : seq[k].id = seq[l].id /\ seq[k].id # Done => k = l

(* The head of such a sequence is not in its tail.                         *)
LEMMA ApartTail ==
  ASSUME NEW S, NEW seq \in Seq(S), seq # <<>>, Apart(seq)
  PROVE  /\ Apart(Tail(seq))
         /\ \A i : In(i, Tail(seq)) <=> In(i, seq) /\ i # Head(seq)
<1>1. /\ Len(seq) \in Nat /\ Len(seq) >= 1 /\ Len(Tail(seq)) = Len(seq) - 1
      /\ Head(seq) = seq[1]
      /\ \A k \in 1 .. Len(Tail(seq)) : Tail(seq)[k] = seq[k + 1]
  BY HeadTailProperties
<1>2. \A k \in 1 .. Len(Tail(seq)) : k + 1 \in 1 .. Len(seq)
  BY <1>1
<1>3. Apart(Tail(seq))
  <2> SUFFICES ASSUME NEW k \in 1 .. Len(Tail(seq)), NEW l \in 1 .. Len(Tail(seq)),
                      Tail(seq)[k] = Tail(seq)[l]
               PROVE  k = l
    BY DEF Apart
  <2>1. seq[k + 1] = seq[l + 1] /\ k + 1 \in 1 .. Len(seq) /\ l + 1 \in 1 .. Len(seq)
    BY <1>1, <1>2
  <2>2. k + 1 = l + 1
    BY <2>1 DEF Apart
  <2> QED
    BY <1>1, <2>2
<1>4. ASSUME NEW i, In(i, Tail(seq))
      PROVE  In(i, seq) /\ i # Head(seq)
  <2>1. PICK k \in 1 .. Len(Tail(seq)) : Tail(seq)[k] = i
    BY <1>4 DEF In
  <2>2. k + 1 \in 1 .. Len(seq) /\ seq[k + 1] = i /\ k + 1 # 1 /\ 1 \in 1 .. Len(seq)
    BY <1>1, <1>2, <2>1
  <2> QED
    BY <1>1, <2>2 DEF In, Apart
<1>5. ASSUME NEW i, In(i, seq), i # Head(seq)
      PROVE  In(i, Tail(seq))
  <2>1. PICK k \in 1 .. Len(seq) : seq[k] = i
    BY <1>5 DEF In
  <2>2. k # 1
    BY <1>1, <1>5, <2>1
  <2>3. PICK j \in 1 .. Len(Tail(seq)) : k = j + 1
    <3>1. k - 1 \in 1 .. Len(Tail(seq)) /\ k = (k - 1) + 1
      BY <1>1, <2>2
    <3> QED
      BY <3>1
  <2>4. Tail(seq)[j] = i
    BY <1>1, <2>1, <2>3
  <2> QED
    BY <2>4 DEF In
<1> QED
  BY <1>3, <1>4, <1>5

(* What is not in such a sequence may be appended to it.                   *)
LEMMA ApartAppend ==
  ASSUME NEW S, NEW seq \in Seq(S), NEW x \in S, Apart(seq), ~In(x, seq)
  PROVE  /\ Apart(Append(seq, x))
         /\ \A i : In(i, Append(seq, x)) <=> In(i, seq) \/ i = x
<1>1. /\ Len(seq) \in Nat /\ Len(Append(seq, x)) = Len(seq) + 1
      /\ \A k \in 1 .. Len(seq) : Append(seq, x)[k] = seq[k]
      /\ Append(seq, x)[Len(seq) + 1] = x
  BY AppendProperties
<1>2. \A k \in 1 .. Len(Append(seq, x)) : k \in 1 .. Len(seq) \/ k = Len(seq) + 1
  BY <1>1
<1>3. /\ \A k \in 1 .. Len(seq) : k \in 1 .. Len(Append(seq, x))
      /\ Len(seq) + 1 \in 1 .. Len(Append(seq, x))
  BY <1>1
<1> DEFINE longer == Append(seq, x)
<1> HIDE DEF longer
<1>4. Apart(longer)
  <2> SUFFICES ASSUME NEW k \in 1 .. Len(longer), NEW l \in 1 .. Len(longer),
                      longer[k] = longer[l]
               PROVE  k = l
    BY DEF Apart
  <2>1. CASE k \in 1 .. Len(seq) /\ l \in 1 .. Len(seq)
    BY <1>1, <2>1 DEF Apart, longer
  <2>2. CASE k = Len(seq) + 1 /\ l = Len(seq) + 1
    BY <2>2
  <2>3. CASE k \in 1 .. Len(seq) /\ l = Len(seq) + 1
    BY <1>1, <2>3 DEF In, longer
  <2>4. CASE l \in 1 .. Len(seq) /\ k = Len(seq) + 1
    BY <1>1, <2>4 DEF In, longer
  <2> QED
    BY <1>2, <2>1, <2>2, <2>3, <2>4 DEF longer
<1>5. \A i : In(i, longer) <=> In(i, seq) \/ i = x
  BY <1>1, <1>2, <1>3 DEF In, longer
<1> QED
  BY <1>4, <1>5 DEF longer

(* The same of sequences of samples, by their numbers.                     *)
LEMMA SamplesApartTail ==
  ASSUME NEW seq \in Seq(SampleNat), seq # <<>>, SamplesApart(seq)
  PROVE  /\ SamplesApart(Tail(seq))
         /\ \A i \in Ids : InSamples(i, Tail(seq)) <=>
              InSamples(i, seq) /\ i # Head(seq).id
<1>1. /\ Len(seq) \in Nat /\ Len(seq) >= 1 /\ Len(Tail(seq)) = Len(seq) - 1
      /\ Head(seq) = seq[1]
      /\ \A k \in 1 .. Len(Tail(seq)) : Tail(seq)[k] = seq[k + 1]
  BY HeadTailProperties
<1>2. \A k \in 1 .. Len(Tail(seq)) : k + 1 \in 1 .. Len(seq)
  BY <1>1
<1>3. SamplesApart(Tail(seq))
  <2> SUFFICES ASSUME NEW k \in 1 .. Len(Tail(seq)), NEW l \in 1 .. Len(Tail(seq)),
                      Tail(seq)[k].id = Tail(seq)[l].id, Tail(seq)[k].id # Done
               PROVE  k = l
    BY DEF SamplesApart
  <2>1. /\ seq[k + 1].id = seq[l + 1].id /\ seq[k + 1].id # Done
        /\ k + 1 \in 1 .. Len(seq) /\ l + 1 \in 1 .. Len(seq)
    BY <1>1, <1>2
  <2>2. k + 1 = l + 1
    BY <2>1 DEF SamplesApart
  <2> QED
    BY <1>1, <2>2
<1>4. ASSUME NEW i \in Ids, InSamples(i, Tail(seq))
      PROVE  InSamples(i, seq) /\ i # Head(seq).id
  <2>1. PICK k \in 1 .. Len(Tail(seq)) : Tail(seq)[k].id = i
    BY <1>4 DEF InSamples
  <2>2. k + 1 \in 1 .. Len(seq) /\ seq[k + 1].id = i /\ k + 1 # 1 /\ 1 \in 1 .. Len(seq)
    BY <1>1, <1>2, <2>1
  <2>3. i # Done
    BY DEF Ids, Done
  <2> QED
    BY <1>1, <2>2, <2>3 DEF InSamples, SamplesApart
<1>5. ASSUME NEW i \in Ids, InSamples(i, seq), i # Head(seq).id
      PROVE  InSamples(i, Tail(seq))
  <2>1. PICK k \in 1 .. Len(seq) : seq[k].id = i
    BY <1>5 DEF InSamples
  <2>2. k # 1
    BY <1>1, <1>5, <2>1
  <2>3. PICK j \in 1 .. Len(Tail(seq)) : k = j + 1
    <3>1. k - 1 \in 1 .. Len(Tail(seq)) /\ k = (k - 1) + 1
      BY <1>1, <2>2
    <3> QED
      BY <3>1
  <2>4. Tail(seq)[j].id = i
    BY <1>1, <2>1, <2>3
  <2> QED
    BY <2>4 DEF InSamples
<1> QED
  BY <1>3, <1>4, <1>5

(* And of a new sample, or of the closing None, at the end.                *)
LEMMA SamplesApartAppend ==
  ASSUME NEW seq \in Seq(SampleNat), NEW s \in SampleNat, SamplesApart(seq),
         s.id = Done \/ ~InSamples(s.id, seq)
  PROVE  /\ SamplesApart(Append(seq, s))
         /\ \A i \in Ids : InSamples(i, Append(seq, s)) <=> InSamples(i, seq) \/ i = s.id
<1>1. /\ Len(seq) \in Nat /\ Len(Append(seq, s)) = Len(seq) + 1
      /\ \A k \in 1 .. Len(seq) : Append(seq, s)[k] = seq[k]
      /\ Append(seq, s)[Len(seq) + 1] = s
  BY AppendProperties
<1>2. \A k \in 1 .. Len(Append(seq, s)) : k \in 1 .. Len(seq) \/ k = Len(seq) + 1
  BY <1>1
<1>3. /\ \A k \in 1 .. Len(seq) : k \in 1 .. Len(Append(seq, s))
      /\ Len(seq) + 1 \in 1 .. Len(Append(seq, s))
  BY <1>1
<1> DEFINE longer == Append(seq, s)
<1> HIDE DEF longer
<1>4. SamplesApart(longer)
  <2> SUFFICES ASSUME NEW k \in 1 .. Len(longer), NEW l \in 1 .. Len(longer),
                      longer[k].id = longer[l].id, longer[k].id # Done
               PROVE  k = l
    BY DEF SamplesApart
  <2>1. CASE k \in 1 .. Len(seq) /\ l \in 1 .. Len(seq)
    BY <1>1, <2>1 DEF SamplesApart, longer
  <2>2. CASE k = Len(seq) + 1 /\ l = Len(seq) + 1
    BY <2>2
  <2>3. CASE k \in 1 .. Len(seq) /\ l = Len(seq) + 1
    BY <1>1, <2>3 DEF InSamples, longer
  <2>4. CASE l \in 1 .. Len(seq) /\ k = Len(seq) + 1
    BY <1>1, <2>4 DEF InSamples, longer
  <2> QED
    BY <1>2, <2>1, <2>2, <2>3, <2>4 DEF longer
<1>5. \A i \in Ids : InSamples(i, longer) <=> InSamples(i, seq) \/ i = s.id
  BY <1>1, <1>2, <1>3 DEF InSamples, longer
<1> QED
  BY <1>4, <1>5 DEF longer

(* pending_queue holds a run of the numbers fed, with DONE after the last. *)
Position(x) == IF x <= TotalSamples THEN x ELSE Done
PendingInv ==
  /\ Len(pending_queue) <= fed
  /\ \A k \in 1 .. Len(pending_queue) :
       pending_queue[k] = Position(fed - Len(pending_queue) + k)

(* So membership in it is a matter of two bounds.                          *)
LEMMA PendingMembers ==
  TypeInv /\ PendingInv =>
    \A i \in Ids : In(i, pending_queue) <=>
                     fed - Len(pending_queue) < i /\ i <= fed
<1> SUFFICES ASSUME TypeInv, PendingInv, NEW i \in Ids
             PROVE  In(i, pending_queue) <=> fed - Len(pending_queue) < i /\ i <= fed
  OBVIOUS
<1>1. /\ Len(pending_queue) \in Nat /\ fed \in Nat /\ fed <= TotalSamples + 1
      /\ TotalSamples \in Nat /\ i \in Nat /\ i <= TotalSamples /\ i # 0
  BY SizeAssumption DEF TypeInv, FeedTypes, Ids
<1>2. ASSUME NEW k \in 1 .. Len(pending_queue), pending_queue[k] = i
      PROVE  fed - Len(pending_queue) < i /\ i <= fed
  <2>1. Position(fed - Len(pending_queue) + k) = i
    BY <1>2 DEF PendingInv
  <2>2. i = fed - Len(pending_queue) + k
    BY <1>1, <2>1 DEF Position, Done
  <2> QED
    BY <1>1, <2>2
<1>3. ASSUME fed - Len(pending_queue) < i, i <= fed
      PROVE  \E k \in 1 .. Len(pending_queue) : pending_queue[k] = i
  <2>1. PICK k \in Int : k = i - fed + Len(pending_queue)
    BY <1>1
  <2>2. k \in 1 .. Len(pending_queue) /\ fed - Len(pending_queue) + k = i
    BY <1>1, <1>3, <2>1
  <2>3. pending_queue[k] = Position(i)
    BY <2>2 DEF PendingInv
  <2> QED
    BY <1>1, <2>2, <2>3 DEF Position
<1> QED
  BY <1>2, <1>3 DEF In

(* The same after a step.                                                  *)
LEMMA PendingMembersNext ==
  (TypeInv /\ PendingInv =>
    \A i \in Ids : In(i, pending_queue) <=>
                     fed - Len(pending_queue) < i /\ i <= fed)'
  BY PendingMembers, PTL

(* The feeder goes on where it was; what it feeds is what it appends.      *)
LEMMA FeedPending ==
  ASSUME TypeInv, PendingInv, Feed
  PROVE  PendingInv' /\ fed' \in Nat /\ fed <= fed'
           /\ fed' - Len(pending_queue') = fed - Len(pending_queue)
<1> DEFINE room == setup.pending_capacity - Len(pending_queue)
           left == TotalSamples + 1 - fed
           n == IF room < left THEN room ELSE left
           more == [k \in 1 .. n |-> IF fed + k <= TotalSamples THEN fed + k ELSE Done]
<1>1. /\ Len(pending_queue) \in Nat /\ fed \in Nat /\ TotalSamples \in Nat
      /\ pending_queue \in Seq(0 .. TotalSamples)
  BY SizeAssumption DEF TypeInv, FeedTypes
<1>2. /\ pending_queue' = pending_queue \o more /\ fed' = fed + n /\ n > 0
  BY DEF Feed
<1>3. n \in Nat
  <2>1. room \in Int /\ left \in Int
    BY <1>1, SetupTypes DEF TypeInv
  <2> QED
    BY <1>2, <2>1
<1> HIDE DEF n
<1>4. more \in Seq(0 .. TotalSamples) /\ Len(more) = n
  <2>1. \A k \in 1 .. n : (IF fed + k <= TotalSamples THEN fed + k ELSE Done) \in 0 .. TotalSamples
    BY <1>1, <1>3 DEF Done
  <2>2. more \in [1 .. n -> 0 .. TotalSamples]
    BY <2>1
  <2> QED
    BY <1>3, <2>2
<1>5. \A k \in 1 .. n : more[k] = Position(fed + k)
  BY DEF Position
<1> HIDE DEF more
<1>6. /\ Len(pending_queue') = Len(pending_queue) + n
      /\ \A k \in 1 .. Len(pending_queue) + n :
           pending_queue'[k] = IF k <= Len(pending_queue) THEN pending_queue[k]
                               ELSE more[k - Len(pending_queue)]
  BY <1>1, <1>2, <1>4, ConcatProperties
<1>7. fed' - Len(pending_queue') = fed - Len(pending_queue)
  BY <1>1, <1>2, <1>3, <1>6
<1>8. ASSUME NEW k \in 1 .. Len(pending_queue')
      PROVE  pending_queue'[k] = Position(fed' - Len(pending_queue') + k)
  <2>1. CASE k <= Len(pending_queue)
    <3>1. k \in 1 .. Len(pending_queue) /\ pending_queue'[k] = pending_queue[k]
      BY <1>1, <1>3, <1>6, <1>8, <2>1
    <3>2. pending_queue[k] = Position(fed - Len(pending_queue) + k)
      BY <3>1 DEF PendingInv
    <3> QED
      BY <1>7, <3>1, <3>2
  <2>2. CASE ~(k <= Len(pending_queue))
    <3>1. PICK j \in Int : j = k - Len(pending_queue)
      BY <1>1
    <3>2. j \in 1 .. n /\ pending_queue'[k] = more[j]
      BY <1>1, <1>3, <1>6, <1>8, <2>2, <3>1
    <3>3. fed + j = fed' - Len(pending_queue') + k
      BY <1>1, <1>7, <3>1
    <3> QED
      BY <1>5, <3>2, <3>3
  <2> QED
    BY <2>1, <2>2
<1>9. Len(pending_queue') <= fed'
  <2>1. Len(pending_queue) <= fed
    BY DEF PendingInv
  <2> QED
    BY <1>1, <1>2, <1>3, <1>6, <2>1
<1>10. PendingInv'
  BY <1>8, <1>9 DEF PendingInv, Position
<1> QED
  BY <1>1, <1>2, <1>3, <1>7, <1>10

(* Taking the head of pending_queue.                                       *)
LEMMA TakePending ==
  ASSUME TypeInv, PendingInv, pending_queue # <<>>,
         pending_queue' = Tail(pending_queue), UNCHANGED fed
  PROVE  /\ PendingInv'
         /\ \A i \in Ids : /\ In(i, pending_queue) <=>
                                In(i, pending_queue') \/ i = Head(pending_queue)
                           /\ i = Head(pending_queue) => ~In(i, pending_queue')
<1>1. /\ Len(pending_queue) \in Nat /\ fed \in Nat /\ Len(pending_queue) <= fed
      /\ fed <= TotalSamples + 1 /\ TotalSamples \in Nat
      /\ pending_queue \in Seq(0 .. TotalSamples)
  BY SizeAssumption DEF TypeInv, FeedTypes, PendingInv
<1>2. /\ Len(pending_queue) >= 1 /\ Len(pending_queue') = Len(pending_queue) - 1
      /\ Head(pending_queue) = pending_queue[1]
      /\ \A k \in 1 .. Len(pending_queue') : pending_queue'[k] = pending_queue[k + 1]
  BY <1>1, HeadTailProperties
<1>3. PendingInv'
  <2>1. ASSUME NEW k \in 1 .. Len(pending_queue')
        PROVE  pending_queue'[k] = Position(fed' - Len(pending_queue') + k)
    <3>1. /\ k + 1 \in 1 .. Len(pending_queue)
          /\ fed - Len(pending_queue) + (k + 1) = fed' - Len(pending_queue') + k
      BY <1>1, <1>2
    <3>2. pending_queue[k + 1] = Position(fed - Len(pending_queue) + (k + 1))
      BY <3>1 DEF PendingInv
    <3> QED
      BY <1>2, <3>1, <3>2
  <2>2. Len(pending_queue') <= fed'
    BY <1>1, <1>2
  <2> QED
    BY <2>1, <2>2 DEF PendingInv, Position
<1>4. ASSUME NEW i \in Ids
      PROVE  /\ In(i, pending_queue) <=> In(i, pending_queue') \/ i = Head(pending_queue)
             /\ i = Head(pending_queue) => ~In(i, pending_queue')
  <2>1. Head(pending_queue) = Position(fed - Len(pending_queue) + 1)
    <3>1. 1 \in 1 .. Len(pending_queue)
      BY <1>1, <1>2
    <3> QED
      BY <1>2, <3>1 DEF PendingInv
  <2>2. In(i, pending_queue) <=> fed - Len(pending_queue) < i /\ i <= fed
    BY PendingMembers
  <2>3. \A k \in 1 .. Len(pending_queue') : pending_queue'[k] = Position(fed - Len(pending_queue') + k)
    BY <1>3 DEF PendingInv, Position
  <2>4. i \in Nat /\ i <= TotalSamples /\ i # 0
    BY <1>1 DEF Ids
  <2>5. i = Head(pending_queue) <=> i = fed - Len(pending_queue) + 1
    BY <1>1, <1>2, <2>1, <2>4 DEF Position, Done
  <2>6. In(i, pending_queue') <=> fed - Len(pending_queue') < i /\ i <= fed
    <3>1. ASSUME NEW k \in 1 .. Len(pending_queue'), pending_queue'[k] = i
          PROVE  fed - Len(pending_queue') < i /\ i <= fed
      <4>1. Position(fed - Len(pending_queue') + k) = i
        BY <2>3, <3>1
      <4>2. i = fed - Len(pending_queue') + k
        BY <1>1, <1>2, <2>4, <4>1 DEF Position, Done
      <4> QED
        BY <1>1, <1>2, <4>2
    <3>2. ASSUME fed - Len(pending_queue') < i, i <= fed
          PROVE  \E k \in 1 .. Len(pending_queue') : pending_queue'[k] = i
      <4>0. Len(pending_queue') \in Int /\ i - fed \in Int
        BY <1>1, <1>2, <2>4
      <4>1. PICK k \in Int : k = i - fed + Len(pending_queue')
        BY <4>0
      <4>2. k \in 1 .. Len(pending_queue') /\ fed - Len(pending_queue') + k = i
        BY <1>1, <1>2, <2>4, <3>2, <4>1
      <4>3. pending_queue'[k] = Position(i)
        BY <2>3, <4>2
      <4> QED
        BY <2>4, <4>2, <4>3 DEF Position
    <3> QED
      BY <3>1, <3>2 DEF In
  <2> QED
    BY <1>1, <1>2, <2>2, <2>4, <2>5, <2>6
<1> QED
  BY <1>3, <1>4

(* put_sample: the new sample joins the queue, the oldest may be dropped.  *)
LEMMA PutPlaces ==
  ASSUME TypeInv, SamplesApart(queue), NEW s \in SampleNat, MQ!PutSample(s),
         s.id = Done \/ ~InSamples(s.id, queue)
  PROVE  /\ SamplesApart(queue')
         /\ \E x \in 0 .. TotalSamples :
              /\ \A i \in Ids : InSamples(i, queue') <=>
                                  (InSamples(i, queue) /\ i # x) \/ i = s.id
              /\ x # Done => InSamples(x, queue) /\ mq_dropped' = mq_dropped + 1
              /\ mq_dropped' \in {mq_dropped, mq_dropped + 1}
<1>1. /\ queue \in Seq(SampleNat) /\ Len(queue) \in Nat /\ mq_dropped \in Nat
      /\ MaxRequired \in Nat \ {0}
  BY SizeAssumption DEF TypeInv, QueueTypes
<1>2. CASE MQ!Full
  <2>1. /\ queue' = Append(Tail(queue), s) /\ mq_dropped' = mq_dropped + 1
        /\ Len(queue) >= MaxRequired
    BY <1>2 DEF MQ!PutSample, MQ!Full
  <2>2. queue # <<>> /\ Tail(queue) \in Seq(SampleNat) /\ Head(queue) = queue[1]
        /\ 1 \in 1 .. Len(queue) /\ Head(queue) \in SampleNat
    <3>1. queue # <<>>
      BY <1>1, <2>1
    <3> QED
      BY <1>1, <3>1, HeadTailProperties
  <2>3. /\ SamplesApart(Tail(queue))
        /\ \A i \in Ids : InSamples(i, Tail(queue)) <=> InSamples(i, queue) /\ i # Head(queue).id
    BY <1>1, <2>2, SamplesApartTail
  <2>4. s.id = Done \/ ~InSamples(s.id, Tail(queue))
    <3>1. s.id \in Ids \/ s.id = Done
      BY SizeAssumption DEF SampleNat, Ids, Done
    <3> QED
      BY <2>3, <3>1
  <2>5. /\ SamplesApart(queue')
        /\ \A i \in Ids : InSamples(i, queue') <=> InSamples(i, Tail(queue)) \/ i = s.id
    BY <2>1, <2>2, <2>3, <2>4, SamplesApartAppend
  <2>6. Head(queue).id \in 0 .. TotalSamples /\ InSamples(Head(queue).id, queue)
    BY <2>2 DEF SampleNat, InSamples
  <2> QED
    BY <2>1, <2>3, <2>5, <2>6
<1>3. CASE ~MQ!Full
  <2>1. queue' = Append(queue, s) /\ mq_dropped' = mq_dropped
    BY <1>1, <1>3 DEF MQ!PutSample
  <2>2. /\ SamplesApart(queue')
        /\ \A i \in Ids : InSamples(i, queue') <=> InSamples(i, queue) \/ i = s.id
    BY <1>1, <2>1, SamplesApartAppend
  <2>3. Done \in 0 .. TotalSamples /\ Done \notin Ids
    BY SizeAssumption DEF Done, Ids
  <2> QED
    BY <2>1, <2>2, <2>3
<1> QED
  BY <1>2, <1>3

(* The places of a sample.                                                 *)
PlaceNames == {"pending", "cancelled", "hand", "task", "queue", "got", "batch", "trained"}

(* Each of them, by itself.                                                *)
LEMMA PlacesAre ==
  ASSUME NEW i
  PROVE  /\ Places(i) \in SUBSET PlaceNames
         /\ "pending" \in Places(i) <=> In(i, pending_queue)
         /\ "cancelled" \in Places(i) <=> In(i, cancel_queue)
         /\ "hand" \in Places(i) <=> hand = i
         /\ "task" \in Places(i) <=> phase[i] \in {"gen", "put"}
         /\ "queue" \in Places(i) <=> InSamples(i, queue)
         /\ "got" \in Places(i) <=> tp = "got" /\ mq_ret["trainer"].id = i
         /\ "batch" \in Places(i) <=> InSamples(i, batch)
         /\ "trained" \in Places(i) <=> i \in trained
  BY DEF Places, PlaceNames

(* The same after a step.                                                  *)
LEMMA PlacesAreNext ==
  ASSUME NEW i
  PROVE  /\ Places(i)' \in SUBSET PlaceNames
         /\ "pending" \in Places(i)' <=> In(i, pending_queue')
         /\ "cancelled" \in Places(i)' <=> In(i, cancel_queue')
         /\ "hand" \in Places(i)' <=> hand' = i
         /\ "task" \in Places(i)' <=> phase'[i] \in {"gen", "put"}
         /\ "queue" \in Places(i)' <=> InSamples(i, queue')
         /\ "got" \in Places(i)' <=> tp' = "got" /\ mq_ret'["trainer"].id = i
         /\ "batch" \in Places(i)' <=> InSamples(i, batch')
         /\ "trained" \in Places(i)' <=> i \in trained'
  BY DEF Places, PlaceNames, In, InSamples

(* Sample i is in place p after the step if it was before.                 *)
Keeps(i, p) == p \in Places(i)' <=> p \in Places(i)

(* A place keeps its samples while its variables keep their values.        *)
LEMMA PlacesFrame ==
  ASSUME NEW i
  PROVE  /\ UNCHANGED pending_queue => Keeps(i, "pending")
         /\ UNCHANGED cancel_queue => Keeps(i, "cancelled")
         /\ UNCHANGED hand => Keeps(i, "hand")
         /\ UNCHANGED phase => Keeps(i, "task")
         /\ UNCHANGED queue => Keeps(i, "queue")
         /\ UNCHANGED <<tp, mq_ret>> => Keeps(i, "got")
         /\ tp # "got" /\ tp' # "got" => Keeps(i, "got")
         /\ UNCHANGED batch => Keeps(i, "batch")
         /\ UNCHANGED trained => Keeps(i, "trained")
  BY PlacesAre, PlacesAreNext DEF Keeps

(* A sample that stays; one that goes from where it was to somewhere else. *)
Stays(i) == Places(i)' = Places(i)
Moves(i) == Places(i) # {} /\ \E q : Places(i)' = {q}
Alone(i) == \A p, q \in Places(i) : p = q

(* It stays if every place keeps it.                                       *)
LEMMA StaysIf ==
  ASSUME NEW i, \A p \in PlaceNames : Keeps(i, p)
  PROVE  Stays(i)
<1>1. Places(i) \in SUBSET PlaceNames /\ Places(i)' \in SUBSET PlaceNames
  BY PlacesAre, PlacesAreNext
<1>2. \A p : p \in Places(i)' <=> p \in Places(i)
  BY <1>1 DEF Keeps
<1> QED
  BY <1>2 DEF Stays

(* It moves if p alone loses it and q alone gets it.                       *)
LEMMA MovesIf ==
  ASSUME NEW i, Alone(i), NEW p, NEW q, p \in Places(i), q \in Places(i)',
         p # q => p \notin Places(i)',
         \A r \in PlaceNames \ {p, q} : Keeps(i, r)
  PROVE  Moves(i)
<1>1. Places(i) \in SUBSET PlaceNames /\ Places(i)' \in SUBSET PlaceNames
  BY PlacesAre, PlacesAreNext
<1>2. \A r : r \in Places(i)' => r = q
  <2> SUFFICES ASSUME NEW r \in Places(i)', r # q
               PROVE  FALSE
    OBVIOUS
  <2>1. CASE r = p
    BY <2>1
  <2>2. CASE r # p
    BY <1>1, <2>2 DEF Keeps, Alone
  <2> QED
    BY <2>1, <2>2
<1>3. Places(i)' = {q}
  BY <1>2
<1> QED
  BY <1>3 DEF Moves

(* Exactly-once as an inductive invariant: besides the property itself,    *)
(* what is in the queues, that a sample not yet fed is nowhere, and that   *)
(* no sample is in two elements of one queue.                              *)
Lost == {i \in Ids : i <= fed /\ Places(i) = {}}
SampleInv ==
  /\ PendingInv
  /\ Apart(cancel_queue)
  /\ SamplesApart(queue)
  /\ \A i \in Ids : Alone(i)
  /\ \A i \in Ids : fed < i => Places(i) = {}
  /\ Cardinality(Lost) <= mq_dropped + failures

(* What a step does to the samples: all stay or move on, but for at most   *)
(* one that is lost and counted.                                           *)
Conserved(x) ==
  /\ \A i \in Ids : i # x => Stays(i) \/ Moves(i)
  /\ x # Done => /\ Places(x)' \subseteq Places(x)
                 /\ mq_dropped' + failures' = mq_dropped + failures + 1
  /\ x = Done => mq_dropped' + failures' >= mq_dropped + failures
QueuesApart == PendingInv' /\ Apart(cancel_queue') /\ SamplesApart(queue')
SampleStep ==
  /\ QueuesApart
  /\ UNCHANGED fed
  /\ \E x \in 0 .. TotalSamples : Conserved(x)

(* The queues that a step leaves alone stay as they were.                  *)
LEMMA QueuesFrame ==
  ASSUME SampleInv
  PROVE  /\ UNCHANGED <<pending_queue, fed>> => PendingInv'
         /\ UNCHANGED cancel_queue => Apart(cancel_queue')
         /\ UNCHANGED queue => SamplesApart(queue')
  BY DEF SampleInv, PendingInv, Position

(* A step in which nothing moves.                                          *)
LEMMA NothingMoves ==
  ASSUME TypeInv, SampleInv,
         UNCHANGED <<pending_queue, cancel_queue, fed, hand, queue, batch, trained>>,
         \A i \in Ids : Keeps(i, "task") /\ Keeps(i, "got"),
         mq_dropped' \in Nat, mq_dropped' >= mq_dropped, UNCHANGED failures
  PROVE  SampleStep
<1>1. ASSUME NEW i \in Ids
      PROVE  Stays(i)
  BY <1>1, PlacesFrame, StaysIf DEF PlaceNames
<1>2. Conserved(Done)
  BY <1>1 DEF Conserved, TypeInv, QueueTypes, TaskTypes
<1>3. Done \in 0 .. TotalSamples
  BY SizeAssumption DEF Done
<1> QED
  BY <1>2, <1>3, QueuesFrame DEF SampleStep, QueuesApart

(* A step in which one sample moves from p to q and nothing is lost.       *)
LEMMA OneMoves ==
  ASSUME TypeInv, SampleInv, QueuesApart, UNCHANGED <<fed, mq_dropped, failures>>,
         NEW j \in Ids, NEW p \in PlaceNames, NEW q \in PlaceNames, p # q,
         p \in Places(j), p \notin Places(j)', q \in Places(j)',
         \A r \in PlaceNames \ {p, q} : \A i \in Ids : Keeps(i, r),
         \A i \in Ids : i # j => Keeps(i, p) /\ Keeps(i, q)
  PROVE  SampleStep
<1>1. Moves(j)
  BY MovesIf DEF SampleInv
<1>2. ASSUME NEW i \in Ids, i # j
      PROVE  Stays(i)
  <2>1. \A r \in PlaceNames : Keeps(i, r)
    BY <1>2
  <2> QED
    BY <2>1, StaysIf
<1>3. Conserved(Done)
  BY <1>1, <1>2 DEF Conserved, TypeInv, QueueTypes, TaskTypes
<1>4. Done \in 0 .. TotalSamples
  BY SizeAssumption DEF Done
<1> QED
  BY <1>3, <1>4 DEF SampleStep

(* The processor takes a sample or makes it a task.                        *)
LEMMA ProcessorMoves ==
  ASSUME TypeInv, HandInv, SampleInv, Processor, UNCHANGED trainerVars
  PROVE  SampleStep
<1>0. /\ UNCHANGED <<fed, mq_dropped, failures, queue, batch, trained>>
      /\ \A i \in Ids : Keeps(i, "queue") /\ Keeps(i, "got") /\ Keeps(i, "batch")
                          /\ Keeps(i, "trained")
  <2>1. UNCHANGED <<fed, mq_dropped, failures, queue, batch, trained, tp, mq_ret>>
    BY ProcessorFrame DEF mqVars, trainerVars
  <2> QED
    BY <2>1, PlacesFrame
<1>1. ASSUME UNCHANGED <<pending_queue, cancel_queue, hand, phase>>
      PROVE  SampleStep
  <2>1. \A i \in Ids : Keeps(i, "task")
    BY <1>1, PlacesFrame
  <2>2. mq_dropped' \in Nat /\ mq_dropped' >= mq_dropped
    BY <1>0 DEF TypeInv, QueueTypes
  <2> QED
    BY <1>0, <1>1, <2>1, <2>2, NothingMoves
<1>2. CASE ProcessorCheck
  <2>1. UNCHANGED <<pending_queue, phase>> /\ hand = Done
    BY <1>2 DEF ProcessorCheck, HandInv
  <2>2. CASE /\ cancel_queue # <<>> /\ hand' = Head(cancel_queue)
             /\ cancel_queue' = Tail(cancel_queue)
    <3>1. /\ cancel_queue \in Seq(Ids) /\ Head(cancel_queue) \in Ids
          /\ In(Head(cancel_queue), cancel_queue)
      <4>1. cancel_queue \in Seq(Ids) /\ Len(cancel_queue) \in Nat
        BY DEF TypeInv, FeedTypes
      <4>2. Head(cancel_queue) = cancel_queue[1] /\ 1 \in 1 .. Len(cancel_queue)
        BY <2>2, <4>1, HeadTailProperties
      <4> QED
        BY <4>1, <4>2 DEF In
    <3> PICK j \in Ids : j = Head(cancel_queue)
      BY <3>1
    <3>2. /\ Apart(cancel_queue')
          /\ \A i : In(i, cancel_queue') <=> In(i, cancel_queue) /\ i # j
      <4>1. Apart(cancel_queue)
        BY DEF SampleInv
      <4> QED
        BY <2>2, <3>1, <4>1, ApartTail
    <3>3. j \in Ids /\ hand' = j /\ In(j, cancel_queue) /\ Done \notin Ids
      BY <2>2, <3>1 DEF Ids, Done
    <3>4. QueuesApart
      BY <1>0, <2>1, <3>2, QueuesFrame DEF QueuesApart
    <3>5. /\ "cancelled" \in Places(j) /\ "cancelled" \notin Places(j)'
          /\ "hand" \in Places(j)'
      BY <3>2, <3>3, PlacesAre, PlacesAreNext
    <3>6. \A i \in Ids : i # j => Keeps(i, "cancelled") /\ Keeps(i, "hand")
      BY <2>1, <3>2, <3>3, PlacesAre, PlacesAreNext DEF Keeps
    <3>7. \A i \in Ids : Keeps(i, "pending") /\ Keeps(i, "task")
      BY <2>1, PlacesFrame
    <3>8. \A r \in PlaceNames \ {"cancelled", "hand"} : \A i \in Ids : Keeps(i, r)
      BY <1>0, <3>7 DEF PlaceNames
    <3>9. "cancelled" \in PlaceNames /\ "hand" \in PlaceNames
      BY DEF PlaceNames
    <3> QED
      BY <1>0, <3>3, <3>4, <3>5, <3>6, <3>8, <3>9, OneMoves
  <2> QED
    BY <1>1, <1>2, <2>1, <2>2 DEF ProcessorCheck
<1>3. CASE ProcessorGet
  <2>1. /\ UNCHANGED <<cancel_queue, phase>> /\ hand = Done /\ pending_queue # <<>>
        /\ hand' = Head(pending_queue) /\ pending_queue' = Tail(pending_queue)
    BY <1>3 DEF ProcessorGet, HandInv
  <2> PICK j \in 0 .. TotalSamples : j = Head(pending_queue)
    <3>1. pending_queue \in Seq(0 .. TotalSamples)
      BY DEF TypeInv, FeedTypes
    <3> QED
      BY <2>1, <3>1, HeadTailProperties
  <2>2. j \in Ids \/ j = Done
    BY SizeAssumption DEF Ids, Done
  <2>3. /\ PendingInv'
        /\ \A i \in Ids : /\ In(i, pending_queue) <=> In(i, pending_queue') \/ i = j
                          /\ i = j => ~In(i, pending_queue')
    BY <1>0, <2>1, TakePending DEF SampleInv
  <2>4. hand' = j /\ Done \notin Ids
    BY <2>1 DEF Ids, Done
  <2>5. QueuesApart
    BY <1>0, <2>1, <2>3, QueuesFrame DEF QueuesApart
  <2>6. \A i \in Ids : i # j => Keeps(i, "pending") /\ Keeps(i, "hand")
    BY <2>1, <2>3, <2>4, PlacesAre, PlacesAreNext DEF Keeps
  <2>7. \A i \in Ids : Keeps(i, "cancelled") /\ Keeps(i, "task")
    BY <2>1, PlacesFrame
  <2>8. CASE j = Done
    <3>1. \A i \in Ids : Stays(i)
      BY <1>0, <2>4, <2>6, <2>7, <2>8, StaysIf DEF PlaceNames
    <3>2. Conserved(Done)
      BY <1>0, <3>1 DEF Conserved, TypeInv, QueueTypes, TaskTypes
    <3>3. Done \in 0 .. TotalSamples
      BY SizeAssumption DEF Done
    <3> QED
      BY <1>0, <2>5, <3>2, <3>3 DEF SampleStep
  <2>9. CASE j \in Ids
    <3>1. /\ "pending" \in Places(j) /\ "pending" \notin Places(j)'
          /\ "hand" \in Places(j)'
      BY <2>3, <2>4, <2>9, PlacesAre, PlacesAreNext
    <3>2. \A r \in PlaceNames \ {"pending", "hand"} : \A i \in Ids : Keeps(i, r)
      BY <1>0, <2>7 DEF PlaceNames
    <3>3. "pending" \in PlaceNames /\ "hand" \in PlaceNames
      BY DEF PlaceNames
    <3> QED
      BY <1>0, <2>5, <2>6, <2>9, <3>1, <3>2, <3>3, OneMoves
  <2> QED
    BY <2>2, <2>8, <2>9
<1>4. CASE ProcessorSubmit
  <2>1. /\ UNCHANGED <<cancel_queue, pending_queue>> /\ pp = "submit"
        /\ phase' = [phase EXCEPT ![hand] = "gen"] /\ hand' = Done
    BY <1>4 DEF ProcessorSubmit
  <2>2. hand \in Ids /\ Done \notin Ids
    <3>1. hand # Done /\ hand \in 0 .. TotalSamples
      BY <2>1 DEF HandInv, LoopPcs, TypeInv, PcTypes
    <3> QED
      BY <3>1, SizeAssumption DEF Ids, Done
  <2> PICK j \in Ids : j = hand
    BY <2>2
  <2>3. phase \in [Ids -> Phases] /\ phase' = [phase EXCEPT ![j] = "gen"]
    BY <2>1 DEF TypeInv, TaskTypes
  <2>4. QueuesApart
    BY <1>0, <2>1, QueuesFrame DEF QueuesApart
  <2>5. /\ "hand" \in Places(j) /\ "hand" \notin Places(j)'
        /\ "task" \in Places(j)'
    BY <2>1, <2>2, <2>3, PlacesAre, PlacesAreNext
  <2>6. \A i \in Ids : i # j => Keeps(i, "hand") /\ Keeps(i, "task")
    BY <2>1, <2>2, <2>3, PlacesAre, PlacesAreNext DEF Keeps
  <2>7. \A i \in Ids : Keeps(i, "pending") /\ Keeps(i, "cancelled")
    BY <2>1, PlacesFrame
  <2>8. \A r \in PlaceNames \ {"hand", "task"} : \A i \in Ids : Keeps(i, r)
    BY <1>0, <2>7 DEF PlaceNames
  <2>9. "hand" \in PlaceNames /\ "task" \in PlaceNames
    BY DEF PlaceNames
  <2> QED
    BY <1>0, <2>4, <2>5, <2>6, <2>8, <2>9, OneMoves
<1>5. CASE ~ProcessorCheck /\ ~ProcessorGet /\ ~ProcessorSubmit
  BY <1>1, <1>5, ProcessorSteps
<1> QED
  BY <1>2, <1>3, <1>4, <1>5

(* A task ends, puts its sample, gives it back or loses it.                *)
LEMMA TaskMoves ==
  ASSUME TypeInv, SampleInv, NEW j \in Ids, Task(j), UNCHANGED trainerVars
  PROVE  SampleStep
<1>0. /\ UNCHANGED <<pending_queue, fed, hand, batch, trained, tp, mq_ret>>
      /\ \A i \in Ids : Keeps(i, "pending") /\ Keeps(i, "hand") /\ Keeps(i, "got")
                          /\ Keeps(i, "batch") /\ Keeps(i, "trained")
  <2>1. UNCHANGED <<pending_queue, fed, hand, batch, trained, tp, mq_ret>>
    BY TaskFrame DEF procVars, trainerVars
  <2> QED
    BY <2>1, PlacesFrame
<1>1. phase \in [Ids -> Phases] /\ mq_dropped \in Nat /\ failures \in Nat
  BY DEF TypeInv, TaskTypes, QueueTypes
<1>2. \A x : phase' = [phase EXCEPT ![j] = x] =>
        \A i \in Ids : i # j => Keeps(i, "task")
  BY <1>1, PlacesAre, PlacesAreNext DEF Keeps
<1>3. CASE TaskGenerated(j) \/ TaskDone(j)
  <2>1. /\ UNCHANGED <<cancel_queue, queue, mq_dropped, failures>>
        /\ \/ phase[j] = "gen" /\ phase' = [phase EXCEPT ![j] = "put"]
           \/ /\ phase[j] \in {"sent", "sent, full"}
              /\ phase' = [phase EXCEPT ![j] = "none"]
    BY <1>3 DEF TaskGenerated, TaskDone, sampleQueues, mqVars
  <2>2. Keeps(j, "task")
    BY <1>1, <2>1, PlacesAre, PlacesAreNext DEF Keeps
  <2>3. \A i \in Ids : Keeps(i, "task") /\ Keeps(i, "got")
    BY <1>0, <1>2, <2>1, <2>2
  <2>4. UNCHANGED <<pending_queue, cancel_queue, fed, hand, queue, batch, trained>>
    BY <1>0, <2>1
  <2>5. mq_dropped' = mq_dropped /\ UNCHANGED failures
    BY <2>1
  <2>6. mq_dropped' \in Nat /\ mq_dropped' >= mq_dropped
    BY <1>1, <2>5
  <2> QED
    BY <2>3, <2>4, <2>5, <2>6, NothingMoves
<1>4. CASE TaskCancelled(j)
  <2>1. /\ UNCHANGED <<queue, mq_dropped, failures>> /\ phase[j] = "gen"
        /\ phase' = [phase EXCEPT ![j] = "none"]
        /\ cancel_queue' = Append(cancel_queue, j)
    BY <1>4 DEF TaskCancelled, mqVars
  <2>2. "task" \in Places(j) /\ "task" \notin Places(j)'
    BY <1>1, <2>1, PlacesAre, PlacesAreNext
  <2>3. ~In(j, cancel_queue)
    BY <2>2, PlacesAre DEF SampleInv, Alone
  <2>4. /\ Apart(cancel_queue')
        /\ \A i : In(i, cancel_queue') <=> In(i, cancel_queue) \/ i = j
    <3>1. cancel_queue \in Seq(Ids) /\ Apart(cancel_queue)
      BY DEF TypeInv, FeedTypes, SampleInv
    <3> QED
      BY <2>1, <2>3, <3>1, ApartAppend
  <2>5. "cancelled" \in Places(j)'
    BY <2>4, PlacesAreNext
  <2>6. \A i \in Ids : i # j => Keeps(i, "task") /\ Keeps(i, "cancelled")
    BY <1>2, <2>1, <2>4, PlacesAre, PlacesAreNext DEF Keeps
  <2>7. QueuesApart
    BY <1>0, <2>1, <2>4, QueuesFrame DEF QueuesApart
  <2>8. \A i \in Ids : Keeps(i, "queue")
    BY <2>1, PlacesFrame
  <2>9. \A r \in PlaceNames \ {"task", "cancelled"} : \A i \in Ids : Keeps(i, r)
    BY <1>0, <2>8 DEF PlaceNames
  <2>10. "task" \in PlaceNames /\ "cancelled" \in PlaceNames
    BY DEF PlaceNames
  <2> QED
    BY <1>0, <2>1, <2>2, <2>5, <2>6, <2>7, <2>9, <2>10, OneMoves
<1>5. CASE TaskRaises(j)
  <2>1. /\ UNCHANGED <<cancel_queue, queue, mq_dropped>> /\ phase[j] = "gen"
        /\ phase' = [phase EXCEPT ![j] = "none"] /\ failures' = failures + 1
    BY <1>5 DEF TaskRaises, sampleQueues, mqVars
  <2>2. \A i \in Ids : Keeps(i, "queue") /\ Keeps(i, "cancelled")
    BY <2>1, PlacesFrame
  <2>3. \A i \in Ids : i # j => Stays(i)
    BY <1>0, <1>2, <2>1, <2>2, StaysIf DEF PlaceNames
  <2>4. Places(j)' \subseteq Places(j)
    <3>1. "task" \notin Places(j)' /\ Places(j)' \in SUBSET PlaceNames
      BY <1>1, <2>1, PlacesAreNext
    <3>2. \A r \in PlaceNames \ {"task"} : Keeps(j, r)
      BY <1>0, <2>2 DEF PlaceNames
    <3> QED
      BY <3>1, <3>2 DEF Keeps
  <2>5. j # Done /\ j \in 0 .. TotalSamples
    BY SizeAssumption DEF Ids, Done
  <2>6. mq_dropped' + failures' = mq_dropped + failures + 1
    BY <1>1, <2>1
  <2>7. Conserved(j)
    BY <2>3, <2>4, <2>5, <2>6 DEF Conserved
  <2>8. QueuesApart
    BY <1>0, <2>1, QueuesFrame DEF QueuesApart
  <2> QED
    BY <1>0, <2>5, <2>7, <2>8 DEF SampleStep
<1>6. CASE TaskPut(j)
  <2>1. /\ UNCHANGED <<cancel_queue, failures>> /\ phase[j] = "put"
        /\ phase' = [phase EXCEPT ![j] = IF MQ!Full THEN "sent, full" ELSE "sent"]
        /\ MQ!PutSample([id |-> j, born |-> born[j], version |-> stamp[j]])
    BY <1>6 DEF TaskPut, sampleQueues
  <2>2. "task" \in Places(j) /\ "task" \notin Places(j)'
    BY <1>1, <2>1, PlacesAre, PlacesAreNext
  <2>3. ~InSamples(j, queue)
    BY <2>2, PlacesAre DEF SampleInv, Alone
  <2>4. /\ SamplesApart(queue')
        /\ \E x \in 0 .. TotalSamples :
             /\ \A i \in Ids : InSamples(i, queue') <=>
                                 (InSamples(i, queue) /\ i # x) \/ i = j
             /\ x # Done => InSamples(x, queue) /\ mq_dropped' = mq_dropped + 1
             /\ mq_dropped' \in {mq_dropped, mq_dropped + 1}
    <3> PICK s \in SampleNat : s = [id |-> j, born |-> born[j], version |-> stamp[j]]
      BY <2>1, PutTypes
    <3>1. s.id = j /\ MQ!PutSample(s) /\ SamplesApart(queue)
      BY <2>1 DEF SampleInv
    <3> QED
      BY <2>3, <3>1, PutPlaces
  <2>5. PICK x \in 0 .. TotalSamples :
          /\ \A i \in Ids : InSamples(i, queue') <=>
                              (InSamples(i, queue) /\ i # x) \/ i = j
          /\ x # Done => InSamples(x, queue) /\ mq_dropped' = mq_dropped + 1
          /\ mq_dropped' \in {mq_dropped, mq_dropped + 1}
    BY <2>4
  <2>6. /\ QueuesApart
        /\ \A i \in Ids : Keeps(i, "cancelled")
    BY <1>0, <2>1, <2>4, QueuesFrame, PlacesFrame DEF QueuesApart
  <2>7. Moves(j)
    <3>1. "queue" \in Places(j)'
      BY <2>5, PlacesAreNext
    <3>2. \A r \in PlaceNames \ {"task", "queue"} : Keeps(j, r)
      BY <1>0, <2>6 DEF PlaceNames
    <3> QED
      BY <2>2, <3>1, <3>2, MovesIf DEF SampleInv
  <2>8. ASSUME NEW i \in Ids, i # j, i # x
        PROVE  Stays(i)
    <3>1. Keeps(i, "task") /\ Keeps(i, "queue")
      BY <1>2, <2>1, <2>5, <2>8, PlacesAre, PlacesAreNext DEF Keeps
    <3>2. \A r \in PlaceNames : Keeps(i, r)
      BY <1>0, <2>6, <3>1 DEF PlaceNames
    <3> QED
      BY <3>2, StaysIf
  <2>9. ASSUME x # Done
        PROVE  Places(x)' \subseteq Places(x)
    <3>1. x \in Ids /\ x # j
      BY <2>3, <2>5, <2>9 DEF Ids, Done
    <3>2. "queue" \in Places(x) /\ "queue" \notin Places(x)'
      BY <2>5, <2>9, <3>1, PlacesAre, PlacesAreNext
    <3>3. \A r \in PlaceNames \ {"queue"} : Keeps(x, r)
      BY <1>0, <1>2, <2>1, <2>6, <3>1 DEF PlaceNames
    <3>4. Places(x)' \in SUBSET PlaceNames
      BY PlacesAreNext
    <3> QED
      BY <3>2, <3>3, <3>4 DEF Keeps
  <2>10. /\ x # Done => mq_dropped' + failures' = mq_dropped + failures + 1
         /\ mq_dropped' + failures' >= mq_dropped + failures
    <3>1. failures' = failures
      BY <2>1
    <3>2. /\ x # Done => mq_dropped' = mq_dropped + 1
          /\ mq_dropped' = mq_dropped \/ mq_dropped' = mq_dropped + 1
      BY <2>5
    <3> QED
      BY <1>1, <3>1, <3>2
  <2>11. Conserved(x)
    BY <2>7, <2>8, <2>9, <2>10 DEF Conserved
  <2> QED
    BY <1>0, <2>6, <2>11 DEF SampleStep
<1> QED
  BY <1>3, <1>4, <1>5, <1>6 DEF Task

(* The closing None may cost a sample.                                     *)
LEMMA MainMoves ==
  ASSUME TypeInv, SampleInv, Main, UNCHANGED trainerVars
  PROVE  SampleStep
<1>0. /\ UNCHANGED <<pending_queue, cancel_queue, fed, hand, phase, failures, batch,
                     trained, tp, mq_ret>>
      /\ \A i \in Ids : \A r \in PlaceNames \ {"queue"} : Keeps(i, r)
  <2>1. UNCHANGED <<pending_queue, cancel_queue, fed, hand, phase, failures, batch,
                    trained, tp, mq_ret>>
    BY MainFrame DEF procVars, trainerVars, sampleQueues, taskVars
  <2> QED
    BY <2>1, PlacesFrame DEF PlaceNames
<1>1. CASE MainStop \/ MainStopped
  <2>1. UNCHANGED <<queue, mq_dropped>>
    BY <1>1 DEF MainStop, MainStopped, mqVars
  <2>2. mq_dropped' \in Nat /\ mq_dropped' >= mq_dropped
    BY <2>1 DEF TypeInv, QueueTypes
  <2>3. \A i \in Ids : Keeps(i, "task") /\ Keeps(i, "got")
    BY <1>0 DEF PlaceNames
  <2> QED
    BY <1>0, <2>1, <2>2, <2>3, NothingMoves
<1>2. CASE MainPutNone
  <2>1. /\ SamplesApart(queue')
        /\ \E x \in 0 .. TotalSamples :
             /\ \A i \in Ids : InSamples(i, queue') <=> InSamples(i, queue) /\ i # x
             /\ x # Done => mq_dropped' = mq_dropped + 1
             /\ mq_dropped' \in {mq_dropped, mq_dropped + 1}
    <3> PICK s \in SampleNat :
              s = [id |-> Done, born |-> 0, version |-> current_param_version]
      BY PutTypes
    <3>1. s.id = Done /\ MQ!PutSample(s) /\ SamplesApart(queue)
      BY <1>2 DEF MainPutNone, SampleInv
    <3>2. Done \notin Ids
      BY DEF Ids, Done
    <3> QED
      BY <3>1, <3>2, PutPlaces
  <2>2. PICK x \in 0 .. TotalSamples :
          /\ \A i \in Ids : InSamples(i, queue') <=> InSamples(i, queue) /\ i # x
          /\ x # Done => mq_dropped' = mq_dropped + 1
          /\ mq_dropped' \in {mq_dropped, mq_dropped + 1}
    BY <2>1
  <2>3. ASSUME NEW i \in Ids, i # x
        PROVE  Stays(i)
    <3>1. Keeps(i, "queue")
      BY <2>2, <2>3, PlacesAre, PlacesAreNext DEF Keeps
    <3>2. \A r \in PlaceNames : Keeps(i, r)
      BY <1>0, <3>1
    <3> QED
      BY <3>2, StaysIf
  <2>4. ASSUME x # Done
        PROVE  Places(x)' \subseteq Places(x)
    <3>1. x \in Ids
      BY <2>4 DEF Ids, Done
    <3>2. "queue" \notin Places(x)' /\ Places(x)' \in SUBSET PlaceNames
      BY <2>2, <3>1, PlacesAreNext
    <3> QED
      BY <1>0, <3>1, <3>2 DEF Keeps
  <2>5. /\ x # Done => mq_dropped' + failures' = mq_dropped + failures + 1
        /\ mq_dropped' + failures' >= mq_dropped + failures
    BY <1>0, <2>2 DEF TypeInv, QueueTypes, TaskTypes
  <2>6. Conserved(x)
    BY <2>3, <2>4, <2>5 DEF Conserved
  <2>7. QueuesApart
    BY <1>0, <2>1, QueuesFrame DEF QueuesApart
  <2> QED
    BY <1>0, <2>6, <2>7 DEF SampleStep
<1> QED
  BY <1>1, <1>2 DEF Main

(* The trainer collects the samples and trains on them.                    *)
LEMMA TrainerMoves ==
  ASSUME TypeInv, SampleInv, Trainer \/ ValidateTask
  PROVE  SampleStep
<1>0. /\ UNCHANGED <<pending_queue, cancel_queue, fed, hand, phase, failures, mq_dropped>>
      /\ \A i \in Ids : Keeps(i, "pending") /\ Keeps(i, "cancelled") /\ Keeps(i, "hand")
                          /\ Keeps(i, "task")
  <2>1. UNCHANGED <<pending_queue, cancel_queue, fed, hand, phase, failures, mq_dropped>>
    BY TrainerFrame DEF procVars, sampleQueues, taskVars
  <2> QED
    BY <2>1, PlacesFrame
<1>1. mq_dropped' \in Nat /\ mq_dropped' >= mq_dropped
  BY <1>0 DEF TypeInv, QueueTypes
<1>2. CASE TrainerGet
  <2>1. UNCHANGED <<batch, trained>> /\ tp = "get"
    BY <1>2 DEF TrainerGet
  <2>2. \A i \in Ids : Keeps(i, "batch") /\ Keeps(i, "trained")
    BY <2>1, PlacesFrame
  <2>3. CASE queue # <<>> /\ queue' = Tail(queue) /\ tp' = "got"
             /\ mq_ret'["trainer"] = Head(queue)
    <3>1. queue \in Seq(SampleNat)
      BY DEF TypeInv, QueueTypes
    <3>2. PICK s \in SampleNat : s = Head(queue) /\ \E k \in 1 .. Len(queue) : queue[k] = s
      <4>1. Len(queue) \in Nat /\ Head(queue) = queue[1] /\ 1 \in 1 .. Len(queue)
        BY <2>3, <3>1, HeadTailProperties
      <4> QED
        BY <3>1, <4>1
    <3>3. PICK j \in 0 .. TotalSamples : j = s.id
      BY DEF SampleNat
    <3>4. /\ SamplesApart(queue')
          /\ \A i \in Ids : InSamples(i, queue') <=> InSamples(i, queue) /\ i # j
      BY <2>3, <3>1, <3>2, <3>3, SamplesApartTail DEF SampleInv
    <3>5. QueuesApart
      BY <1>0, <3>4, QueuesFrame DEF QueuesApart
    <3>6. InSamples(j, queue)
      BY <3>2, <3>3 DEF InSamples
    <3>7. \A i \in Ids : i # j => Keeps(i, "queue") /\ Keeps(i, "got")
      BY <2>1, <2>3, <3>2, <3>3, <3>4, PlacesAre, PlacesAreNext DEF Keeps
    <3>8. CASE j \in Ids
      <4>1. /\ "queue" \in Places(j) /\ "queue" \notin Places(j)'
            /\ "got" \in Places(j)'
        BY <2>3, <3>2, <3>3, <3>4, <3>6, <3>8, PlacesAre, PlacesAreNext
      <4>2. \A r \in PlaceNames \ {"queue", "got"} : \A i \in Ids : Keeps(i, r)
        BY <1>0, <2>2 DEF PlaceNames
      <4>3. "queue" \in PlaceNames /\ "got" \in PlaceNames
        BY DEF PlaceNames
      <4> QED
        BY <1>0, <3>5, <3>7, <3>8, <4>1, <4>2, <4>3, OneMoves
    <3>9. CASE j \notin Ids
      <4>1. \A i \in Ids : Stays(i)
        BY <1>0, <2>2, <3>7, <3>9, StaysIf DEF PlaceNames
      <4>2. Conserved(Done)
        BY <1>0, <4>1 DEF Conserved, TypeInv, QueueTypes, TaskTypes
      <4>3. Done \in 0 .. TotalSamples
        BY SizeAssumption DEF Done
      <4> QED
        BY <1>0, <3>5, <4>2, <4>3 DEF SampleStep
    <3> QED
      BY <3>8, <3>9
  <2>4. CASE UNCHANGED queue /\ tp' = "get"
    <3>1. \A i \in Ids : Keeps(i, "task") /\ Keeps(i, "got")
      BY <1>0, <2>1, <2>4, PlacesFrame
    <3> QED
      BY <1>0, <1>1, <2>1, <2>4, <3>1, NothingMoves
  <2> QED
    <3>1. QueueTypes /\ mq_ret = [c \in {"trainer"} |-> mq_ret[c]]
      BY DEF TypeInv, QueueTypes
    <3> QED
      BY <1>2, <2>3, <2>4, <3>1, TrainerGetCases
<1>3. CASE TrainerGot
  <2>1. UNCHANGED <<queue, trained, mq_ret>> /\ tp = "got" /\ tp' # "got"
    BY <1>3 DEF TrainerGot, mqVars
  <2>2. \A i \in Ids : Keeps(i, "queue") /\ Keeps(i, "trained")
    BY <2>1, PlacesFrame
  <2>3. CASE mq_ret["trainer"].id = Done /\ UNCHANGED batch
    <3>1. Done \notin Ids
      BY DEF Ids, Done
    <3>2. \A i \in Ids : Keeps(i, "task") /\ Keeps(i, "got")
      BY <1>0, <2>1, <2>3, <3>1, PlacesAre, PlacesAreNext DEF Keeps
    <3> QED
      BY <1>0, <1>1, <2>1, <2>3, <3>2, NothingMoves
  <2>4. CASE mq_ret["trainer"].id # Done /\ batch' = Append(batch, mq_ret["trainer"])
    <3> PICK s \in SampleNat : s = mq_ret["trainer"]
      BY <2>1 DEF TypeInv, TrainerTypes
    <3> PICK j \in Ids : j = s.id
      BY <2>4 DEF SampleNat, Ids, Done
    <3>1. batch \in Seq(SampleNat)
      BY DEF TypeInv, TrainerTypes, Trainable
    <3>2. \A i : InSamples(i, batch') <=> InSamples(i, batch) \/ i = j
      <4>1. /\ Len(batch) \in Nat /\ Len(batch') = Len(batch) + 1
            /\ \A k \in 1 .. Len(batch) : batch'[k] = batch[k]
            /\ batch'[Len(batch) + 1] = s
        BY <2>4, <3>1, AppendProperties
      <4>2. \A k : k \in 1 .. Len(batch') <=> k \in 1 .. Len(batch) \/ k = Len(batch) + 1
        BY <4>1
      <4> QED
        BY <4>1, <4>2 DEF InSamples
    <3>3. /\ "got" \in Places(j) /\ "got" \notin Places(j)' /\ "batch" \in Places(j)'
      BY <2>1, <3>2, PlacesAre, PlacesAreNext
    <3>4. \A i \in Ids : i # j => Keeps(i, "got") /\ Keeps(i, "batch")
      BY <2>1, <3>2, PlacesAre, PlacesAreNext DEF Keeps
    <3>5. \A r \in PlaceNames \ {"got", "batch"} : \A i \in Ids : Keeps(i, r)
      BY <1>0, <2>2 DEF PlaceNames
    <3>6. "got" \in PlaceNames /\ "batch" \in PlaceNames
      BY DEF PlaceNames
    <3>7. QueuesApart
      BY <1>0, <2>1, QueuesFrame DEF QueuesApart
    <3> QED
      BY <1>0, <3>3, <3>4, <3>5, <3>6, <3>7, OneMoves
  <2> QED
    BY <1>3, <2>3, <2>4 DEF TrainerGot
<1>4. CASE TrainerStep
  <2>1. /\ UNCHANGED <<queue, mq_ret>> /\ tp = "train" /\ tp' # "got" /\ batch' = <<>>
        /\ trained' = trained \cup {batch[k].id : k \in 1 .. Len(batch)}
    BY <1>4 DEF TrainerStep, mqVars
  <2>2. \A i \in Ids : Keeps(i, "queue") /\ Keeps(i, "got")
    BY <2>1, PlacesFrame
  <2>3. ASSUME NEW i \in Ids
        PROVE  Stays(i) \/ Moves(i)
    <3>1. /\ "batch" \notin Places(i)'
          /\ "trained" \in Places(i)' <=> i \in trained \/ InSamples(i, batch)
      BY <2>1, PlacesAreNext DEF InSamples
    <3>2. \A r \in PlaceNames \ {"batch", "trained"} : Keeps(i, r)
      BY <1>0, <2>2 DEF PlaceNames
    <3>3. CASE InSamples(i, batch)
      <4>1. "batch" \in Places(i)
        BY <3>3, PlacesAre
      <4> QED
        BY <3>1, <3>2, <3>3, <4>1, MovesIf DEF SampleInv
    <3>4. CASE ~InSamples(i, batch)
      <4>1. Keeps(i, "batch") /\ Keeps(i, "trained")
        BY <3>1, <3>4, PlacesAre DEF Keeps
      <4>2. \A r \in PlaceNames : Keeps(i, r)
        BY <3>2, <4>1
      <4> QED
        BY <4>2, StaysIf
    <3> QED
      BY <3>3, <3>4
  <2>4. Conserved(Done)
    BY <1>0, <2>3 DEF Conserved, TypeInv, QueueTypes, TaskTypes
  <2>5. Done \in 0 .. TotalSamples
    BY SizeAssumption DEF Done
  <2>6. QueuesApart
    BY <1>0, <2>1, QueuesFrame DEF QueuesApart
  <2> QED
    BY <1>0, <2>4, <2>5, <2>6 DEF SampleStep
<1>5. CASE ~TrainerGet /\ ~TrainerGot /\ ~TrainerStep
  <2>1. UNCHANGED <<queue, batch, trained, mq_ret>> /\ tp # "got" /\ tp' # "got"
    <3>1. CASE ValidateTask
      BY <3>1 DEF ValidateTask, mqVars
    <3>2. CASE TrainerLog \/ FinalWait \/ EndWait
      BY <3>2, AfterLogIsGet DEF TrainerLog, FinalWait, EndWait, LogValidationData,
         MQ!GetValidate, mqVars
    <3>3. CASE StartSync \/ Broadcast \/ EndSync \/ TrainerValidated
      BY <3>3 DEF StartSync, Broadcast, EndSync, TrainerValidated,
         MQ!UpdateParamVersion, mqVars
    <3> QED
      BY <1>5, <3>1, <3>2, <3>3 DEF Trainer
  <2>2. \A i \in Ids : Keeps(i, "task") /\ Keeps(i, "got")
    BY <1>0, <2>1, PlacesFrame
  <2> QED
    BY <1>0, <1>1, <2>1, <2>2, NothingMoves
<1> QED
  BY <1>2, <1>3, <1>4, <1>5

(* Monitor and remote calls move nothing.                                  *)
LEMMA LoopMoves ==
  ASSUME TypeInv, SampleInv, Monitor \/ Rpc \/ UNCHANGED vars,
         UNCHANGED trainerVars
  PROVE  SampleStep
<1>1. UNCHANGED <<pending_queue, cancel_queue, fed, hand, phase, queue, batch, trained,
                  mq_dropped, failures, tp, mq_ret>>
  BY MonitorFrame, RpcFrame DEF vars, rollouterVars, trainerVars, sampleQueues, taskVars,
     procVars, mqVars
<1>2. \A i \in Ids : Keeps(i, "task") /\ Keeps(i, "got")
  BY <1>1, PlacesFrame
<1>3. mq_dropped' \in Nat /\ mq_dropped' >= mq_dropped
  BY <1>1 DEF TypeInv, QueueTypes
<1> QED
  BY <1>1, <1>2, <1>3, NothingMoves

(* The lost samples are finitely many numbers.                             *)
LEMMA LostFinite ==
  TypeInv => IsFiniteSet(Lost) /\ Cardinality(Lost) \in Nat
<1>1. IsFiniteSet(Ids) /\ Lost \in SUBSET Ids
  BY SizeAssumption, FS_Interval DEF Ids, Lost
<1> QED
  BY <1>1, FS_Subset, FS_CardinalityType

(* If samples move, and one at most is lost and counted, all is kept.      *)
LEMMA SampleStepKeeps ==
  ASSUME TypeInv, TypeInv', SampleInv, SampleStep
  PROVE  SampleInv'
<1>0. PICK x \in 0 .. TotalSamples : Conserved(x)
  BY DEF SampleStep
<1>1. QueuesApart /\ fed' = fed
  BY DEF SampleStep
<1>2. ASSUME NEW i \in Ids
      PROVE  Stays(i) \/ Moves(i) \/ (i = x /\ Places(i)' \subseteq Places(i))
  BY <1>0, <1>2 DEF Conserved, Ids, Done
<1>3. ASSUME NEW i \in Ids
      PROVE  Alone(i)'
  <2>1. \A p, q \in Places(i) : p = q
    BY DEF SampleInv, Alone
  <2>2. \A p, q \in Places(i)' : p = q
    BY <1>2, <2>1 DEF Stays, Moves
  <2> QED
    BY <2>2 DEF Alone
<1>4. ASSUME NEW i \in Ids, fed < i
      PROVE  Places(i)' = {}
  <2>1. Places(i) = {}
    BY <1>4 DEF SampleInv
  <2> QED
    BY <1>2, <2>1 DEF Stays, Moves
<1>5. IsFiniteSet(Lost) /\ Cardinality(Lost) \in Nat /\ Cardinality(Lost) <= mq_dropped + failures
  BY LostFinite DEF SampleInv
<1>6. Lost' \subseteq Lost \cup {x}
  <2> SUFFICES ASSUME NEW i \in Lost', i # x
               PROVE  i \in Lost
    OBVIOUS
  <2>1. i \in Ids /\ i <= fed /\ Places(i)' = {}
    BY <1>1 DEF Lost
  <2>2. Places(i) = {}
    BY <1>2, <2>1 DEF Stays, Moves
  <2> QED
    BY <2>1, <2>2 DEF Lost
<1>7. /\ mq_dropped \in Nat /\ failures \in Nat /\ mq_dropped' \in Nat /\ failures' \in Nat
  BY DEF TypeInv, QueueTypes, TaskTypes
<1>8. Cardinality(Lost') <= mq_dropped' + failures'
  <2>a. mq_dropped + failures \in Nat
    BY <1>7
  <2>b. mq_dropped' + failures' \in Nat
    <3>1. PICK d \in Nat : d = mq_dropped'
      BY <1>7
    <3>2. PICK f \in Nat : f = failures'
      BY <1>7
    <3>3. d + f \in Nat
      OBVIOUS
    <3> QED
      BY <3>1, <3>2, <3>3
  <2> PICK a \in Nat : a = mq_dropped + failures
    BY <2>a
  <2> PICK b \in Nat : b = mq_dropped' + failures'
    BY <2>b
  <2> PICK n \in Nat : n = Cardinality(Lost)
    BY <1>5
  <2>0. n <= a
    <3>1. Cardinality(Lost) <= mq_dropped + failures
      BY <1>5
    <3> QED
      BY <3>1
  <2>1. CASE x = Done
    <3>1. Lost' \in SUBSET Lost
      BY <1>6, <2>1 DEF Lost, Ids, Done
    <3>2. Cardinality(Lost') <= n /\ Cardinality(Lost') \in Nat
      BY <1>5, <3>1, FS_Subset, FS_CardinalityType
    <3>3. b >= a
      BY <1>0, <2>1 DEF Conserved
    <3> QED
      BY <2>0, <3>2, <3>3
  <2>2. CASE x # Done
    <3>1. IsFiniteSet(Lost \cup {x}) /\ Cardinality(Lost \cup {x}) \in {n, n + 1}
      BY <1>5, FS_AddElement
    <3>2. /\ Cardinality(Lost') <= Cardinality(Lost \cup {x})
          /\ Cardinality(Lost') \in Nat
      BY <1>6, <3>1, FS_Subset, FS_CardinalityType
    <3>3. b = a + 1
      <4>1. mq_dropped' + failures' = mq_dropped + failures + 1
        BY <1>0, <2>2 DEF Conserved
      <4> QED
        BY <1>7, <4>1
    <3> QED
      BY <2>0, <3>1, <3>2, <3>3
  <2> QED
    BY <2>1, <2>2
<1>9. PendingInv' /\ Apart(cancel_queue)' /\ SamplesApart(queue)'
  BY <1>1 DEF QueuesApart, Apart, SamplesApart
<1>10. \A i \in Ids : (fed < i => Places(i) = {})'
  BY <1>1, <1>4
<1> QED
  BY <1>3, <1>8, <1>9, <1>10 DEF SampleInv

(* The feeder's samples are new.                                           *)
LEMMA FeedKeeps ==
  ASSUME TypeInv, TypeInv', SampleInv, Feed, UNCHANGED trainerVars
  PROVE  SampleInv'
<1>1. /\ PendingInv' /\ fed \in Nat /\ fed' \in Nat /\ fed <= fed'
      /\ Len(pending_queue) \in Nat /\ Len(pending_queue) <= fed
      /\ fed' - Len(pending_queue') = fed - Len(pending_queue)
  <2>1. /\ PendingInv' /\ fed' \in Nat /\ fed <= fed'
        /\ fed' - Len(pending_queue') = fed - Len(pending_queue)
    BY FeedPending DEF SampleInv
  <2> QED
    BY <2>1 DEF TypeInv, FeedTypes, SampleInv, PendingInv
<1>2. /\ UNCHANGED <<cancel_queue, queue, mq_dropped, failures>>
      /\ \A i \in Ids : \A r \in PlaceNames \ {"pending"} : Keeps(i, r)
  <2>1. UNCHANGED <<cancel_queue, queue, mq_dropped, failures, hand, phase, tp, mq_ret,
                    batch, trained>>
    BY FeedFrame DEF procVars, taskVars, mqVars, trainerVars
  <2> QED
    BY <2>1, PlacesFrame DEF PlaceNames
<1>3. ASSUME NEW i \in Ids
      PROVE  /\ "pending" \in Places(i)' <=>
                  "pending" \in Places(i) \/ (fed < i /\ i <= fed')
             /\ i \in Nat
  <2>1. i \in Nat
    BY SizeAssumption DEF Ids
  <2>2. "pending" \in Places(i) <=> fed - Len(pending_queue) < i /\ i <= fed
    BY PlacesAre, PendingMembers DEF SampleInv
  <2>3. "pending" \in Places(i)' <=> fed' - Len(pending_queue') < i /\ i <= fed'
    BY <1>1, PlacesAreNext, PendingMembersNext
  <2>4. (fed' - Len(pending_queue') < i /\ i <= fed') <=>
          ((fed - Len(pending_queue) < i /\ i <= fed) \/ (fed < i /\ i <= fed'))
    BY <1>1, <2>1
  <2> QED
    BY <2>1, <2>2, <2>3, <2>4
<1>4. ASSUME NEW i \in Ids
      PROVE  /\ fed < i /\ i <= fed' => Places(i)' = {"pending"}
             /\ ~(fed < i /\ i <= fed') => Stays(i)
  <2>1. CASE fed < i /\ i <= fed'
    <3>1. Places(i) = {}
      BY <2>1 DEF SampleInv
    <3>2. Places(i)' \in SUBSET PlaceNames
      BY PlacesAreNext
    <3>3. \A r : r \in Places(i)' <=> r = "pending"
      BY <1>2, <1>3, <2>1, <3>1, <3>2 DEF Keeps
    <3> QED
      BY <2>1, <3>3
  <2>2. CASE ~(fed < i /\ i <= fed')
    <3>1. \A r \in PlaceNames : Keeps(i, r)
      BY <1>2, <1>3, <2>2 DEF Keeps
    <3> QED
      BY <2>2, <3>1, StaysIf
  <2> QED
    BY <2>1, <2>2
<1>5. ASSUME NEW i \in Ids
      PROVE  Alone(i)'
  <2>1. Places(i)' = {"pending"} \/ Places(i)' = Places(i)
    BY <1>4 DEF Stays
  <2>2. \A p, q \in Places(i) : p = q
    BY DEF SampleInv, Alone
  <2>3. \A p, q \in Places(i)' : p = q
    BY <2>1, <2>2
  <2> QED
    BY <2>3 DEF Alone
<1>6. ASSUME NEW i \in Ids, fed' < i
      PROVE  Places(i)' = {}
  <2>1. fed < i /\ ~(i <= fed')
    BY <1>1, <1>3, <1>6
  <2>2. Places(i) = {}
    BY <2>1 DEF SampleInv
  <2> QED
    BY <1>4, <2>1, <2>2 DEF Stays
<1>7. Lost' \in SUBSET Lost
  <2> SUFFICES ASSUME NEW i \in Lost'
               PROVE  i \in Lost
    OBVIOUS
  <2>1. i \in Ids /\ i <= fed' /\ Places(i)' = {}
    BY DEF Lost
  <2>2. ~(fed < i) /\ Places(i) = {}
    BY <1>4, <2>1 DEF Stays
  <2>3. i <= fed
    BY <1>1, <1>3, <2>1, <2>2
  <2> QED
    BY <2>1, <2>2, <2>3 DEF Lost
<1>8. Cardinality(Lost') <= mq_dropped' + failures'
  <2>1. /\ IsFiniteSet(Lost) /\ Cardinality(Lost) \in Nat
        /\ Cardinality(Lost) <= mq_dropped + failures
    BY LostFinite DEF SampleInv
  <2>2. Cardinality(Lost') <= Cardinality(Lost) /\ Cardinality(Lost') \in Nat
    BY <1>7, <2>1, FS_Subset, FS_CardinalityType
  <2>3. mq_dropped' = mq_dropped /\ failures' = failures
    BY <1>2
  <2>4. mq_dropped \in Nat /\ failures \in Nat
    BY DEF TypeInv, QueueTypes, TaskTypes
  <2> QED
    BY <2>1, <2>2, <2>3, <2>4
<1>9. Apart(cancel_queue)' /\ SamplesApart(queue)'
  BY <1>2 DEF SampleInv, Apart, SamplesApart
<1>10. \A i \in Ids : (fed < i => Places(i) = {})'
  BY <1>6
<1> QED
  BY <1>1, <1>5, <1>8, <1>9, <1>10 DEF SampleInv

(* Every step keeps it.                                                    *)
LEMMA NextSamples ==
  ASSUME TypeInv, HandInv, SampleInv, [Next]_vars
  PROVE  SampleInv'
<1>0. TypeInv'
  BY NextTypes
<1>1. CASE Feed /\ UNCHANGED trainerVars
  BY <1>0, <1>1, FeedKeeps
<1>2. CASE (Processor \/ Main \/ Monitor \/ Rpc \/ \E i \in Ids : Task(i)) /\ UNCHANGED trainerVars
  BY <1>0, <1>2, ProcessorMoves, MainMoves, LoopMoves, TaskMoves, SampleStepKeeps
<1>3. CASE Trainer \/ ValidateTask
  BY <1>0, <1>3, TrainerMoves, SampleStepKeeps
<1>4. CASE UNCHANGED vars
  <2>1. UNCHANGED trainerVars
    BY <1>4 DEF vars, trainerVars
  <2> QED
    BY <1>0, <1>4, <2>1, LoopMoves, SampleStepKeeps
<1> QED
  BY <1>1, <1>2, <1>3, <1>4, NextCases

(* At first nothing is anywhere.                                           *)
LEMMA InitSamples == PipelineInit => SampleInv
<1> SUFFICES ASSUME PipelineInit
             PROVE  SampleInv
  OBVIOUS
<1>1. /\ pending_queue = <<>> /\ cancel_queue = <<>> /\ queue = <<>> /\ batch = <<>>
      /\ trained = {} /\ hand = Done /\ tp = "start" /\ fed = 0
      /\ phase = [i \in Ids |-> "none"] /\ mq_dropped = 0 /\ failures = 0
  BY DEF PipelineInit, Init
<1>2. \A i \in Ids : Places(i) = {}
  <2> SUFFICES ASSUME NEW i \in Ids
               PROVE  Places(i) = {}
    OBVIOUS
  <2>1. ~In(i, <<>>) /\ ~InSamples(i, <<>>) /\ i # Done
    BY DEF In, InSamples, Ids, Done
  <2> QED
    BY <1>1, <2>1 DEF Places
<1>3. Lost = {}
  BY <1>1 DEF Lost, Ids
<1>4. Cardinality(Lost) <= mq_dropped + failures
  BY <1>1, <1>3, FS_EmptySet
<1>5. PendingInv /\ Apart(cancel_queue) /\ SamplesApart(queue)
  BY <1>1 DEF PendingInv, Apart, SamplesApart
<1> QED
  BY <1>2, <1>4, <1>5 DEF SampleInv, Alone

(* Exactly-once: whatever is paused, interrupted and resumed in whatever   *)
(* order, a sample is never in two places, and it is lost only by a drop   *)
(* of the full queue or an exception of its own generation.                *)
THEOREM SamplesAreAccounted == Spec => []SamplesAccounted
<1>1. TypeInv /\ SampleInv => SamplesAccounted
  <2> SUFFICES ASSUME TypeInv, SampleInv
               PROVE  SamplesAccounted
    OBVIOUS
  <2>1. ASSUME NEW i \in Ids
        PROVE  Cardinality(Places(i)) <= 1
    <3>1. CASE Places(i) = {}
      BY <3>1, FS_EmptySet
    <3>2. CASE Places(i) # {}
      <4>1. PICK p : p \in Places(i)
        BY <3>2
      <4>2. Places(i) = {p}
        BY <4>1 DEF SampleInv, Alone
      <4>3. Cardinality({p}) = 1
        BY FS_Singleton, Zenon
      <4> QED
        BY <4>2, <4>3
    <3> QED
      BY <3>1, <3>2
  <2>2. Cardinality({i \in Ids : i <= fed /\ Places(i) = {}}) <= mq_dropped + failures
    BY DEF SampleInv, Lost
  <2> QED
    BY <2>1, <2>2 DEF SamplesAccounted, NoSampleTwice
<1>2. Spec => [](TypeInv /\ LockInv /\ HandInv /\ BoundInv /\ SampleInv)
  <2>1. PipelineInit => TypeInv /\ LockInv /\ HandInv /\ BoundInv /\ SampleInv
    BY InitTypes, InitBound, InitSamples
  <2>2. TypeInv /\ LockInv /\ HandInv /\ BoundInv /\ SampleInv /\ [Next]_vars =>
          (TypeInv /\ LockInv /\ HandInv /\ BoundInv /\ SampleInv)'
    BY NextTypes, NextLock, NextHand, NextBound, NextSamples
  <2> QED
    BY <2>1, <2>2, PTL DEF Spec
<1> QED
  BY <1>1, <1>2, PTL
-----------------------------------------------------------------------------
(* The range of the versions: a version is published for a quota of        *)
(* samples, each of them trained on once, and for what is left at the end. *)

(* A batch holds no sample twice, and none of the future.                  *)
BatchApart == SamplesApart(batch)
NotOfFuture(s) == s.version <= current_param_version /\ s.born <= current_param_version
BatchStamped ==
  /\ tp = "got" => NotOfFuture(mq_ret["trainer"])
  /\ \A k \in 1 .. Len(batch) : NotOfFuture(batch[k])

(* The versions published are paid for by samples trained on, but for the  *)
(* last one after the loop has ended.                                      *)
VersionsCounted ==
  /\ ~final \/ tp = "final wait" =>
       version * Quota + (local_trigger_step - 1) * setup.required_samples
         <= Cardinality(trained)
  /\ (version - 1) * Quota <= Cardinality(trained)

(* A sample that the trainer got is not in the batch.                      *)
LEMMA NextBatchApart ==
  ASSUME TypeInv, SampleInv, BatchApart, [Next]_vars
  PROVE  BatchApart'
<1>0. /\ batch \in Seq(Trainable) /\ tp \in TrainerPcs
      /\ tp = "got" => mq_ret["trainer"] \in SampleNat
  BY DEF TypeInv, TrainerTypes
<1>1. \/ /\ tp = "got" /\ mq_ret["trainer"].id # Done
         /\ batch' = Append(batch, mq_ret["trainer"])
      \/ batch' = <<>>
      \/ UNCHANGED batch
  <2>1. CASE Trainer \/ ValidateTask
    BY <1>0, <2>1, TrainerSteps
  <2>2. CASE UNCHANGED trainerVars
    BY <2>2 DEF trainerVars
  <2> QED
    BY <2>1, <2>2, NextCases DEF vars, trainerVars
<1>2. CASE tp = "got" /\ mq_ret["trainer"].id # Done
             /\ batch' = Append(batch, mq_ret["trainer"])
  <2>1. PICK s \in SampleNat : s = mq_ret["trainer"]
    BY <1>0, <1>2
  <2>2. s.id \in Ids
    <3>1. s.id \in 0 .. TotalSamples /\ s.id # 0
      BY <1>2, <2>1 DEF SampleNat, Done
    <3> QED
      BY <3>1, SizeAssumption DEF Ids
  <2>3. "got" \in Places(s.id)
    BY <1>2, <2>1, PlacesAre
  <2>4. "batch" \notin Places(s.id)
    BY <2>2, <2>3 DEF SampleInv, Alone
  <2>5. ~InSamples(s.id, batch)
    BY <2>4, PlacesAre
  <2>6. batch \in Seq(SampleNat)
    <3>1. Trainable \subseteq SampleNat
      BY DEF Trainable
    <3> QED
      BY <1>0, <3>1, SeqMonotonic, Zenon
  <2>7. SamplesApart(Append(batch, s))
    BY <2>1, <2>5, <2>6, SamplesApartAppend DEF BatchApart
  <2> QED
    BY <1>2, <2>1, <2>7 DEF BatchApart
<1>3. CASE batch' = <<>>
  BY <1>3 DEF BatchApart, SamplesApart
<1>4. CASE UNCHANGED batch
  BY <1>4 DEF BatchApart, SamplesApart
<1> QED
  BY <1>1, <1>2, <1>3, <1>4

(* The rollouter's version only grows, so what is not of the future stays  *)
(* so.                                                                     *)
LEMMA NextBatchStamped ==
  ASSUME TypeInv, SyncInv, StampInv, BatchStamped, [Next]_vars
  PROVE  BatchStamped'
<1>0. /\ batch \in Seq(Trainable) /\ tp \in TrainerPcs /\ queue \in Seq(SampleNat)
      /\ tp = "got" => mq_ret["trainer"] \in SampleNat
      /\ current_param_version \in Nat
  BY DEF TypeInv, TrainerTypes, QueueTypes, FlagTypes
<1>1. ASSUME NEW s \in SampleNat, NotOfFuture(s)
      PROVE  s.version <= current_param_version' /\ s.born <= current_param_version'
  <2>1. s.version \in Nat /\ s.born \in Nat
    BY DEF SampleNat
  <2> QED
    BY <1>0, <1>1, <2>1, VersionGrows DEF NotOfFuture
<1>2. ASSUME tp' = "got"
      PROVE  /\ mq_ret'["trainer"].version <= current_param_version'
             /\ mq_ret'["trainer"].born <= current_param_version'
  <2>1. CASE TrainerGet
    <3>1. queue # <<>> /\ mq_ret' = [mq_ret EXCEPT !["trainer"] = Head(queue)]
      BY <1>2, <2>1, TrainerGetCases DEF TypeInv
    <3>2. Head(queue) \in SampleNat /\ Head(queue) = queue[1] /\ 1 \in 1 .. Len(queue)
      BY <1>0, <3>1, HeadTailProperties
    <3>3. NotOfFuture(Head(queue))
      BY <3>2 DEF StampInv, QueueStamped, NotOfFuture
    <3>4. mq_ret'["trainer"] = Head(queue)
      BY <3>1 DEF TypeInv, QueueTypes
    <3> QED
      BY <1>1, <3>2, <3>3, <3>4
  <2>2. CASE ~TrainerGet
    <3>1. tp = "got"
      <4>1. CASE Trainer \/ ValidateTask
        BY <1>0, <1>2, <2>2, <4>1, TrainerSteps
      <4>2. CASE UNCHANGED trainerVars
        BY <1>2, <4>2 DEF trainerVars
      <4> QED
        BY <4>1, <4>2, NextCases DEF vars, trainerVars
    <3>2. mq_ret' = mq_ret
      BY <2>2, ReturnSteps
    <3> QED
      BY <1>0, <1>1, <3>1, <3>2 DEF BatchStamped
  <2> QED
    BY <2>1, <2>2
<1>3. ASSUME NEW k \in 1 .. Len(batch')
      PROVE  /\ batch'[k].version <= current_param_version'
             /\ batch'[k].born <= current_param_version'
  <2>1. \/ /\ tp = "got" /\ mq_ret["trainer"].id # Done
           /\ batch' = Append(batch, mq_ret["trainer"])
        \/ batch' = <<>>
        \/ UNCHANGED batch
    <3>1. CASE Trainer \/ ValidateTask
      BY <1>0, <3>1, TrainerSteps
    <3>2. CASE UNCHANGED trainerVars
      BY <3>2 DEF trainerVars
    <3> QED
      BY <3>1, <3>2, NextCases DEF vars, trainerVars
  <2>2. \A j \in 1 .. Len(batch) : batch[j] \in SampleNat /\ NotOfFuture(batch[j])
    <3>1. \A j \in 1 .. Len(batch) : batch[j] \in Trainable
      BY <1>0
    <3> QED
      BY <3>1 DEF Trainable, BatchStamped
  <2>3. CASE k \in 1 .. Len(batch) /\ batch'[k] = batch[k]
    BY <1>1, <2>2, <2>3
  <2>4. CASE tp = "got" /\ mq_ret["trainer"].id # Done
               /\ batch' = Append(batch, mq_ret["trainer"])
    <3>1. mq_ret["trainer"] \in Trainable
      BY <1>0, <2>4 DEF Trainable
    <3>2. /\ Len(batch) \in Nat /\ Len(batch') = Len(batch) + 1
          /\ \A j \in 1 .. Len(batch) : batch'[j] = batch[j]
          /\ batch'[Len(batch) + 1] = mq_ret["trainer"]
      BY <1>0, <2>4, <3>1, AppendProperties
    <3>3. CASE k = Len(batch) + 1
      BY <1>0, <1>1, <2>4, <3>2, <3>3 DEF BatchStamped
    <3>4. CASE k # Len(batch) + 1
      <4>1. k \in 1 .. Len(batch)
        BY <3>2, <3>4
      <4> QED
        BY <2>3, <3>2, <4>1
    <3> QED
      BY <3>3, <3>4
  <2>5. CASE batch' = <<>>
    BY <2>5
  <2>6. CASE UNCHANGED batch
    BY <2>3, <2>6
  <2> QED
    BY <2>1, <2>4, <2>5, <2>6
<1> QED
  BY <1>2, <1>3 DEF BatchStamped, NotOfFuture

(* A training step trains on required_samples more samples.                *)
LEMMA TrainedCount ==
  ASSUME TypeInv, SampleInv, BatchApart,
         NEW T, T = trained \cup {batch[k].id : k \in 1 .. Len(batch)}
  PROVE  /\ Cardinality(trained) \in Nat
         /\ Cardinality(T) = Cardinality(trained) + Len(batch)
<1> DEFINE added == {batch[k].id : k \in 1 .. Len(batch)}
<1>0. batch \in Seq(Trainable) /\ trained \in SUBSET Ids /\ Len(batch) \in Nat
  BY DEF TypeInv, TrainerTypes
<1>1. \A k \in 1 .. Len(batch) : batch[k].id \in Ids
  <2>1. \A k \in 1 .. Len(batch) : batch[k] \in Trainable
    BY <1>0
  <2> QED
    BY <2>1, SizeAssumption DEF Trainable, SampleNat, Ids, Done
<1>2. IsFiniteSet(Ids)
  BY SizeAssumption, FS_Interval DEF Ids
<1>3. added \in SUBSET Ids
  BY <1>1
<1>4. IsFiniteSet(added) /\ IsFiniteSet(trained)
  BY <1>0, <1>2, <1>3, FS_Subset
<1>5. trained \cap added = {}
  <2> SUFFICES ASSUME NEW i \in trained, i \in added
               PROVE  FALSE
    OBVIOUS
  <2>1. InSamples(i, batch) /\ i \in Ids
    BY <1>0 DEF InSamples
  <2>2. "batch" \in Places(i) /\ "trained" \in Places(i)
    BY <2>1, PlacesAre
  <2> QED
    BY <2>1, <2>2 DEF SampleInv, Alone
<1>6. Cardinality(added) = Len(batch)
  <2> DEFINE f == [k \in 1 .. Len(batch) |-> batch[k].id]
  <2>1. \A k, l \in 1 .. Len(batch) : batch[k].id = batch[l].id => k = l
    <3>1. \A k \in 1 .. Len(batch) : batch[k].id # Done
      BY <1>1 DEF Ids, Done
    <3> QED
      BY <3>1 DEF BatchApart, SamplesApart
  <2>2. f \in Bijection(1 .. Len(batch), added)
    BY <2>1 DEF Bijection, Injection, Surjection, IsInjective
  <2>3. /\ IsFiniteSet(1 .. Len(batch)) /\ Cardinality(1 .. Len(batch)) = Len(batch)
    <3>1. 1 \in Int /\ Len(batch) \in Int
      BY <1>0
    <3>2. /\ IsFiniteSet(1 .. Len(batch))
          /\ Cardinality(1 .. Len(batch)) =
               IF 1 > Len(batch) THEN 0 ELSE Len(batch) - 1 + 1
      BY <3>1, FS_Interval, Zenon
    <3> QED
      BY <1>0, <3>2
  <2> HIDE DEF f, added
  <2>4. ExistsBijection(1 .. Len(batch), added)
    BY <2>2 DEF ExistsBijection
  <2> QED
    BY <2>3, <2>4, FS_Bijection
<1> HIDE DEF added
<1>7. Cardinality(trained \cup added) = Cardinality(trained) + Cardinality(added) - 0
  <2>1. Cardinality(trained \cap added) = 0
    BY <1>5, FS_EmptySet, Zenon
  <2>2. Cardinality(trained \cup added) =
          Cardinality(trained) + Cardinality(added) - Cardinality(trained \cap added)
    BY <1>4, FS_Union, Zenon
  <2> QED
    BY <2>1, <2>2, Zenon
<1>8. Cardinality(trained) \in Nat
  BY <1>4, FS_CardinalityType
<1>9. T = trained \cup added
  BY Zenon DEF added
<1>10. Cardinality(trained \cup added) = Cardinality(trained) + Len(batch)
  <2>1. PICK n \in Nat : n = Cardinality(trained)
    BY <1>8
  <2> QED
    BY <1>0, <1>6, <1>7, <2>1
<1> QED
  BY <1>8, <1>9, <1>10, Zenon

(* The arithmetic of a training step: n samples pay for v versions and l   *)
(* steps of the next one, r samples each, t steps a version.               *)
LEMMA NextStepPaid ==
  ASSUME NEW v \in Nat, NEW l \in Nat \ {0}, NEW r \in Nat \ {0}, NEW t \in Nat \ {0},
         NEW q, q = r * t, NEW n \in Nat, v * q + (l - 1) * r <= n
  PROVE  /\ v * q + ((l + 1) - 1) * r <= n + r
         /\ l = t => (v + 1) * q + (1 - 1) * r <= n + r
         /\ v * q <= n /\ (v - 1) * q <= n /\ v * q + (1 - 1) * r <= n
<1>1. PICK m \in Nat : m = l - 1 /\ l = m + 1
  OBVIOUS
<1>2. q \in Nat
  OBVIOUS
<1>3. PICK a \in Nat : a = v * q
  BY <1>2
<1>4. PICK b \in Nat : b = m * r
  OBVIOUS
<1>5. l * r = b + r
  BY <1>1, <1>4, Distribute
<1>6. (v + 1) * q = a + q /\ (v - 1) * q = a - q
  BY <1>2, <1>3, Distribute
<1>7. a + b <= n
  BY <1>1, <1>3, <1>4
<1>8. (l + 1) - 1 = l /\ (1 - 1) * r = 0
  OBVIOUS
<1>9. a + (b + r) <= n + r /\ a <= n /\ a - q <= n
  BY <1>2, <1>3, <1>4, <1>7
<1>10. l = t => q = b + r
  <2>1. l = t => q = l * r
    OBVIOUS
  <2> QED
    BY <1>5, <2>1
<1>11. l = t => a + q + 0 <= n + r
  BY <1>2, <1>3, <1>9, <1>10
<1>12. v * q + l * r <= n + r
  BY <1>3, <1>5, <1>9
<1>13. l = t => (v + 1) * q + (1 - 1) * r <= n + r
  BY <1>6, <1>8, <1>11
<1>14. v * q <= n /\ (v - 1) * q <= n
  BY <1>3, <1>6, <1>9
<1>15. v * q + (1 - 1) * r <= n
  BY <1>3, <1>8, <1>9
<1> QED
  BY <1>8, <1>12, <1>13, <1>14, <1>15

(* Every step keeps the versions paid for.                                 *)
LEMMA NextVersionsCounted ==
  ASSUME TypeInv, FinalInv, BatchInv, SampleInv, BatchApart, VersionsCounted, [Next]_vars
  PROVE  VersionsCounted'
<1>1. PICK r \in Nat \ {0} : r = setup.required_samples
  BY SetupTypes DEF TypeInv
<1>2. PICK t \in Nat \ {0} : t = setup.trigger_steps
  BY SetupTypes DEF TypeInv
<1>3. PICK q : q = r * t
  OBVIOUS
<1>4. PICK v \in Nat : v = version
  BY DEF TypeInv, TrainerTypes
<1>5. PICK l \in Nat \ {0} : l = local_trigger_step
  <2>1. local_trigger_step \in 1 .. t
    BY <1>2 DEF TypeInv, TrainerTypes
  <2> QED
    BY <2>1
<1>6. PICK n \in Nat : n = Cardinality(trained)
  BY TrainedCount
<1>7. /\ ~final \/ tp = "final wait" => v * q + (l - 1) * r <= n
      /\ (v - 1) * q <= n
  BY <1>1, <1>2, <1>3, <1>4, <1>5, <1>6 DEF VersionsCounted, Quota
<1> DEFINE Paid(w, k, m) ==
             /\ ~final' \/ tp' = "final wait" => w * q + (k - 1) * r <= m
             /\ (w - 1) * q <= m
<1>8. ASSUME setup' = setup, NEW w, NEW k, NEW m, w = version', k = local_trigger_step',
             m = Cardinality(trained'), Paid(w, k, m)
      PROVE  VersionsCounted'
  <2>1. setup'.required_samples = r /\ setup'.trigger_steps = t
    BY <1>1, <1>2, <1>8
  <2> QED
    BY <1>3, <1>8, <2>1 DEF VersionsCounted, Quota
<1> HIDE DEF Paid
<1>9. CASE /\ setup' = setup
           /\ UNCHANGED <<version, local_trigger_step, trained>>
           /\ ~final' \/ tp' = "final wait" => ~final \/ tp = "final wait"
  BY <1>4, <1>5, <1>6, <1>7, <1>8, <1>9 DEF Paid
<1>10. CASE TrainerStep /\ setup' = setup
  <2>1. /\ tp = "train" /\ final' = final /\ ~final
        /\ trained' = trained \cup {batch[k].id : k \in 1 .. Len(batch)}
    BY <1>10 DEF TrainerStep, FinalInv
  <2>2. Len(batch) = r
    BY <1>1, <2>1 DEF BatchInv
  <2>3. Cardinality(trained') = n + r
    BY <1>6, <2>1, <2>2, TrainedCount
  <2>4. v * q + (l - 1) * r <= n
    BY <1>7, <2>1
  <2>5. /\ v * q + ((l + 1) - 1) * r <= n + r
        /\ l = t => (v + 1) * q + (1 - 1) * r <= n + r
        /\ v * q <= n
    BY <1>3, <2>4, NextStepPaid
  <2>6. (v - 1) * q <= n + r /\ ((v + 1) - 1) * q <= n + r
    <3>1. (v + 1) - 1 = v
      OBVIOUS
    <3>2. v * q <= n + r
      <4>1. PICK a \in Int : a = v * q
        BY <1>3
      <4> QED
        BY <2>5, <4>1
    <3>3. (v - 1) * q <= n + r
      <4>1. PICK a \in Int : a = (v - 1) * q
        BY <1>3
      <4>2. a <= n
        BY <1>7, <4>1
      <4> QED
        BY <4>1, <4>2
    <3> QED
      BY <3>1, <3>2, <3>3
  <2>7. \/ version' = v /\ local_trigger_step' = l + 1
        \/ l = t /\ version' = v + 1 /\ local_trigger_step' = 1
    <3>1. l <= t
      BY <1>2, <1>5 DEF TypeInv, TrainerTypes
    <3>2. CASE local_trigger_step < setup.trigger_steps
      <4>1. version' = version /\ local_trigger_step' = local_trigger_step + 1
        BY <1>10, <3>2 DEF TrainerStep
      <4> QED
        BY <1>4, <1>5, <4>1
    <3>3. CASE ~(local_trigger_step < setup.trigger_steps)
      <4>1. version' = version + 1 /\ local_trigger_step' = 1
        BY <1>10, <3>3 DEF TrainerStep
      <4>2. l = t
        BY <1>2, <1>5, <3>1, <3>3
      <4> QED
        BY <1>4, <4>1, <4>2
    <3> QED
      BY <3>2, <3>3
  <2>8. CASE version' = v /\ local_trigger_step' = l + 1
    BY <1>8, <1>10, <2>3, <2>5, <2>6, <2>8 DEF Paid
  <2>9. CASE l = t /\ version' = v + 1 /\ local_trigger_step' = 1
    BY <1>8, <1>10, <2>3, <2>5, <2>6, <2>9 DEF Paid
  <2> QED
    BY <2>7, <2>8, <2>9
<1>11. CASE FinalWait /\ setup' = setup
  <2>1. /\ tp = "final wait" /\ trained' = trained /\ final' = final /\ final
        /\ tp' \in {"wait last", "end"}
    BY <1>11 DEF FinalWait, FinalInv
  <2>2. v * q + (l - 1) * r <= n
    BY <1>7, <2>1
  <2>3. v * q <= n /\ (v - 1) * q <= n
    BY <1>3, <2>2, NextStepPaid
  <2>4. version' \in {v, v + 1}
    BY <1>4, <1>11 DEF FinalWait
  <2>5. (v + 1) - 1 = v
    OBVIOUS
  <2>6. (version' - 1) * q <= n
    BY <2>3, <2>4, <2>5
  <2> QED
    BY <1>6, <1>8, <1>11, <2>1, <2>6 DEF Paid
<1>12. CASE /\ Trainer \/ ValidateTask
            /\ ~TrainerStep /\ ~FinalWait /\ setup' = setup
  <2>1. UNCHANGED <<version, local_trigger_step, trained>>
    BY <1>12 DEF Trainer, ValidateTask, TrainerGet, TrainerGot, StartSync, Broadcast,
       EndSync, TrainerValidated, TrainerLog, EndWait
  <2>2. ~final' \/ tp' = "final wait" => ~final \/ tp = "final wait"
    <3>1. TrainerGot => tp = "got"
      BY DEF TrainerGot
    <3>2. CASE TrainerGot
      BY <3>1, <3>2 DEF FinalInv
    <3>3. CASE ~TrainerGot
      BY <1>12, <3>3, AfterLogIsGet DEF Trainer, ValidateTask, TrainerGet, StartSync,
         Broadcast, EndSync, TrainerValidated, TrainerLog, EndWait
    <3> QED
      BY <3>2, <3>3
  <2> QED
    BY <1>9, <1>12, <2>1, <2>2
<1>13. CASE setup' = setup /\ UNCHANGED trainerVars
  BY <1>9, <1>13 DEF trainerVars
<1> QED
  BY <1>10, <1>11, <1>12, <1>13, NextCases DEF vars

(* At first there is nothing to pay for.                                   *)
LEMMA InitVersionsCounted ==
  PipelineInit => BatchApart /\ BatchStamped /\ VersionsCounted
<1> SUFFICES ASSUME PipelineInit
             PROVE  BatchApart /\ BatchStamped /\ VersionsCounted
  OBVIOUS
<1>1. /\ batch = <<>> /\ tp = "start" /\ version = 0 /\ local_trigger_step = 1
      /\ trained = {} /\ setup \in Setups
  BY DEF PipelineInit, Init
<1>2. BatchApart /\ BatchStamped
  BY <1>1 DEF BatchApart, SamplesApart, BatchStamped
<1>3. Cardinality(trained) = 0
  BY <1>1, FS_EmptySet
<1>4. PICK q \in Nat : q = Quota
  BY <1>1, QuotaTypes
<1>5. PICK r \in Nat : r = setup.required_samples
  BY <1>1, SetupTypes
<1>6. 0 * q + (1 - 1) * r <= 0 /\ (0 - 1) * q <= 0
  <2>1. (1 - 1) * r = 0 /\ 0 * q = 0 /\ (0 - 1) * q = 0 * q - q
    BY Distribute
  <2> QED
    BY <2>1
<1>7. VersionsCounted
  BY <1>1, <1>3, <1>4, <1>5, <1>6 DEF VersionsCounted
<1> QED
  BY <1>2, <1>7

(* All samples trained on pay for the bound on the versions.               *)
LEMMA VersionBound ==
  ASSUME TypeInv, SyncInv, VersionsCounted
  PROVE  version \in Versions /\ current_param_version \in Versions
<1>1. PICK q \in Nat \ {0} : q = Quota
  BY QuotaTypes DEF TypeInv
<1>2. PICK v \in Nat : v = version
  BY DEF TypeInv, TrainerTypes
<1>3. PICK n \in Nat : n = TotalSamples
  BY SizeAssumption
<1>4. Cardinality(trained) \in Nat /\ Cardinality(trained) <= n
  <2>1. 1 \in Int /\ n \in Int
    OBVIOUS
  <2>2. IsFiniteSet(1 .. n) /\ Cardinality(1 .. n) = n
    <3>1. /\ IsFiniteSet(1 .. n)
          /\ Cardinality(1 .. n) = IF 1 > n THEN 0 ELSE n - 1 + 1
      BY <2>1, FS_Interval, Zenon
    <3> QED
      BY <3>1
  <2>3. trained \in SUBSET (1 .. n)
    BY <1>3 DEF TypeInv, TrainerTypes, Ids
  <2> QED
    BY <2>2, <2>3, FS_Subset, FS_CardinalityType
<1>5. (v - 1) * q <= n
  <2>1. (v - 1) * q <= Cardinality(trained)
    BY <1>1, <1>2 DEF VersionsCounted
  <2>2. PICK a \in Int : a = (v - 1) * q
    OBVIOUS
  <2> QED
    BY <1>4, <2>1, <2>2
<1>6. n \div q \in Nat /\ n < ((n \div q) + 1) * q
  BY QuotientBound
<1>7. PICK d \in Nat : d = n \div q
  BY <1>6
<1>8. v <= d + 1
  <2> SUFFICES ASSUME d + 1 <= v - 1
               PROVE  FALSE
    OBVIOUS
  <2>1. (d + 1) * q <= (v - 1) * q
    BY ProductGrows
  <2>2. n < (d + 1) * q
    BY <1>6, <1>7
  <2>3. PICK a \in Int : a = (d + 1) * q
    OBVIOUS
  <2>4. PICK b \in Int : b = (v - 1) * q
    OBVIOUS
  <2> QED
    BY <1>5, <2>1, <2>2, <2>3, <2>4
<1>9. MaxVersion >= d + 1 /\ MaxVersion \in Nat
  <2>1. MaxVersion >= (TotalSamples \div Quota) + 1
    BY TrainerAssumption DEF TypeInv, Quota
  <2> QED
    BY <1>1, <1>3, <1>7, <2>1, SizeAssumption
<1>10. v <= MaxVersion
  BY <1>8, <1>9
<1>11. current_param_version \in Nat /\ current_param_version <= v
  <2>1. current_param_version \in Nat /\ mq_version \in Nat
    BY DEF TypeInv, FlagTypes, QueueTypes
  <2>2. version = mq_version + 1 \/ version = mq_version
    BY DEF SyncInv, VersionDistance
  <2>3. mq_version = current_param_version + 1 \/ mq_version = current_param_version
    BY DEF SyncInv, VersionDistance
  <2> QED
    BY <1>2, <2>1, <2>2, <2>3
<1> QED
  BY <1>2, <1>9, <1>10, <1>11 DEF Versions

(* Types: through every pause, interruption and exception the pipeline's   *)
(* state stays within its types, queue sizes and ranges; in particular at  *)
(* most one version is published for each quota of samples, and one more.  *)
THEOREM PipelineIsTyped == Spec => []TypeOK
<1> DEFINE Inv == /\ TypeInv /\ SyncInv /\ StampInv /\ FinalInv /\ FreshInv
                  /\ HandInv /\ SampleInv /\ BatchApart /\ BatchStamped /\ VersionsCounted
<1>1. Inv => TypeOK
  <2> SUFFICES ASSUME Inv
               PROVE  TypeOK
    OBVIOUS
  <2>1. /\ lock \in Coroutines \cup {Nobody} /\ turn \in Coroutines \cup {Nobody}
        /\ waiters \in Seq(Coroutines)
    BY DEF TypeInv, LoopTypes
  <2>2. version \in Versions /\ current_param_version \in Versions
    BY VersionBound
  <2>3. /\ staleness_samples \in Nat /\ paused \in BOOLEAN /\ running \in BOOLEAN
        /\ monitor_loop_trigger \in BOOLEAN
    BY DEF TypeInv, FlagTypes
  <2>4. 0 .. TotalSamples = Ids \cup {Done}
    BY SizeAssumption DEF Ids, Done
  <2>5. /\ pending_queue \in Seq(Ids \cup {Done})
        /\ Len(pending_queue) <= setup.pending_capacity
        /\ cancel_queue \in Seq(Ids) /\ hand \in Ids \cup {Done}
    BY <2>4 DEF TypeInv, FeedTypes, PcTypes
  <2>6. /\ phase \in [Ids -> {"none", "gen", "put", "sent", "sent, full"}]
        /\ finished \in Nat /\ raised \subseteq Ids
    BY DEF TypeInv, TaskTypes, Phases
  <2>7. batch \in Seq(Sample)
    <3>1. batch \in Seq(Trainable)
      BY DEF TypeInv, TrainerTypes
    <3>2. \A k \in 1 .. Len(batch) : batch[k] \in Sample
      <4> SUFFICES ASSUME NEW k \in 1 .. Len(batch)
                   PROVE  batch[k] \in Sample
        OBVIOUS
      <4>1. batch[k] \in SampleNat
        BY <3>1 DEF Trainable
      <4>2. /\ batch[k].version <= current_param_version
            /\ batch[k].born <= current_param_version
        BY DEF BatchStamped, NotOfFuture
      <4>3. PICK s \in SampleNat : s = batch[k]
        BY <4>1
      <4>4. PICK c \in Nat : c = current_param_version /\ c <= MaxVersion
        BY <2>2, SizeAssumption DEF Versions
      <4>5. s.version \in 0 .. MaxVersion /\ s.born \in 0 .. MaxVersion
        <5>1. s.version \in Nat /\ s.born \in Nat
          BY DEF SampleNat
        <5> QED
          BY <4>2, <4>3, <4>4, <5>1, SizeAssumption
      <4> QED
        BY <4>3, <4>5 DEF SampleNat, Sample, Versions
    <3>3. Len(batch) \in Nat /\ batch = [k \in 1 .. Len(batch) |-> batch[k]]
      BY <3>1
    <3>4. batch \in [1 .. Len(batch) -> Sample]
      BY <3>2, <3>3
    <3> QED
      BY <3>3, <3>4, SeqDef
  <2>8. trained \subseteq Ids /\ local_trigger_step \in 1 .. setup.trigger_steps
    BY DEF TypeInv, TrainerTypes
  <2> QED
    BY <2>1, <2>2, <2>3, <2>5, <2>6, <2>7, <2>8 DEF TypeOK
<1>2. PipelineInit => Inv
  BY InitTypes, InitSync, InitStamps, InitFresh, InitBound, InitSamples,
     InitVersionsCounted
<1>3. Inv /\ [Next]_vars => Inv'
  <2> SUFFICES ASSUME Inv, [Next]_vars
               PROVE  Inv'
    OBVIOUS
  <2>1. TypeInv' /\ SyncInv' /\ StampInv' /\ FinalInv' /\ HandInv'
    BY NextTypes, NextSync, NextStamps, NextFinal, NextHand
  <2>2. FreshInv'
    BY NextFreshTasks, NextCapacity, NextBatch, NextQueueFresh, NextTakenFresh DEF FreshInv
  <2>3. SampleInv' /\ BatchApart'
    BY NextSamples, NextBatchApart
  <2>4. BatchStamped'
    BY NextBatchStamped
  <2>5. VersionsCounted'
    BY NextVersionsCounted DEF FreshInv
  <2> QED
    BY <2>1, <2>2, <2>3, <2>4, <2>5
<1> QED
  BY <1>1, <1>2, <1>3, PTL DEF Spec
-----------------------------------------------------------------------------
(* Staleness 0: synchronous training, through the asynchronous machinery.  *)

(* The closing None is put once, after the processor's last step, and the  *)
(* trainer's loop ends with it.                                            *)
NoneInv ==
  /\ mainp # "stream" => pp \in {"ended", "dead"}
  /\ mainp = "stream" => /\ ~final
                         /\ \A k \in 1 .. Len(queue) : queue[k].id # Done
                         /\ tp = "got" => mq_ret["trainer"].id # Done
  /\ \A k, l \in 1 .. Len(queue) : queue[k].id = Done /\ queue[l].id = Done => k = l

(* Once it has ended or died the processor does nothing; once the main     *)
(* coroutine has put the None it puts no other.                            *)
LEMMA EndingSteps ==
  ASSUME TypeInv, [Next]_vars
  PROVE  /\ pp \in {"ended", "dead"} => pp' = pp /\ ~Processor
         /\ mainp' = mainp \/ (mainp # "stream" /\ mainp' # "stream") \/ MainPutNone
         /\ MainPutNone => pp \in {"ended", "dead"} /\ mainp = "stream" /\ mainp' = "stop"
         /\ final' = final \/ (TrainerGot /\ tp = "got" /\ mq_ret["trainer"].id = Done)
<1>1. Processor => pp \notin {"ended", "dead"}
  BY DEF Processor, ProcessorCheck, ProcessorGet, ProcessorTaken, ProcessorSetPaused,
     ProcessorDrain, ProcessorReap, ProcessorWaited, ProcessorWaitUnpaused,
     ProcessorResumed, ProcessorNextRound, ProcessorSubmit
<1>2. ASSUME pp \in {"ended", "dead"}
      PROVE  pp' = pp
  <2>1. CASE Monitor
    BY <1>2, <2>1 DEF Monitor, MonitorTop, MonitorCheckRunning, MonitorTick,
       MonitorUnpause, NotifyAll
  <2>2. CASE Rpc
    BY <1>2, <2>2, RpcSteps DEF NotifyAll
  <2>3. CASE Feed \/ Main \/ (\E i \in Ids : Task(i)) \/ Trainer \/ ValidateTask
    BY <2>3, FeedFrame, MainFrame, TaskFrame, TrainerFrame DEF procVars
  <2>4. CASE UNCHANGED vars
    BY <2>4 DEF vars, rollouterVars, procVars
  <2> QED
    BY <1>1, <1>2, <2>1, <2>2, <2>3, <2>4, NextCases
<1>3. mainp' = mainp \/ (mainp # "stream" /\ mainp' # "stream") \/ MainPutNone
  <2>1. CASE Main
    BY <2>1 DEF Main, MainStop, MainStopped
  <2>2. CASE ~Main
    BY <2>2, NextCases, FeedFrame, ProcessorFrame, MonitorFrame, RpcFrame, TaskFrame,
       TrainerFrame DEF vars, rollouterVars
  <2> QED
    BY <2>1, <2>2
<1>4. MainPutNone => pp \in {"ended", "dead"} /\ mainp = "stream" /\ mainp' = "stop"
  BY DEF MainPutNone
<1>5. final' = final \/ (TrainerGot /\ tp = "got" /\ mq_ret["trainer"].id = Done)
  <2>1. CASE UNCHANGED trainerVars
    BY <2>1 DEF trainerVars
  <2>2. CASE Trainer \/ ValidateTask
    BY <2>2 DEF Trainer, ValidateTask, TrainerGet, TrainerGot, TrainerStep, StartSync,
       Broadcast, EndSync, TrainerValidated, TrainerLog, FinalWait, EndWait
  <2> QED
    BY <2>1, <2>2, NextCases DEF vars, trainerVars
<1> QED
  BY <1>1, <1>2, <1>3, <1>4, <1>5

(* The elements of the queue that are None after a step were None before.  *)
LEMMA NoneMembers ==
  ASSUME TypeInv, [Next]_vars, ~MainPutNone
  PROVE  \E d \in {0, 1} : \A k \in 1 .. Len(queue') : queue'[k].id = Done =>
           k + d \in 1 .. Len(queue) /\ queue[k + d].id = Done
<1>0. queue \in Seq(SampleNat) /\ Len(queue) \in Nat
  BY DEF TypeInv, QueueTypes
<1>1. CASE UNCHANGED queue
  <2>1. \A k \in 1 .. Len(queue') : queue'[k].id = Done =>
           k + 0 \in 1 .. Len(queue) /\ queue[k + 0].id = Done
    BY <1>0, <1>1
  <2> QED
    BY <2>1
<1>2. CASE queue # <<>> /\ queue' = Tail(queue)
  <2>1. Len(queue') = Len(queue) - 1 /\ \A k \in 1 .. Len(queue') : queue'[k] = queue[k + 1]
    BY <1>0, <1>2, HeadTailProperties
  <2>2. \A k \in 1 .. Len(queue') : k + 1 \in 1 .. Len(queue)
    BY <1>0, <2>1
  <2>3. \A k \in 1 .. Len(queue') : queue'[k].id = Done =>
           k + 1 \in 1 .. Len(queue) /\ queue[k + 1].id = Done
    BY <2>1, <2>2
  <2> QED
    BY <2>3
<1>3. CASE \E i \in Ids : TaskPut(i)
  <2>1. PICK i \in Ids : TaskPut(i)
    BY <1>3
  <2>2. PICK s : s = [id |-> i, born |-> born[i], version |-> stamp[i]]
    OBVIOUS
  <2>3. MQ!PutSample(s) /\ phase[i] = "put"
    BY <2>1, <2>2 DEF TaskPut
  <2>4. s \in SampleNat /\ s.id # Done
    BY <2>2, <2>3, PutTypes DEF Ids, Done
  <2>5. PICK d \in {0, 1} :
           /\ d <= Len(queue)
           /\ Len(queue') = Len(queue) - d + 1
           /\ \A k \in 1 .. Len(queue) - d : queue'[k] = queue[k + d]
           /\ queue'[Len(queue')] = s
    BY <2>3, <2>4, PutSampleQueue DEF TypeInv
  <2>6. ASSUME NEW k \in 1 .. Len(queue'), queue'[k].id = Done
        PROVE  k + d \in 1 .. Len(queue) /\ queue[k + d].id = Done
    <3>1. k # Len(queue')
      BY <2>4, <2>5, <2>6
    <3>2. k \in 1 .. Len(queue) - d
      BY <1>0, <2>5, <3>1
    <3>3. k + d \in 1 .. Len(queue)
      BY <1>0, <2>5, <3>2
    <3> QED
      BY <2>5, <2>6, <3>2, <3>3
  <2> QED
    BY <2>6
<1> QED
  BY <1>1, <1>2, <1>3, QueueSteps

(* Every step keeps it.                                                    *)
LEMMA NextNone ==
  ASSUME TypeInv, NoneInv, [Next]_vars
  PROVE  NoneInv'
<1>0. /\ queue \in Seq(SampleNat) /\ Len(queue) \in Nat /\ tp \in TrainerPcs
      /\ Len(queue') \in Nat
  <2>1. TypeInv'
    BY NextTypes
  <2>2. queue' \in Seq(SampleNat)
    BY <2>1 DEF TypeInv, QueueTypes
  <2> QED
    BY <2>2 DEF TypeInv, QueueTypes, TrainerTypes
<1>1. mainp' # "stream" => pp' \in {"ended", "dead"}
  BY EndingSteps DEF NoneInv
<1>2. CASE MainPutNone
  <2>1. PICK s : s = [id |-> Done, born |-> 0, version |-> current_param_version]
    OBVIOUS
  <2>2. MQ!PutSample(s) /\ s \in SampleNat /\ mainp = "stream" /\ mainp' # "stream"
    BY <1>2, <2>1, PutTypes DEF MainPutNone
  <2>3. PICK d \in {0, 1} :
           /\ d <= Len(queue)
           /\ Len(queue') = Len(queue) - d + 1
           /\ \A k \in 1 .. Len(queue) - d : queue'[k] = queue[k + d]
           /\ queue'[Len(queue')] = s
    BY <2>2, PutSampleQueue DEF TypeInv
  <2>4. ASSUME NEW k \in 1 .. Len(queue'), queue'[k].id = Done
        PROVE  k = Len(queue')
    <3> SUFFICES ASSUME k # Len(queue')
                 PROVE  FALSE
      OBVIOUS
    <3>1. k \in 1 .. Len(queue) - d
      BY <1>0, <2>3
    <3>2. k + d \in 1 .. Len(queue)
      BY <1>0, <2>3, <3>1
    <3>3. queue'[k] = queue[k + d]
      BY <2>3, <3>1
    <3> QED
      BY <2>2, <2>4, <3>2, <3>3 DEF NoneInv
  <2>5. \A k, l \in 1 .. Len(queue') : queue'[k].id = Done /\ queue'[l].id = Done => k = l
    BY <2>4
  <2> QED
    BY <1>1, <2>2, <2>5 DEF NoneInv
<1>3. CASE ~MainPutNone
  <2>1. PICK d \in {0, 1} : \A k \in 1 .. Len(queue') : queue'[k].id = Done =>
           k + d \in 1 .. Len(queue) /\ queue[k + d].id = Done
    BY <1>3, NoneMembers
  <2>2. \A k, l \in 1 .. Len(queue') : queue'[k].id = Done /\ queue'[l].id = Done => k = l
    <3> SUFFICES ASSUME NEW k \in 1 .. Len(queue'), NEW l \in 1 .. Len(queue'),
                        queue'[k].id = Done, queue'[l].id = Done
                 PROVE  k = l
      OBVIOUS
    <3>1. k + d = l + d
      BY <2>1 DEF NoneInv
    <3> QED
      BY <1>0, <3>1
  <2>3. ASSUME mainp' = "stream"
        PROVE  /\ ~final'
               /\ \A k \in 1 .. Len(queue') : queue'[k].id # Done
               /\ tp' = "got" => mq_ret'["trainer"].id # Done
    <3>1. mainp = "stream"
      BY <1>3, <2>3, EndingSteps
    <3>2. ~final'
      BY <3>1, EndingSteps DEF NoneInv
    <3>3. \A k \in 1 .. Len(queue') : queue'[k].id # Done
      BY <2>1, <3>1 DEF NoneInv
    <3>4. ASSUME tp' = "got"
          PROVE  mq_ret'["trainer"].id # Done
      <4>1. CASE TrainerGet
        <5>1. queue # <<>> /\ mq_ret' = [mq_ret EXCEPT !["trainer"] = Head(queue)]
          BY <3>4, <4>1, TrainerGetCases DEF TypeInv
        <5>2. Head(queue) = queue[1] /\ 1 \in 1 .. Len(queue)
          BY <1>0, <5>1, HeadTailProperties
        <5>3. mq_ret'["trainer"] = queue[1]
          BY <5>1, <5>2 DEF TypeInv, QueueTypes
        <5> QED
          BY <3>1, <5>2, <5>3 DEF NoneInv
      <4>2. CASE ~TrainerGet
        <5>1. tp = "got"
          <6>1. CASE Trainer \/ ValidateTask
            BY <1>0, <3>4, <4>2, <6>1, TrainerSteps
          <6>2. CASE UNCHANGED trainerVars
            BY <3>4, <6>2 DEF trainerVars
          <6> QED
            BY <6>1, <6>2, NextCases DEF vars, trainerVars
        <5> QED
          BY <3>1, <4>2, <5>1, ReturnSteps DEF NoneInv
      <4> QED
        BY <4>1, <4>2
    <3> QED
      BY <3>2, <3>3, <3>4
  <2> QED
    BY <1>1, <2>2, <2>3 DEF NoneInv
<1> QED
  BY <1>2, <1>3

(* The configuration without staleness.                                    *)
Synchronous == MaxRequired = Quota

(* What the trainer took for the version being trained, the None aside.    *)
Consumed == IF tp = "got" /\ mq_ret["trainer"].id = Done THEN Counted - 1 ELSE Counted

(* From the broadcast until staleness_samples is recomputed.               *)
Window == tp = "broadcast" \/ rp \in {"update", "updating", "queue size", "reset"}

(* What was generated for a version and what the trainer took of it are    *)
(* within staleness_samples, which stays within max_required_samples; so   *)
(* when the trainer has its quota nothing is ahead of it, and nothing is   *)
(* begun before the count starts anew.                                     *)
SyncCount ==
  Synchronous /\ ~final =>
    /\ staleness_samples <= MaxRequired
    /\ pp = "get" => staleness_samples < MaxRequired
    /\ Consumed + Planned <= staleness_samples
    /\ Window => Consumed + Planned = 0 /\ staleness_samples = MaxRequired
    /\ rp = "queue size" => rpc_size = 0
    /\ rp = "reset" => rpc_size <= 1

(* After a pause no task is there until the weights have been updated.     *)
IdlePcs == {"clear kv", "paused", "update", "updating"}
IdleInv == Synchronous /\ rp \in IdlePcs => Unfinished = {} /\ finished = 0

(* The count of what the trainer took, as get_sample and the publication   *)
(* of a version change it.                                                 *)
LEMMA ConsumedSteps ==
  ASSUME TypeInv, SyncInv, FinalInv, BatchInv, ~final, ~final', [Next]_vars
  PROVE  \/ Consumed' = Consumed
         \/ /\ queue # <<>> /\ queue' = Tail(queue) /\ TrainerGet
            /\ Consumed' = Consumed + (IF Head(queue).id = Done THEN 0 ELSE 1)
         \/ Consumed = Quota /\ Consumed' = 0
<1>0. tp \in TrainerPcs /\ Counted \in Nat
  BY CountedRange DEF TypeInv, TrainerTypes
<1>1. CASE UNCHANGED <<setup, trainerVars>>
  <2>1. Counted' = Counted /\ tp' = tp
    BY <1>1 DEF trainerVars, Counted, StepDone, Quota
  <2>2. CASE TrainerGet
    <3>1. tp = "get"
      BY <2>2 DEF TrainerGet
    <3> QED
      BY <2>1, <3>1 DEF Consumed
  <2>3. CASE UNCHANGED mq_ret
    BY <2>1, <2>3 DEF Consumed
  <2> QED
    BY <2>2, <2>3, ReturnSteps
<1>2. CASE TrainerGet
  <2>1. tp = "get" /\ Consumed = Counted
    BY <1>2 DEF TrainerGet, Consumed
  <2>2. CASE queue = <<>> /\ tp' = "get"
    <3>1. Consumed' = Counted'
      BY <2>2 DEF Consumed
    <3> QED
      BY <2>1, <2>2, <3>1, CountedSteps
  <2>3. CASE queue # <<>> /\ tp' = "got"
    <3>1. /\ queue' = Tail(queue) /\ mq_ret'["trainer"] = Head(queue)
          /\ Counted' = Counted + 1
      BY <2>1, <2>3, CountedSteps
    <3>2. Consumed' = IF Head(queue).id = Done THEN Counted' - 1 ELSE Counted'
      BY <2>3, <3>1 DEF Consumed
    <3> QED
      BY <1>0, <1>2, <2>1, <2>3, <3>1, <3>2
  <2> QED
    BY <1>2, <2>2, <2>3, TrainerGetCases DEF TypeInv
<1>3. CASE (Trainer \/ ValidateTask) /\ ~TrainerGet /\ UNCHANGED setup
  <2>1. \/ UNCHANGED <<queue, mq_ret>> /\ tp' # "got"
        \/ UNCHANGED <<queue, mq_ret, trainerVars>>
    BY <1>0, <1>3, TrainerSteps
  <2>2. CASE tp = "got" /\ mq_ret["trainer"].id = Done
    <3>1. UNCHANGED trainerVars
      BY <1>3, <2>2 DEF Trainer, TrainerGot, TrainerStep, StartSync, Broadcast, EndSync,
         TrainerValidated, TrainerLog, AfterLog, FinalWait, EndWait, ValidateTask
    <3> QED
      BY <1>1, <1>3, <3>1
  <2>3. CASE ~(tp = "got" /\ mq_ret["trainer"].id = Done)
    <3>1. Consumed = Counted /\ Consumed' = Counted'
      BY <1>3, <2>1, <2>3, ReturnSteps DEF Consumed, trainerVars
    <3>2. queue # <<>> => queue # Tail(queue)
      <4>1. queue \in Seq(SampleNat)
        BY DEF TypeInv, QueueTypes
      <4>2. queue # <<>> => Len(Tail(queue)) = Len(queue) - 1 /\ Len(queue) \in Nat
        BY <4>1, HeadTailProperties
      <4> QED
        BY <4>2
    <3> QED
      BY <2>1, <3>1, <3>2, CountedSteps
  <2> QED
    BY <2>2, <2>3
<1> QED
  BY <1>1, <1>2, <1>3, NextCases DEF vars

(* When a sample is taken, not the None, the queue has one less.           *)
LEMMA SampleTaken ==
  ASSUME TypeInv, queue # <<>>, queue' = Tail(queue), Head(queue).id # Done
  PROVE  Cardinality(Queued') <= Cardinality(Queued) - 1
<1>1. IsFiniteSet(Queued) /\ Cardinality(Queued) \in Nat /\ Len(queue) \in Nat
  BY Counts
<1>2. queue \in Seq(SampleNat)
  BY DEF TypeInv, QueueTypes
<1>3. /\ Len(queue') = Len(queue) - 1 /\ Head(queue) = queue[1] /\ Len(queue) # 0
      /\ \A k \in 1 .. Len(queue') : queue'[k] = queue[k + 1]
  BY <1>2, HeadTailProperties, EmptySeq
<1>4. 1 \in Queued
  BY <1>1, <1>3 DEF Queued
<1> DEFINE rest == Queued \ {1}
<1>5. IsFiniteSet(rest) /\ Cardinality(rest) = Cardinality(Queued) - 1
  BY <1>1, <1>4, FS_RemoveElement
<1>6. \A k \in Queued' : k + 1 \in rest
  <2> SUFFICES ASSUME NEW k \in Queued'
               PROVE  k + 1 \in rest
    OBVIOUS
  <2>1. k \in 1 .. Len(queue') /\ queue'[k].id # Done
    BY DEF Queued
  <2>2. k + 1 \in Queued
    BY <1>1, <1>3, <2>1 DEF Queued
  <2>3. k + 1 # 1
    BY <1>1, <1>3, <2>1
  <2> QED
    BY <2>2, <2>3
<1>7. Queued' \in SUBSET Int /\ rest \in SUBSET Int
  BY DEF Queued
<1>8. 1 \in Int
  OBVIOUS
<1> HIDE DEF rest
<1>9. Cardinality(Queued') <= Cardinality(rest)
  BY <1>5, <1>6, <1>7, <1>8, ShiftCount, Zenon
<1> QED
  BY <1>5, <1>9

(* Only a new sample from pending_queue adds to what is planned; what the  *)
(* trainer takes leaves it.                                                *)
LEMMA PlannedSteps ==
  ASSUME TypeInv, HandInv, [Next]_vars
  PROVE  /\ Planned \in Nat /\ Planned' \in Nat
         /\ ProcessorGet => Planned' <= Planned + 1
         /\ ~ProcessorGet => Planned' <= Planned
         /\ TrainerGet /\ queue # <<>> /\ Head(queue).id # Done => Planned' <= Planned - 1
<1>1. TypeInv'
  BY NextTypes
<1>2. /\ Cardinality(Working) \in Nat /\ Cardinality(Queued) \in Nat
      /\ Len(cancel_queue) \in Nat
  BY Counts
<1>3. /\ Cardinality(Working') \in Nat /\ Cardinality(Queued') \in Nat
      /\ Len(cancel_queue') \in Nat
  BY <1>1, CountsNext
<1>w. PICK w \in Nat : w = Cardinality(Working)
  BY <1>2
<1>w2. PICK w2 \in Nat : w2 = Cardinality(Working')
  BY <1>3
<1>q. PICK q \in Nat : q = Cardinality(Queued)
  BY <1>2
<1>q2. PICK q2 \in Nat : q2 = Cardinality(Queued')
  BY <1>3
<1>c. PICK c \in Nat : c = Len(cancel_queue)
  BY <1>2
<1>c2. PICK c2 \in Nat : c2 = Len(cancel_queue')
  BY <1>3
<1>h. PICK h \in Nat : h = Held /\ h <= 1
  BY DEF Held
<1>h2. PICK h2 \in Nat : h2 = Held' /\ h2 <= 1
  BY DEF Held
<1>7. /\ w = Cardinality(Working) /\ w2 = Cardinality(Working')
      /\ q = Cardinality(Queued) /\ q2 = Cardinality(Queued')
      /\ c = Len(cancel_queue) /\ c2 = Len(cancel_queue')
      /\ h = Held /\ h2 = Held'
  BY <1>w, <1>w2, <1>q, <1>q2, <1>c, <1>c2, <1>h, <1>h2
<1>u. h <= 1 /\ h2 <= 1
  BY <1>h, <1>h2
<1>8. Planned = w + c + q + h /\ Planned' = w2 + c2 + q2 + h2
  BY <1>7, PlannedIsSum
<1>9. /\ hand = Done => h = 0
      /\ hand # Done => h = 1
      /\ hand' = Done => h2 = 0
      /\ hand' = hand => h2 = h
  BY <1>7 DEF Held
<1>12. \/ h2 = h /\ c2 = c /\ w2 = w /\ q2 <= q
       \/ h2 = h /\ c2 = c /\ w2 = w - 1 /\ q2 <= q + 1
       \/ h2 = h /\ c2 = c + 1 /\ w2 = w - 1 /\ q2 = q
       \/ h = 0 /\ c2 = c - 1 /\ w2 = w /\ q2 = q
       \/ ProcessorGet /\ c2 = c /\ w2 = w /\ q2 = q
       \/ h = 1 /\ h2 = 0 /\ c2 = c /\ w2 <= w + 1 /\ q2 = q
  BY <1>7, <1>9, CountSteps
<1>13. CASE ProcessorGet
  <2>1. UNCHANGED <<cancel_queue, phase, queue, tp>> /\ pp = "get" /\ pp' = "taken"
    <3>1. UNCHANGED <<cancel_queue, phase, queue>> /\ pp = "get" /\ pp' = "taken"
      BY <1>13 DEF ProcessorGet, ProcessorUnchanged, mqVars
    <3> QED
      BY <3>1, NextCases, TrainerFrame DEF trainerVars, procVars, vars
  <2>2. w2 = w /\ c2 = c /\ q2 = q
    BY <1>7, <2>1 DEF Working, Queued
  <2>3. w2 + c2 + q2 + h2 <= w + c + q + h + 1
    BY <1>u, <2>2
  <2>4. ~TrainerGet
    BY <2>1, TrainerFrame DEF Trainer, procVars
  <2> QED
    BY <1>8, <1>13, <2>3, <2>4
<1>14. CASE ~ProcessorGet
  <2>1. w2 + c2 + q2 + h2 <= w + c + q + h
    <3>1. ASSUME h2 = h, c2 = c, w2 = w, q2 <= q
          PROVE  w2 + c2 + q2 + h2 <= w + c + q + h
      BY <3>1
    <3>2. ASSUME h2 = h, c2 = c, w2 = w - 1, q2 <= q + 1
          PROVE  w2 + c2 + q2 + h2 <= w + c + q + h
      BY <3>2
    <3>3. ASSUME h2 = h, c2 = c + 1, w2 = w - 1, q2 = q
          PROVE  w2 + c2 + q2 + h2 <= w + c + q + h
      BY <3>3
    <3>4. ASSUME h = 0, c2 = c - 1, w2 = w, q2 = q
          PROVE  w2 + c2 + q2 + h2 <= w + c + q + h
      BY <1>u, <3>4
    <3>5. ASSUME h = 1, h2 = 0, c2 = c, w2 <= w + 1, q2 = q
          PROVE  w2 + c2 + q2 + h2 <= w + c + q + h
      BY <3>5
    <3> QED
      BY <1>12, <1>14, <3>1, <3>2, <3>3, <3>4, <3>5
  <2>2. ASSUME TrainerGet, queue # <<>>, Head(queue).id # Done
        PROVE  w2 + c2 + q2 + h2 <= w + c + q + h - 1
    <3>1. UNCHANGED <<cancel_queue, hand, phase>>
      BY <2>2, TrainerFrame DEF Trainer, sampleQueues, taskVars, procVars
    <3>2. w2 = w /\ c2 = c /\ h2 = h
      BY <1>7, <1>9, <3>1 DEF Working
    <3>3. queue' = Tail(queue)
      BY <2>2, TrainerGetCases DEF TypeInv
    <3>4. q2 <= q - 1
      BY <1>7, <2>2, <3>3, SampleTaken
    <3> QED
      BY <3>2, <3>4
  <2> QED
    BY <1>8, <1>14, <2>1, <2>2
<1> QED
  BY <1>13, <1>14

(* Both counts are natural numbers.                                        *)
LEMMA AheadNow ==
  ASSUME TypeInv, FinalInv, BatchInv, ~final
  PROVE  Consumed \in Nat /\ Planned \in Nat
<1>1. Counted \in Nat
  BY CountedRange
<1>2. ASSUME tp = "got" /\ mq_ret["trainer"].id = Done
      PROVE  Consumed \in Nat
  <2>1. Counted = StepDone + 1 /\ Consumed = Counted - 1
    BY <1>2 DEF Counted, Consumed
  <2>2. /\ local_trigger_step \in Nat \ {0} /\ local_trigger_step <= setup.trigger_steps
        /\ setup.required_samples \in Nat /\ setup.trigger_steps \in Nat
        /\ Len(batch) \in Nat /\ Len(batch) <= setup.required_samples
    BY <1>2, SetupTypes DEF TypeInv, TrainerTypes, BatchInv
  <2>3. StepDone \in Nat
    BY <2>2, StepBound DEF StepDone
  <2> QED
    BY <2>1, <2>3
<1>3. ASSUME ~(tp = "got" /\ mq_ret["trainer"].id = Done)
      PROVE  Consumed \in Nat
  BY <1>1, <1>3 DEF Consumed
<1>4. Planned \in Nat
  <2>1. /\ Cardinality(Working) \in Nat /\ Cardinality(Queued) \in Nat
        /\ Len(cancel_queue) \in Nat /\ Held \in Nat
    BY Counts DEF Held
  <2> QED
    BY <2>1, PlannedIsSum
<1> QED
  BY <1>2, <1>3, <1>4

(* The same after a step.                                                  *)
LEMMA AheadNext ==
  (TypeInv /\ FinalInv /\ BatchInv /\ ~final => Consumed \in Nat /\ Planned \in Nat)'
<1>1. TypeInv /\ FinalInv /\ BatchInv /\ ~final => Consumed \in Nat /\ Planned \in Nat
  BY AheadNow
<1> QED
  BY <1>1, PTL

(* So what the trainer took and what is ahead of it grow by a new sample   *)
(* only, until the version is published and the count starts anew.         *)
LEMMA AheadSteps ==
  ASSUME TypeInv, SyncInv, FinalInv, BatchInv, HandInv, ~final, ~final', [Next]_vars
  PROVE  /\ Consumed \in Nat /\ Planned \in Nat /\ Planned' \in Nat
         /\ \/ ProcessorGet /\ Consumed' + Planned' <= Consumed + Planned + 1
            \/ ~ProcessorGet /\ Consumed' + Planned' <= Consumed + Planned
            \/ /\ ~ProcessorGet /\ Consumed = Quota /\ Consumed' = 0
               /\ Planned' <= Planned
<1>0. Consumed \in Nat
  BY AheadNow
<1>1. /\ Planned \in Nat /\ Planned' \in Nat
      /\ ProcessorGet => Planned' <= Planned + 1
      /\ ~ProcessorGet => Planned' <= Planned
      /\ TrainerGet /\ queue # <<>> /\ Head(queue).id # Done => Planned' <= Planned - 1
  BY PlannedSteps
<1>2. PICK a \in Nat : a = Consumed
  BY <1>0
<1>3. PICK p \in Nat : p = Planned
  BY <1>1
<1>4. PICK p2 \in Nat : p2 = Planned'
  BY <1>1
<1>5. TrainerGet => ~ProcessorGet
  BY TrainerFrame DEF Trainer, procVars, ProcessorGet
<1>6. CASE Consumed' = Consumed
  <2>1. CASE ProcessorGet
    <3>1. p2 <= p + 1
      BY <1>1, <1>3, <1>4, <2>1
    <3>2. a + p2 <= a + p + 1
      BY <3>1
    <3>3. Consumed' + Planned' <= Consumed + Planned + 1
      BY <1>2, <1>3, <1>4, <1>6, <3>2
    <3> QED
      BY <1>0, <1>1, <2>1, <3>3
  <2>2. CASE ~ProcessorGet
    <3>1. p2 <= p
      BY <1>1, <1>3, <1>4, <2>2
    <3>2. a + p2 <= a + p
      BY <3>1
    <3>3. Consumed' + Planned' <= Consumed + Planned
      BY <1>2, <1>3, <1>4, <1>6, <3>2
    <3> QED
      BY <1>0, <1>1, <2>2, <3>3
  <2> QED
    BY <2>1, <2>2
<1>7. CASE /\ queue # <<>> /\ queue' = Tail(queue) /\ TrainerGet
           /\ Consumed' = Consumed + (IF Head(queue).id = Done THEN 0 ELSE 1)
  <2>1. CASE Head(queue).id = Done
    <3>1. Consumed' = Consumed
      BY <1>0, <1>7, <2>1
    <3> QED
      BY <1>6, <3>1
  <2>2. CASE Head(queue).id # Done
    <3>1. Consumed' = a + 1
      BY <1>2, <1>7, <2>2
    <3>2. p2 <= p - 1
      BY <1>1, <1>3, <1>4, <1>7, <2>2
    <3>3. (a + 1) + p2 <= a + p
      BY <3>2
    <3> QED
      BY <1>0, <1>1, <1>2, <1>3, <1>4, <1>5, <1>7, <3>1, <3>3
  <2> QED
    BY <2>1, <2>2
<1>8. CASE Consumed = Quota /\ Consumed' = 0
  <2>1. CASE ProcessorGet
    <3>1. p2 <= p + 1
      BY <1>1, <1>3, <1>4, <2>1
    <3>2. 0 + p2 <= a + p + 1
      BY <3>1
    <3>3. Consumed' + Planned' <= Consumed + Planned + 1
      BY <1>2, <1>3, <1>4, <1>8, <3>2
    <3> QED
      BY <1>0, <1>1, <2>1, <3>3
  <2>2. CASE ~ProcessorGet
    BY <1>0, <1>1, <1>8, <2>2
  <2> QED
    BY <2>1, <2>2
<1> QED
  BY <1>6, <1>7, <1>8, ConsumedSteps

(* Nothing planned: no task at work, nothing interrupted or queued but the *)
(* None, nothing in hand.                                                  *)
LEMMA NothingPlanned ==
  ASSUME TypeInv, Planned = 0
  PROVE  Working = {} /\ cancel_queue = <<>> /\ Queued = {} /\ hand = Done
<1>1. /\ IsFiniteSet(Working) /\ IsFiniteSet(Queued)
      /\ Cardinality(Working) \in Nat /\ Cardinality(Queued) \in Nat
      /\ Len(cancel_queue) \in Nat
  BY Counts
<1>2. PICK w \in Nat : w = Cardinality(Working)
  BY <1>1
<1>3. PICK q \in Nat : q = Cardinality(Queued)
  BY <1>1
<1>4. PICK c \in Nat : c = Len(cancel_queue)
  BY <1>1
<1>5. PICK h \in Nat : h = Held
  BY DEF Held
<1>6. w + c + q + h = 0
  BY <1>2, <1>3, <1>4, <1>5, PlannedIsSum
<1>7. w = 0 /\ c = 0 /\ q = 0 /\ h = 0
  BY <1>6
<1>8. Working = {} /\ Queued = {}
  BY <1>1, <1>2, <1>3, <1>7, FS_EmptySet
<1>9. cancel_queue = <<>>
  BY <1>4, <1>7, EmptySeq DEF TypeInv, FeedTypes
<1>10. hand = Done
  BY <1>5, <1>7 DEF Held
<1> QED
  BY <1>8, <1>9, <1>10

(* Nothing taken: no batch, and what was got last is no sample.            *)
LEMMA NothingTaken ==
  ASSUME TypeInv, FinalInv, BatchInv, ~final, Consumed = 0
  PROVE  batch = <<>> /\ ~(tp = "got" /\ mq_ret["trainer"].id # Done)
<1>0. /\ setup.required_samples \in Nat \ {0} /\ setup.trigger_steps \in Nat \ {0}
      /\ local_trigger_step \in Nat \ {0}
      /\ batch \in Seq(Trainable) /\ Len(batch) \in Nat
      /\ Quota \in Nat \ {0}
  BY SetupTypes, QuotaTypes DEF TypeInv, TrainerTypes
<1>1. PICK m \in Nat : m = (local_trigger_step - 1) * setup.required_samples
  <2>1. local_trigger_step - 1 \in Nat
    BY <1>0
  <2>2. (local_trigger_step - 1) * setup.required_samples \in Nat
    BY <1>0, <2>1
  <2> QED
    BY <2>2
<1>2. PICK n \in Nat : n = Len(batch)
  BY <1>0
<1>3. StepDone = m + n
  BY <1>1, <1>2 DEF StepDone
<1>4. tp \notin {"wait last", "pause"}
  <2>1. tp \in {"wait last", "pause"} => Consumed = Quota
    BY DEF Consumed, Counted
  <2> QED
    BY <1>0, <2>1
<1>5. CASE tp = "got" /\ mq_ret["trainer"].id # Done
  <2>1. Consumed = m + n + 1
    BY <1>3, <1>5 DEF Consumed, Counted
  <2> QED
    BY <2>1
<1>6. CASE tp = "got" /\ mq_ret["trainer"].id = Done
  <2>1. Consumed = m + n + 1 - 1
    BY <1>3, <1>6 DEF Consumed, Counted
  <2>2. n = 0
    BY <2>1
  <2> QED
    BY <1>0, <1>2, <1>6, <2>2, EmptySeq
<1>7. CASE tp # "got"
  <2>1. Consumed = m + n
    BY <1>3, <1>4, <1>7 DEF Consumed, Counted
  <2>2. n = 0
    BY <2>1
  <2> QED
    BY <1>0, <1>2, <1>7, <2>2, EmptySeq
<1> QED
  BY <1>5, <1>6, <1>7

(* The window opens with the broadcast and closes with the new count.      *)
LEMMA WindowOpens ==
  ASSUME TypeInv, SyncInv, [Next]_vars, Window'
  PROVE  /\ Window \/ (tp = "pause" /\ tp' = "broadcast")
         /\ rp = "reset" => rp' = "reset"
         /\ rp' = "updating" => rp \in {"update", "updating"}
<1>1. CASE Rpc /\ UNCHANGED trainerVars
  <2>1. UNCHANGED tp
    BY <1>1 DEF trainerVars
  <2>2. /\ rp' \in {"update", "updating", "queue size", "reset"} =>
             rp \in {"update", "updating", "queue size", "reset"}
        /\ rp = "reset" /\ rp' # "put validate" => rp' = "reset"
        /\ rp = "reset" => tp' # "broadcast"
        /\ rp' = "updating" => rp \in {"update", "updating"}
    <3>1. rp = "reset" => tp' # "broadcast"
      BY <2>1 DEF SyncInv, HandShake
    <3> QED
      BY <1>1, <3>1 DEF Rpc, PauseCall, Pausing, PauseGathered, PauseReturns,
         UpdateCall, Updating, UpdateQueueSize, UpdateReset, UpdatePutValidate,
         UpdateReturns, ResumeCall, ResumeServers, ResumeReturns
  <2> QED
    BY <1>1, <2>1, <2>2 DEF Window
<1>2. CASE Trainer \/ ValidateTask
  <2>1. rp = "paused" \/ tp # "broadcast"
    BY DEF SyncInv, HandShake
  <2> QED
    BY <1>2, <2>1, TrainerProgress DEF Window
<1>3. CASE UNCHANGED trainerVars
             /\ (Feed \/ Processor \/ Main \/ Monitor \/ \E i \in Ids : Task(i))
  BY <1>3, SyncFrame DEF Window
<1>4. CASE UNCHANGED vars
  BY <1>4 DEF vars, rollouterVars, rpcVars, trainerVars, Window
<1> QED
  BY <1>1, <1>2, <1>3, <1>4, NextCases

(* While the rollouter is idle nothing is in the processor's hand.         *)
LEMMA IdleHand ==
  ASSUME TypeInv, SyncInv, FinalInv, BatchInv, HandInv, NoneInv, SyncCount, Synchronous,
         rp \in IdlePcs
  PROVE  pp # "submit" /\ (~final => Planned = 0)
<1>1. CASE final
  BY <1>1 DEF NoneInv
<1>2. CASE ~final
  <2>0. /\ Planned \in Nat /\ Consumed \in Nat /\ staleness_samples \in Nat
        /\ MaxRequired \in Nat
    <3>1. Planned \in Nat /\ Consumed \in Nat
      BY <1>2, AheadNow
    <3> QED
      BY <3>1, SizeAssumption DEF TypeInv, FlagTypes
  <2>1. PICK p \in Nat : p = Planned
    BY <2>0
  <2>2. PICK a \in Nat : a = Consumed
    BY <2>0
  <2>3. p = 0
    <3>1. CASE tp = "pause"
      <4>1. a = MaxRequired
        BY <2>2, <3>1 DEF Consumed, Counted, Synchronous
      <4>2. a + p <= MaxRequired
        <5>1. PICK s \in Nat : s = staleness_samples
          BY <2>0
        <5>2. a + p <= s /\ s <= MaxRequired
          BY <1>2, <2>1, <2>2, <5>1 DEF SyncCount
        <5> QED
          BY <2>0, <5>2
      <4> QED
        BY <4>1, <4>2
    <3>2. CASE tp # "pause"
      <4>1. Window
        BY <3>2 DEF SyncInv, HandShake, IdlePcs, PausePcs, Window
      <4>2. a + p = 0
        BY <1>2, <2>1, <2>2, <4>1 DEF SyncCount
      <4> QED
        BY <4>2
    <3> QED
      BY <3>1, <3>2
  <2>4. hand = Done
    BY <2>1, <2>3, NothingPlanned
  <2>5. pp # "submit"
    BY <2>4 DEF HandInv, LoopPcs
  <2> QED
    BY <2>1, <2>3, <2>5
<1> QED
  BY <1>1, <1>2

(* Every step keeps the rollouter idle until the weights are updated.      *)
LEMMA NextIdle ==
  ASSUME TypeInv, SyncInv, FinalInv, BatchInv, HandInv, NoneInv, SyncCount, IdleInv,
         [Next]_vars
  PROVE  IdleInv'
<1> SUFFICES ASSUME Synchronous', rp' \in IdlePcs
             PROVE  Unfinished' = {} /\ finished' = 0
  BY DEF IdleInv
<1>1. Synchronous
  BY NextCases DEF Synchronous, Quota, vars
<1>2. CASE rp \in IdlePcs
  <2>1. Unfinished = {} /\ finished = 0 /\ pp # "submit"
    BY <1>1, <1>2, IdleHand DEF IdleInv
  <2>2. \A i \in Ids : ~Task(i)
    BY <2>1 DEF Unfinished, Task, TaskGenerated, TaskPut, TaskDone, TaskCancelled, TaskRaises
  <2>3. UNCHANGED phase
    <3>1. CASE Processor
      BY <2>1, <3>1, ProcessorSteps DEF ProcessorSubmit
    <3>2. CASE ~Processor
      BY <2>2, <3>2, NextCases, FeedFrame, MainFrame, MonitorFrame, RpcFrame, TrainerFrame
         DEF taskVars, vars, rollouterVars
    <3> QED
      BY <3>1, <3>2
  <2>4. finished' = 0
    <3>1. finished' = 0 \/ UNCHANGED finished
      BY <2>2, NextCases, FeedFrame, MainFrame, MonitorFrame, RpcSteps, ProcessorSteps,
         TrainerFrame DEF taskVars, vars, rollouterVars
    <3> QED
      BY <2>1, <3>1
  <2> QED
    BY <2>1, <2>3, <2>4 DEF Unfinished
<1>3. CASE rp \notin IdlePcs
  <2>1. PauseGathered
    <3>1. CASE Rpc
      BY <1>3, <3>1 DEF IdlePcs, Rpc, PauseCall, Pausing, PauseGathered, PauseReturns,
         UpdateCall, Updating, UpdateQueueSize, UpdateReset, UpdatePutValidate,
         UpdateReturns, ResumeCall, ResumeServers, ResumeReturns
    <3>2. CASE Trainer \/ ValidateTask
      BY <1>3, <3>2, TrainerProgress DEF IdlePcs, SyncInv, HandShake
    <3>3. CASE ~Rpc /\ ~(Trainer \/ ValidateTask)
      BY <1>3, <3>3, NextCases, SyncFrame DEF vars, rollouterVars, rpcVars
    <3> QED
      BY <3>1, <3>2, <3>3
  <2> QED
    BY <2>1 DEF PauseGathered, RpcUnchanged, Unfinished
<1> QED
  BY <1>2, <1>3

(* Nothing but the None may be queued when nothing is planned.             *)
LEMMA OnlyNoneQueued ==
  ASSUME TypeInv, NoneInv, Planned = 0
  PROVE  Len(queue) \in Nat /\ Len(queue) <= 1
<1>1. Queued = {}
  BY NothingPlanned
<1>2. Len(queue) \in Nat
  BY DEF TypeInv, QueueTypes
<1>3. \A k \in 1 .. Len(queue) : queue[k].id = Done
  BY <1>1 DEF Queued
<1>4. ASSUME Len(queue) > 1
      PROVE  FALSE
  <2>1. 1 \in 1 .. Len(queue) /\ 2 \in 1 .. Len(queue)
    BY <1>2, <1>4
  <2>2. 1 = 2
    BY <1>3, <2>1 DEF NoneInv
  <2> QED
    BY <2>2
<1> QED
  BY <1>2, <1>4

(* At the broadcast the count of what is taken starts anew.                *)
LEMMA NoneTakenNow ==
  TypeInv /\ BatchInv /\ ~final /\ tp = "broadcast" => Consumed = 0
<1> SUFFICES ASSUME TypeInv, BatchInv, ~final, tp = "broadcast"
             PROVE  Consumed = 0
  OBVIOUS
<1>1. batch = <<>> /\ local_trigger_step = 1
  BY DEF BatchInv
<1>2. Len(batch) = 0 /\ setup.required_samples \in Nat
  BY <1>1, SetupTypes DEF TypeInv
<1>3. StepDone = 0
  BY <1>1, <1>2 DEF StepDone
<1> QED
  BY <1>3 DEF Consumed, Counted

(* The same after a step.                                                  *)
LEMMA NoneTakenNext ==
  (TypeInv /\ BatchInv /\ ~final /\ tp = "broadcast" => Consumed = 0)'
  BY NoneTakenNow, PTL

(* Nothing but the broadcast leads there.                                  *)
LEMMA BroadcastOnly ==
  ASSUME TypeInv, Trainer \/ ValidateTask, tp' = "broadcast"
  PROVE  tp = "broadcast" \/ Broadcast
  BY TrainerGetCases DEF Trainer, ValidateTask, TrainerGet, TrainerGot, TrainerStep,
     StartSync, EndSync, TrainerValidated, TrainerLog, AfterLog, FinalWait, EndWait, TypeInv

(* Every step keeps the counts.                                            *)
LEMMA NextSyncCount ==
  ASSUME TypeInv, SyncInv, FinalInv, BatchInv, LockInv, HandInv, NoneInv, SyncCount,
         IdleInv, [Next]_vars
  PROVE  SyncCount'
<1> SUFFICES ASSUME Synchronous', ~final'
             PROVE  /\ staleness_samples' <= MaxRequired
                    /\ pp' = "get" => staleness_samples' < MaxRequired
                    /\ Consumed' + Planned' <= staleness_samples'
                    /\ Window' => /\ Consumed' + Planned' = 0
                                  /\ staleness_samples' = MaxRequired
                    /\ rp' = "queue size" => rpc_size' = 0
                    /\ rp' = "reset" => rpc_size' <= 1
  BY DEF SyncCount
<1>0. Synchronous /\ ~final
  BY NextCases, FinalStays DEF Synchronous, Quota, vars
<1>1. TypeInv' /\ BatchInv' /\ FinalInv'
  BY NextTypes, NextBatch, NextFinal
<1>2. /\ Consumed \in Nat /\ Planned \in Nat /\ Consumed' \in Nat /\ Planned' \in Nat
      /\ staleness_samples \in Nat /\ rpc_size \in Nat
      /\ staleness_samples' \in Nat /\ rpc_size' \in Nat
      /\ MaxRequired \in Nat \ {0}
  <2>1. Consumed \in Nat /\ Planned \in Nat
    BY <1>0, AheadNow
  <2>2. Consumed' \in Nat /\ Planned' \in Nat
    BY <1>1, AheadNext
  <2> QED
    BY <1>1, <2>1, <2>2, SizeAssumption DEF TypeInv, FlagTypes, PcTypes
<1>m. PICK m \in Nat \ {0} : m = MaxRequired
  BY <1>2
<1>a. PICK a \in Nat : a = Consumed
  BY <1>2
<1>a2. PICK a2 \in Nat : a2 = Consumed'
  BY <1>2
<1>p. PICK p \in Nat : p = Planned
  BY <1>2
<1>p2. PICK p2 \in Nat : p2 = Planned'
  BY <1>2
<1>s. PICK s \in Nat : s = staleness_samples
  BY <1>2
<1>s2. PICK s2 \in Nat : s2 = staleness_samples'
  BY <1>2
<1>z. PICK z \in Nat : z = rpc_size
  BY <1>2
<1>z2. PICK z2 \in Nat : z2 = rpc_size'
  BY <1>2
<1>3. /\ m = MaxRequired /\ a = Consumed /\ a2 = Consumed' /\ p = Planned /\ p2 = Planned'
      /\ s = staleness_samples /\ s2 = staleness_samples'
      /\ z = rpc_size /\ z2 = rpc_size'
  BY <1>m, <1>a, <1>a2, <1>p, <1>p2, <1>s, <1>s2, <1>z, <1>z2
<1>4. /\ s <= m
      /\ pp = "get" => s < m
      /\ a + p <= s
      /\ Window => a + p = 0 /\ s = m
      /\ rp = "queue size" => z = 0
      /\ rp = "reset" => z <= 1
  BY <1>0, <1>3 DEF SyncCount
<1>w. Window => a + p = 0 /\ s = m
  BY <1>4
<1>5. \/ ProcessorGet /\ a2 + p2 <= a + p + 1
      \/ ~ProcessorGet /\ a2 + p2 <= a + p
      \/ ~ProcessorGet /\ a = m /\ a2 = 0 /\ p2 <= p
  BY <1>0, <1>3, AheadSteps DEF Synchronous
<1>6. SUFFICES /\ s2 <= m
               /\ pp' = "get" => s2 < m
               /\ a2 + p2 <= s2
               /\ Window' => a2 + p2 = 0 /\ s2 = m
               /\ rp' = "queue size" => z2 = 0
               /\ rp' = "reset" => z2 <= 1
  BY <1>3
<1>7. CASE ProcessorGet
  <2>1. pp = "get" /\ pp' = "taken" /\ s2 = s + 1 /\ UNCHANGED rp /\ z2 = z
    BY <1>3, <1>7 DEF ProcessorGet, ProcessorUnchanged, rpcVars
  <2>2. s < m /\ a + p <= s
    BY <1>4, <2>1
  <2>3. s2 <= m
    BY <2>1, <2>2
  <2>4. a2 + p2 <= s2
    <3>1. a2 + p2 <= a + p + 1
      BY <1>5, <1>7
    <3> QED
      BY <2>1, <2>2, <3>1
  <2>5. ~Window
    BY <1>w, <2>2
  <2>6. tp' # "broadcast"
    <3>1. ~Broadcast
      BY <1>7, <2>1, TrainerFrame DEF Trainer, procVars
    <3>2. tp' = "broadcast" => tp = "broadcast" \/ Broadcast
      BY NextCases, BroadcastOnly DEF trainerVars, vars
    <3> QED
      BY <2>5, <3>1, <3>2 DEF Window
  <2>7. ~Window'
    BY <2>1, <2>5, <2>6 DEF Window
  <2>8. rp' \notin {"queue size", "reset"}
    BY <2>7 DEF Window
  <2> QED
    BY <2>1, <2>3, <2>4, <2>7, <2>8
<1>8. CASE ~ProcessorGet
  <2>1. \/ rp = "updating" /\ rp' = "queue size" /\ s2 = s
        \/ rp = "queue size" /\ rp' = "reset" /\ s2 = s
        \/ rp = "reset" /\ rp' = "put validate" /\ s2 = z
        \/ (rp' = rp \/ rp' \notin {"queue size", "reset"}) /\ z2 = z /\ s2 = s
    BY <1>3, <1>8, BoundSteps
  <2>2. s2 = s \/ (s2 = z /\ rp = "reset" /\ rp' = "put validate")
    BY <2>1
  <2>3. s2 <= m
    <3>1. CASE s2 = s
      <4>1. s <= m
        BY <1>4
      <4> QED
        BY <3>1, <4>1
    <3>2. CASE s2 = z /\ rp = "reset"
      <4>1. z <= 1
        BY <1>4, <3>2
      <4> QED
        BY <3>2, <4>1
    <3> QED
      BY <2>2, <3>1, <3>2
  <2>4. pp' = "get" => s2 < m
    <3> SUFFICES ASSUME pp' = "get"
                 PROVE  s2 < m
      OBVIOUS
    <3>1. s < m
      <4>1. pp = "get" \/ s < m
        BY <1>3, BoundSteps
      <4> QED
        BY <1>4, <4>1
    <3>2. ~Window
      BY <1>w, <3>1
    <3>3. s2 = s
      BY <2>2, <3>2 DEF Window
    <3> QED
      BY <3>1, <3>3
  <2>5. a2 + p2 <= a + p \/ (a2 = 0 /\ p2 <= p)
    BY <1>5, <1>8
  <2>6. a2 + p2 <= a + p
    <3>1. a2 = 0 /\ p2 <= p => a2 + p2 <= a + p
      OBVIOUS
    <3> QED
      BY <2>5, <3>1
  <2>7. a2 + p2 <= s2
    <3>1. CASE s2 = s
      <4>1. a + p <= s
        BY <1>4
      <4> QED
        BY <2>6, <3>1, <4>1
    <3>2. CASE s2 = z /\ rp = "reset"
      <4>1. a + p = 0
        BY <1>w, <3>2 DEF Window
      <4> QED
        BY <2>6, <4>1
    <3> QED
      BY <2>2, <3>1, <3>2
  <2>8. ASSUME Window'
        PROVE  a2 + p2 = 0 /\ s2 = m
    <3>1. CASE Window
      <4>1. a + p = 0 /\ s = m
        BY <1>w, <3>1
      <4>2. s2 = s
        BY <2>2, <2>8, WindowOpens
      <4> QED
        BY <2>6, <4>1, <4>2
    <3>2. CASE tp = "pause" /\ tp' = "broadcast"
      <4>1. a = m
        BY <1>0, <1>3, <3>2 DEF Consumed, Counted, Synchronous
      <4>2. a2 = 0
        BY <1>1, <1>3, <3>2, NoneTakenNext
      <4>3. rp # "reset"
        BY <3>2 DEF SyncInv, HandShake, PausePcs
      <4>4. s2 = s
        BY <2>2, <4>3
      <4>5. a + p <= s /\ s <= m
        BY <1>4
      <4>6. p = 0 /\ s = m
        BY <4>1, <4>5
      <4>7. p2 <= p
        BY <1>3, <1>8, PlannedSteps
      <4> QED
        BY <4>2, <4>4, <4>6, <4>7
    <3> QED
      BY <2>8, <3>1, <3>2, WindowOpens
  <2>9. ASSUME rp' = "queue size"
        PROVE  z2 = 0
    <3>1. CASE rp = "updating"
      <4>1. Planned = 0
        <5>1. a + p = 0
          BY <1>w, <3>1 DEF Window
        <5> QED
          BY <1>3, <5>1
      <4>2. cancel_queue = <<>>
        BY <4>1, NothingPlanned
      <4>3. Unfinished = {} /\ finished = 0
        BY <1>0, <3>1 DEF IdleInv, IdlePcs
      <4>4. rpc_size' = ActiveTasks + Len(cancel_queue)
        BY <2>9, <3>1, BoundSteps
      <4>5. ActiveTasks = 0
        BY <4>3, FS_EmptySet DEF ActiveTasks
      <4> QED
        BY <1>3, <4>2, <4>4, <4>5
    <3>2. CASE rp # "updating"
      <4>1. rp = "queue size" /\ z2 = z
        BY <2>1, <2>9, <3>2
      <4> QED
        BY <1>4, <4>1
    <3> QED
      BY <3>1, <3>2
  <2>10. ASSUME rp' = "reset"
         PROVE  z2 <= 1
    <3>1. CASE rp = "queue size"
      <4>1. Planned = 0
        <5>1. a + p = 0
          BY <1>w, <3>1 DEF Window
        <5> QED
          BY <1>3, <5>1
      <4>2. PICK l \in Nat : l = Len(queue) /\ l <= 1
        BY <4>1, OnlyNoneQueued
      <4>3. rpc_size' = rpc_size + Len(queue)
        BY <2>10, <3>1, BoundSteps
      <4>4. z = 0
        BY <1>4, <3>1
      <4>5. z2 = z + l
        BY <1>3, <4>2, <4>3
      <4> QED
        BY <4>2, <4>4, <4>5
    <3>2. CASE rp # "queue size"
      <4>1. rp = "reset" /\ z2 = z
        BY <2>1, <2>10, <3>2
      <4> QED
        BY <1>4, <4>1
    <3> QED
      BY <3>1, <3>2
  <2> QED
    BY <2>3, <2>4, <2>7, <2>8, <2>9, <2>10
<1> QED
  BY <1>7, <1>8

(* With the staleness count exact, everything in the pipeline belongs to   *)
(* the rollouter's version: what is fed was not started yet, what is       *)
(* started was started, ended and queued under that version.               *)
CurrentTasks ==
  Synchronous /\ ~final =>
    /\ \A i \in Ids : fed - Len(pending_queue) < i => born[i] = NotStarted
    /\ \A i \in Ids : phase[i] \in {"gen", "put"} => born[i] = current_param_version
    /\ \A i \in Ids : phase[i] = "put" => stamp[i] = current_param_version
    /\ \A k \in 1 .. Len(cancel_queue) : born[cancel_queue[k]] = current_param_version
    /\ hand # Done => born[hand] \in {NotStarted, current_param_version}

IsCurrent(s) == s.version = current_param_version /\ s.born = current_param_version
CurrentSamples ==
  Synchronous /\ ~final =>
    /\ \A k \in 1 .. Len(queue) : queue[k].id # Done => IsCurrent(queue[k])
    /\ tp = "got" /\ mq_ret["trainer"].id # Done => IsCurrent(mq_ret["trainer"])
    /\ \A k \in 1 .. Len(batch) : IsCurrent(batch[k])

(* The version changes when nothing of the old one is left.                *)
LEMMA VersionChanges ==
  ASSUME TypeInv, SyncInv, FinalInv, BatchInv, SyncCount, Synchronous, ~final, [Next]_vars
  PROVE  \/ UNCHANGED current_param_version
         \/ /\ UNCHANGED <<fed, pending_queue, cancel_queue, hand, phase, born, stamp,
                           queue, mq_ret, tp, batch>>
            /\ Working = {} /\ cancel_queue = <<>> /\ Queued = {} /\ hand = Done
            /\ batch = <<>> /\ ~(tp = "got" /\ mq_ret["trainer"].id # Done)
<1>1. CASE Rpc /\ UNCHANGED trainerVars
  <2>1. UNCHANGED <<fed, pending_queue, cancel_queue, hand, phase, born, stamp,
                    queue, mq_ret, tp, batch>>
    BY <1>1, RpcFrame DEF trainerVars, sampleQueues
  <2>2. UNCHANGED current_param_version \/ rp = "updating"
    BY <1>1, RpcProgress
  <2>3. ASSUME rp = "updating"
        PROVE  Planned = 0 /\ Consumed = 0
    <3>1. Consumed \in Nat /\ Planned \in Nat
      BY AheadNow
    <3>2. Consumed + Planned = 0
      BY <2>3 DEF SyncCount, Window
    <3> QED
      BY <3>1, <3>2
  <2> QED
    BY <2>1, <2>2, <2>3, NothingPlanned, NothingTaken
<1>2. CASE Trainer \/ ValidateTask
  BY <1>2, TrainerFrame DEF flagVars
<1>3. CASE UNCHANGED trainerVars
             /\ (Feed \/ Processor \/ Main \/ Monitor \/ \E i \in Ids : Task(i))
  BY <1>3, SyncFrame
<1>4. CASE UNCHANGED vars
  BY <1>4 DEF vars, rollouterVars, flagVars
<1> QED
  BY <1>1, <1>2, <1>3, <1>4, NextCases

(* What is in hand has left pending_queue.                                 *)
LEMMA HandNotPending ==
  ASSUME TypeInv, SampleInv, hand # Done
  PROVE  hand \in Ids /\ hand <= fed - Len(pending_queue)
<1>1. PICK h : h = hand
  OBVIOUS
<1>2. h \in Ids /\ h \in Nat /\ fed \in Nat /\ Len(pending_queue) \in Nat
  BY <1>1, SizeAssumption DEF TypeInv, PcTypes, FeedTypes, Ids, Done
<1>3. "hand" \in Places(h)
  BY <1>1, PlacesAre
<1>4. h <= fed
  BY <1>2, <1>3 DEF SampleInv
<1>5. ~In(h, pending_queue)
  <2>1. In(h, pending_queue) => "pending" \in Places(h)
    BY PlacesAre
  <2>2. "pending" \notin Places(h)
    BY <1>2, <1>3 DEF SampleInv, Alone
  <2> QED
    BY <2>1, <2>2
<1>6. In(h, pending_queue) <=> fed - Len(pending_queue) < h /\ h <= fed
  BY <1>2, PendingMembers DEF SampleInv
<1> QED
  BY <1>1, <1>2, <1>4, <1>5, <1>6

(* What pending_queue gives has not been started.                          *)
LEMMA HeadNotStarted ==
  ASSUME TypeInv, SampleInv, pending_queue # <<>>
  PROVE  Head(pending_queue) = Done \/ fed - Len(pending_queue) < Head(pending_queue)
<1>1. /\ pending_queue \in Seq(0 .. TotalSamples) /\ Len(pending_queue) \in Nat
      /\ fed \in Nat
  BY SizeAssumption DEF TypeInv, FeedTypes
<1>2. Head(pending_queue) = pending_queue[1] /\ 1 \in 1 .. Len(pending_queue)
  BY <1>1, HeadTailProperties
<1>3. pending_queue[1] = Position(fed - Len(pending_queue) + 1)
  BY <1>2 DEF SampleInv, PendingInv
<1>4. PICK f \in Int : f = fed - Len(pending_queue)
  BY <1>1
<1>5. Head(pending_queue) = Position(f + 1)
  BY <1>2, <1>3, <1>4
<1> QED
  BY <1>4, <1>5 DEF Position

(* The processor's steps keep what it handles current.                     *)
LEMMA ProcessorCurrent ==
  ASSUME TypeInv, HandInv, SampleInv, CurrentTasks, Synchronous, ~final, Processor,
         UNCHANGED <<current_param_version, trainerVars, setup>>
  PROVE  CurrentTasks'
<1> DEFINE c == current_param_version
<1>0. /\ born \in [Ids -> Nat \cup {NotStarted}] /\ phase \in [Ids -> Phases]
      /\ stamp' = stamp /\ fed' = fed
      /\ fed \in Nat /\ Len(pending_queue) \in Nat
      /\ pending_queue \in Seq(0 .. TotalSamples)
      /\ cancel_queue \in Seq(Ids) /\ hand \in 0 .. TotalSamples /\ c' = c
  BY ProcessorFrame, SizeAssumption DEF TypeInv, TaskTypes, FeedTypes, PcTypes
<1>1. /\ \A i \in Ids : fed - Len(pending_queue) < i => born[i] = NotStarted
      /\ \A i \in Ids : phase[i] \in {"gen", "put"} => born[i] = c
      /\ \A i \in Ids : phase[i] = "put" => stamp[i] = c
      /\ \A k \in 1 .. Len(cancel_queue) : born[cancel_queue[k]] = c
      /\ hand # Done => born[hand] \in {NotStarted, c}
  BY DEF CurrentTasks
<1> HIDE DEF c
<1> SUFFICES /\ \A i \in Ids : fed' - Len(pending_queue') < i => born'[i] = NotStarted
             /\ \A i \in Ids : phase'[i] \in {"gen", "put"} => born'[i] = c
             /\ \A i \in Ids : phase'[i] = "put" => stamp'[i] = c
             /\ \A k \in 1 .. Len(cancel_queue') : born'[cancel_queue'[k]] = c
             /\ hand' # Done => born'[hand'] \in {NotStarted, c}
  BY <1>0 DEF CurrentTasks, c
<1>2. CASE ProcessorCheck
  <2>1. UNCHANGED <<pending_queue, phase, born>>
    BY <1>2, <1>0 DEF ProcessorCheck
  <2>2. \/ UNCHANGED <<cancel_queue, hand>>
        \/ /\ cancel_queue # <<>> /\ cancel_queue' = Tail(cancel_queue)
           /\ hand' = Head(cancel_queue)
    BY <1>2 DEF ProcessorCheck
  <2>3. CASE UNCHANGED <<cancel_queue, hand>>
    BY <1>0, <1>1, <2>1, <2>3
  <2>4. CASE /\ cancel_queue # <<>> /\ cancel_queue' = Tail(cancel_queue)
             /\ hand' = Head(cancel_queue)
    <3>1. /\ Len(cancel_queue) \in Nat /\ Len(cancel_queue') = Len(cancel_queue) - 1
          /\ Head(cancel_queue) = cancel_queue[1] /\ 1 \in 1 .. Len(cancel_queue)
          /\ \A k \in 1 .. Len(cancel_queue') : cancel_queue'[k] = cancel_queue[k + 1]
      BY <1>0, <2>4, HeadTailProperties
    <3>2. \A k \in 1 .. Len(cancel_queue') : k + 1 \in 1 .. Len(cancel_queue)
      BY <3>1
    <3>3. \A k \in 1 .. Len(cancel_queue') : born'[cancel_queue'[k]] = c
      BY <1>1, <2>1, <3>1, <3>2
    <3>4. born'[hand'] = c
      BY <1>1, <2>1, <2>4, <3>1
    <3> QED
      BY <1>0, <1>1, <2>1, <3>3, <3>4
  <2> QED
    BY <2>2, <2>3, <2>4
<1>3. CASE ProcessorGet
  <2>1. /\ UNCHANGED <<cancel_queue, phase, born>> /\ pending_queue # <<>>
        /\ pending_queue' = Tail(pending_queue) /\ hand' = Head(pending_queue)
    BY <1>3 DEF ProcessorGet
  <2>2. Len(pending_queue') = Len(pending_queue) - 1
          /\ Head(pending_queue) \in 0 .. TotalSamples
    BY <1>0, <2>1, HeadTailProperties
  <2>3. ASSUME NEW i \in Ids, fed' - Len(pending_queue') < i
        PROVE  born'[i] = NotStarted
    <3>1. i \in Int
      BY DEF Ids
    <3>2. PICK l \in Nat : l = Len(pending_queue)
      BY <1>0
    <3>3. fed - (l - 1) < i
      BY <1>0, <2>2, <2>3, <3>2
    <3>4. fed - l < i
      BY <1>0, <3>1, <3>3
    <3> QED
      BY <1>1, <2>1, <3>2, <3>4
  <2>4. ASSUME hand' # Done
        PROVE  born'[hand'] \in {NotStarted, c}
    <3>1. hand' \in Ids
      BY <2>1, <2>2, <2>4, SizeAssumption DEF Ids, Done
    <3>2. fed - Len(pending_queue) < hand'
      BY <2>1, <2>4, HeadNotStarted
    <3> QED
      BY <1>1, <2>1, <3>1, <3>2
  <2> QED
    BY <1>0, <1>1, <2>1, <2>3, <2>4
<1>4. CASE ProcessorSubmit
  <2>1. /\ UNCHANGED <<cancel_queue, pending_queue>> /\ hand' = Done
        /\ phase' = [phase EXCEPT ![hand] = "gen"]
        /\ born' = [born EXCEPT ![hand] = IF @ = NotStarted THEN c ELSE @]
        /\ pp = "submit"
    BY <1>4 DEF ProcessorSubmit, c
  <2>2. hand # Done
    BY <2>1 DEF HandInv, LoopPcs
  <2>3. hand \in Ids /\ hand <= fed - Len(pending_queue)
    BY <2>2, HandNotPending
  <2>4. born'[hand] = c
    BY <1>0, <1>1, <2>1, <2>2, <2>3
  <2>5. \A i \in Ids : i # hand => born'[i] = born[i] /\ phase'[i] = phase[i]
    BY <1>0, <2>1
  <2>6. phase'[hand] = "gen"
    BY <1>0, <2>1, <2>3
  <2>7. \A i \in Ids : fed' - Len(pending_queue') < i => born'[i] = NotStarted
    <3> SUFFICES ASSUME NEW i \in Ids, fed' - Len(pending_queue') < i
                 PROVE  born'[i] = NotStarted
      OBVIOUS
    <3>1. fed - Len(pending_queue) < i /\ i \in Int /\ hand \in Int
      BY <1>0, <2>1 DEF Ids
    <3>2. i # hand
      BY <1>0, <2>3, <3>1
    <3> QED
      BY <1>1, <2>5, <3>1, <3>2
  <2>8. \A i \in Ids : phase'[i] \in {"gen", "put"} => born'[i] = c
    BY <1>1, <2>4, <2>5
  <2>9. \A i \in Ids : phase'[i] = "put" => stamp'[i] = c
    BY <1>0, <1>1, <2>5, <2>6
  <2>10. \A k \in 1 .. Len(cancel_queue') : born'[cancel_queue'[k]] = c
    <3> SUFFICES ASSUME NEW k \in 1 .. Len(cancel_queue)
                 PROVE  born'[cancel_queue[k]] = c
      BY <2>1
    <3>1. cancel_queue[k] \in Ids /\ born[cancel_queue[k]] = c
      BY <1>0, <1>1
    <3> QED
      BY <2>4, <2>5, <3>1
  <2> QED
    BY <2>1, <2>7, <2>8, <2>9, <2>10
<1>5. CASE ~ProcessorCheck /\ ~ProcessorGet /\ ~ProcessorSubmit
  <2>1. UNCHANGED <<pending_queue, cancel_queue, phase, born, hand>>
    BY <1>5, ProcessorSteps
  <2> QED
    BY <1>0, <1>1, <2>1
<1> QED
  BY <1>2, <1>3, <1>4, <1>5

(* So do the tasks.                                                        *)
LEMMA TaskCurrent ==
  ASSUME TypeInv, CurrentTasks, Synchronous, ~final, NEW i \in Ids, Task(i)
  PROVE  CurrentTasks'
<1> DEFINE c == current_param_version
<1>0. /\ UNCHANGED <<pending_queue, fed, born, hand, current_param_version>>
      /\ phase \in [Ids -> Phases] /\ stamp \in [Ids -> Nat] /\ cancel_queue \in Seq(Ids)
  BY TaskFrame DEF TypeInv, TaskTypes, FeedTypes, flagVars, procVars
<1>1. /\ \A j \in Ids : fed - Len(pending_queue) < j => born[j] = NotStarted
      /\ \A j \in Ids : phase[j] \in {"gen", "put"} => born[j] = c
      /\ \A j \in Ids : phase[j] = "put" => stamp[j] = c
      /\ \A k \in 1 .. Len(cancel_queue) : born[cancel_queue[k]] = c
      /\ hand # Done => born[hand] \in {NotStarted, c}
  BY DEF CurrentTasks
<1>2. /\ \E x \in Phases \ {"gen"} : phase' = [phase EXCEPT ![i] = x]
      /\ phase'[i] \in {"gen", "put"} => phase[i] = "gen" /\ stamp' = [stamp EXCEPT ![i] = c]
      /\ UNCHANGED stamp \/ stamp' = [stamp EXCEPT ![i] = c]
      /\ \/ UNCHANGED cancel_queue
         \/ cancel_queue' = Append(cancel_queue, i) /\ phase[i] = "gen"
  BY <1>0 DEF Task, TaskGenerated, TaskPut, TaskDone, TaskCancelled, TaskRaises, Phases,
     sampleQueues
<1> HIDE DEF c
<1>3. \A j \in Ids : j # i => phase'[j] = phase[j] /\ stamp'[j] = stamp[j]
  BY <1>0, <1>2
<1>4. \A j \in Ids : phase'[j] \in {"gen", "put"} => born[j] = c
  BY <1>1, <1>2, <1>3
<1>5. \A j \in Ids : phase'[j] = "put" => stamp'[j] = c
  <2>1. phase'[i] = "put" => stamp'[i] = c
    BY <1>0, <1>2
  <2> QED
    BY <1>1, <1>3, <2>1
<1>6. \A k \in 1 .. Len(cancel_queue') : born[cancel_queue'[k]] = c
  <2>1. CASE UNCHANGED cancel_queue
    BY <1>1, <2>1
  <2>2. CASE cancel_queue' = Append(cancel_queue, i) /\ phase[i] = "gen"
    <3>1. /\ Len(cancel_queue) \in Nat /\ Len(cancel_queue') = Len(cancel_queue) + 1
          /\ \A k \in 1 .. Len(cancel_queue) : cancel_queue'[k] = cancel_queue[k]
          /\ cancel_queue'[Len(cancel_queue) + 1] = i
      BY <1>0, <2>2, AppendProperties
    <3>2. born[i] = c
      BY <1>1, <2>2
    <3>3. \A k \in 1 .. Len(cancel_queue') :
             k = Len(cancel_queue) + 1 \/ k \in 1 .. Len(cancel_queue)
      BY <3>1
    <3> QED
      BY <1>1, <3>1, <3>2, <3>3
  <2> QED
    BY <1>2, <2>1, <2>2
<1> QED
  BY <1>0, <1>1, <1>4, <1>5, <1>6 DEF CurrentTasks, c

(* Every step does.                                                        *)
LEMMA NextCurrentTasks ==
  ASSUME TypeInv, SyncInv, FinalInv, BatchInv, HandInv, SampleInv, SyncCount,
         CurrentTasks, [Next]_vars
  PROVE  CurrentTasks'
<1> SUFFICES ASSUME Synchronous', ~final'
             PROVE  CurrentTasks'
  BY DEF CurrentTasks
<1>0. Synchronous /\ ~final
  BY NextCases, FinalStays DEF Synchronous, Quota, vars
<1>1. CASE ~UNCHANGED current_param_version
  <2>1. /\ UNCHANGED <<fed, pending_queue, cancel_queue, hand, phase, born, stamp>>
        /\ Working = {} /\ cancel_queue = <<>> /\ hand = Done
    BY <1>0, <1>1, VersionChanges
  <2> QED
    BY <1>0, <2>1 DEF CurrentTasks, Working
<1>2. CASE UNCHANGED current_param_version
  <2>1. CASE UNCHANGED <<fed, pending_queue, cancel_queue, hand, phase, born, stamp>>
    BY <1>0, <1>2, <2>1 DEF CurrentTasks
  <2>2. CASE Feed
    <3>1. /\ fed' - Len(pending_queue') = fed - Len(pending_queue)
          /\ UNCHANGED <<cancel_queue, hand, phase, born, stamp>>
      BY <2>2, FeedPending, FeedFrame DEF SampleInv, taskVars, procVars
    <3> QED
      BY <1>0, <1>2, <3>1 DEF CurrentTasks
  <2>3. CASE Processor /\ UNCHANGED <<setup, trainerVars>>
    BY <1>0, <1>2, <2>3, ProcessorCurrent
  <2>4. CASE \E i \in Ids : Task(i)
    BY <1>0, <2>4, TaskCurrent
  <2>5. CASE Main \/ Monitor \/ Rpc \/ Trainer \/ ValidateTask \/ UNCHANGED vars
    BY <2>1, <2>5, MainFrame, MonitorFrame, RpcFrame, TrainerFrame
       DEF sampleQueues, taskVars, procVars, vars, rollouterVars
  <2> QED
    BY <2>2, <2>3, <2>4, <2>5, NextCases
<1> QED
  BY <1>1, <1>2

(* What is queued, taken and collected stays current.                      *)
LEMMA NextCurrentSamples ==
  ASSUME TypeInv, SyncInv, FinalInv, BatchInv, SyncCount, CurrentTasks, CurrentSamples,
         [Next]_vars
  PROVE  CurrentSamples'
<1> SUFFICES ASSUME Synchronous', ~final'
             PROVE  CurrentSamples'
  BY DEF CurrentSamples
<1>0. /\ Synchronous /\ ~final
      /\ batch \in Seq(Trainable) /\ queue \in Seq(SampleNat) /\ tp \in TrainerPcs
      /\ tp = "got" => mq_ret["trainer"] \in SampleNat
  BY NextCases, FinalStays DEF Synchronous, Quota, vars, TypeInv, TrainerTypes, QueueTypes
<1>1. CASE ~UNCHANGED current_param_version
  <2>1. /\ UNCHANGED <<queue, mq_ret, tp, batch>> /\ Queued = {} /\ batch = <<>>
        /\ ~(tp = "got" /\ mq_ret["trainer"].id # Done)
    BY <1>0, <1>1, VersionChanges
  <2>2. \A k \in 1 .. Len(queue) : queue[k].id = Done
    BY <2>1 DEF Queued
  <2> QED
    BY <1>0, <2>1, <2>2 DEF CurrentSamples
<1>2. CASE UNCHANGED current_param_version
  <2> DEFINE c == current_param_version
             cur(s) == s.version = c /\ s.born = c
  <2>1. /\ \A k \in 1 .. Len(queue) : queue[k].id # Done => cur(queue[k])
        /\ tp = "got" /\ mq_ret["trainer"].id # Done => cur(mq_ret["trainer"])
        /\ \A k \in 1 .. Len(batch) : cur(batch[k])
    BY <1>0 DEF CurrentSamples, IsCurrent
  <2>2. ASSUME NEW k \in 1 .. Len(queue'), queue'[k].id # Done
        PROVE  cur(queue'[k])
    <3>1. CASE \E j \in 1 .. Len(queue) : queue'[k] = queue[j]
      BY <2>1, <2>2, <3>1
    <3>2. CASE MainPutNone
      <4>1. PICK s : s = [id |-> Done, born |-> 0, version |-> current_param_version]
        OBVIOUS
      <4>2. MQ!PutSample(s) /\ s \in SampleNat /\ s.id = Done
        BY <3>2, <4>1, PutTypes DEF MainPutNone
      <4>3. queue'[k] # s
        BY <2>2, <4>2
      <4> QED
        BY <3>1, <4>2, <4>3, PutSampleMembers DEF TypeInv
    <3>3. CASE \E i \in Ids : TaskPut(i)
      <4>1. PICK i \in Ids : TaskPut(i)
        BY <3>3
      <4>2. PICK s : s = [id |-> i, born |-> born[i], version |-> stamp[i]]
        OBVIOUS
      <4>3. MQ!PutSample(s) /\ phase[i] = "put"
        BY <4>1, <4>2 DEF TaskPut
      <4>4. s \in SampleNat
        BY <4>2, <4>3, PutTypes
      <4>5. cur(s)
        BY <1>0, <4>2, <4>3 DEF CurrentTasks
      <4>6. CASE queue'[k] = s
        BY <4>5, <4>6
      <4> QED
        BY <3>1, <4>3, <4>4, <4>6, PutSampleMembers DEF TypeInv
    <3>4. CASE queue # <<>> /\ queue' = Tail(queue)
      <4>1. Len(queue') = Len(queue) - 1 /\ Len(queue) \in Nat
            /\ \A j \in 1 .. Len(queue') : queue'[j] = queue[j + 1]
        BY <1>0, <3>4, HeadTailProperties
      <4>2. k + 1 \in 1 .. Len(queue) /\ queue'[k] = queue[k + 1]
        BY <4>1
      <4> QED
        BY <3>1, <4>2
    <3>5. CASE UNCHANGED queue
      BY <3>1, <3>5
    <3> QED
      BY <3>2, <3>3, <3>4, <3>5, QueueSteps
  <2>3. ASSUME tp' = "got", mq_ret'["trainer"].id # Done
        PROVE  cur(mq_ret'["trainer"])
    <3>1. CASE TrainerGet
      <4>1. queue # <<>> /\ mq_ret' = [mq_ret EXCEPT !["trainer"] = Head(queue)]
        BY <2>3, <3>1, TrainerGetCases DEF TypeInv
      <4>2. Head(queue) = queue[1] /\ 1 \in 1 .. Len(queue)
        BY <1>0, <4>1, HeadTailProperties
      <4>3. mq_ret'["trainer"] = queue[1]
        BY <4>1, <4>2 DEF TypeInv, QueueTypes
      <4> QED
        BY <2>1, <2>3, <4>2, <4>3
    <3>2. CASE ~TrainerGet
      <4>1. tp = "got"
        <5>1. CASE Trainer \/ ValidateTask
          BY <1>0, <2>3, <3>2, <5>1, TrainerSteps
        <5>2. CASE UNCHANGED trainerVars
          BY <2>3, <5>2 DEF trainerVars
        <5> QED
          BY <5>1, <5>2, NextCases DEF vars, trainerVars
      <4>2. mq_ret' = mq_ret
        BY <3>2, ReturnSteps
      <4> QED
        BY <2>1, <2>3, <4>1, <4>2
    <3> QED
      BY <3>1, <3>2
  <2>4. ASSUME NEW k \in 1 .. Len(batch')
        PROVE  cur(batch'[k])
    <3>1. \/ /\ tp = "got" /\ mq_ret["trainer"].id # Done
             /\ batch' = Append(batch, mq_ret["trainer"])
          \/ batch' = <<>>
          \/ UNCHANGED batch
      <4>1. CASE Trainer \/ ValidateTask
        BY <1>0, <4>1, TrainerSteps
      <4>2. CASE UNCHANGED trainerVars
        BY <4>2 DEF trainerVars
      <4> QED
        BY <4>1, <4>2, NextCases DEF vars, trainerVars
    <3>2. CASE tp = "got" /\ mq_ret["trainer"].id # Done
                 /\ batch' = Append(batch, mq_ret["trainer"])
      <4>1. mq_ret["trainer"] \in Trainable
        BY <1>0, <3>2 DEF Trainable
      <4>2. /\ Len(batch) \in Nat /\ Len(batch') = Len(batch) + 1
            /\ \A j \in 1 .. Len(batch) : batch'[j] = batch[j]
            /\ batch'[Len(batch) + 1] = mq_ret["trainer"]
        BY <1>0, <3>2, <4>1, AppendProperties
      <4>3. CASE k = Len(batch) + 1
        BY <2>1, <3>2, <4>2, <4>3
      <4>4. CASE k # Len(batch) + 1
        <5>1. k \in 1 .. Len(batch)
          BY <4>2, <4>4
        <5> QED
          BY <2>1, <4>2, <5>1
      <4> QED
        BY <4>3, <4>4
    <3>3. CASE batch' = <<>>
      BY <3>3
    <3>4. CASE UNCHANGED batch
      BY <2>1, <3>4
    <3> QED
      BY <3>1, <3>2, <3>3, <3>4
  <2> QED
    BY <1>2, <2>2, <2>3, <2>4 DEF CurrentSamples, IsCurrent
<1> QED
  BY <1>1, <1>2

(* At first the trainer waits and the counts are zero.                     *)
LEMMA InitSynchronous ==
  PipelineInit => NoneInv /\ SyncCount /\ IdleInv /\ CurrentTasks /\ CurrentSamples
<1> SUFFICES ASSUME PipelineInit
             PROVE  NoneInv /\ SyncCount /\ IdleInv /\ CurrentTasks /\ CurrentSamples
  OBVIOUS
<1>1. /\ rp = "idle" /\ pp = "check" /\ hand = Done /\ staleness_samples = 0
      /\ queue = <<>> /\ cancel_queue = <<>> /\ phase = [i \in Ids |-> "none"]
      /\ born = [i \in Ids |-> NotStarted] /\ tp = "start" /\ local_trigger_step = 1
      /\ batch = <<>> /\ mainp = "stream" /\ final = FALSE
  BY DEF PipelineInit, Init
<1>2. NoneInv
  BY <1>1 DEF NoneInv
<1>3. IdleInv
  BY <1>1 DEF IdleInv, IdlePcs
<1>4. CurrentTasks /\ CurrentSamples
  BY <1>1 DEF CurrentTasks, CurrentSamples
<1>5. Planned = 0
  <2>1. Working = {} /\ Queued = {} /\ Len(cancel_queue) = 0 /\ Held = 0
    BY <1>1 DEF Working, Queued, Held
  <2> QED
    BY <2>1, FS_EmptySet, PlannedIsSum
<1>6. Consumed = 0
  <2>1. setup \in Setups
    BY DEF PipelineInit, Init
  <2>2. Len(batch) = 0 /\ setup.required_samples \in Nat
    BY <1>1, <2>1, SetupTypes
  <2>3. StepDone = 0
    BY <1>1, <2>2 DEF StepDone
  <2> QED
    BY <1>1, <2>3 DEF Consumed, Counted
<1>7. SyncCount
  BY <1>1, <1>5, <1>6, SizeAssumption DEF SyncCount, Window
<1> QED
  BY <1>2, <1>3, <1>4, <1>7

(* Staleness 0 is synchronous training: every sample of a batch that is    *)
(* trained on was begun, ended and queued under the weights it is trained  *)
(* with, and nothing is generated during a broadcast, although pauses,     *)
(* the monitor and the staleness count are those of the asynchronous mode. *)
THEOREM SynchronousIsOnPolicy == Spec => []OnPolicyWhenSynchronous
<1> DEFINE Inv == /\ TypeInv /\ SyncInv /\ FinalInv /\ BatchInv /\ LockInv /\ HandInv
                  /\ SampleInv /\ NoneInv /\ SyncCount /\ IdleInv
                  /\ CurrentTasks /\ CurrentSamples
<1>1. Inv => OnPolicyWhenSynchronous
  <2> SUFFICES ASSUME Inv, Synchronous
               PROVE  /\ ~final => \A k \in 1 .. Len(batch) :
                                      batch[k].version = version /\ batch[k].born = version
                      /\ QuietBroadcast
    BY DEF OnPolicyWhenSynchronous, Synchronous, Quota
  <2>1. ASSUME ~final, NEW k \in 1 .. Len(batch)
        PROVE  batch[k].version = version /\ batch[k].born = version
    <3>0. batch # <<>>
      OBVIOUS
    <3>1. tp \in {"get", "got", "train"}
      BY <2>1, <3>0 DEF BatchInv, FinalInv, TypeInv, TrainerTypes, TrainerPcs
    <3>2. version = mq_version
      BY <3>1 DEF SyncInv, VersionDistance
    <3>3. ~Window
      <4>1. Consumed \in Nat /\ Planned \in Nat
        BY <2>1, AheadNow
      <4>2. Window => Consumed + Planned = 0
        BY <2>1 DEF SyncCount
      <4>3. Consumed + Planned = 0 => Consumed = 0
        BY <4>1
      <4> QED
        BY <2>1, <3>0, <4>2, <4>3, NothingTaken
    <3>4. mq_version = current_param_version
      BY <3>3 DEF Window, SyncInv, VersionDistance
    <3> QED
      BY <2>1, <3>2, <3>4 DEF CurrentSamples, IsCurrent
  <2>2. QuietBroadcast
    <3>1. tp = "broadcast" => Unfinished = {}
      BY DEF SyncInv, HandShake, IdleInv, IdlePcs
    <3> QED
      BY <3>1 DEF QuietBroadcast, Unfinished
  <2> QED
    BY <2>1, <2>2
<1>2. PipelineInit => Inv
  BY InitTypes, InitSync, InitFresh, InitBound, InitSamples, InitSynchronous DEF FreshInv
<1>3. Inv /\ [Next]_vars => Inv'
  <2> SUFFICES ASSUME Inv, [Next]_vars
               PROVE  Inv'
    OBVIOUS
  <2>1. TypeInv' /\ SyncInv' /\ FinalInv' /\ BatchInv' /\ LockInv' /\ HandInv' /\ SampleInv'
    BY NextTypes, NextSync, NextFinal, NextBatch, NextLock, NextHand, NextSamples
  <2>2. NoneInv' /\ SyncCount' /\ IdleInv'
    BY NextNone, NextSyncCount, NextIdle
  <2>3. CurrentTasks' /\ CurrentSamples'
    BY NextCurrentTasks, NextCurrentSamples
  <2> QED
    BY <2>1, <2>2, <2>3
<1> QED
  BY <1>1, <1>2, <1>3, PTL DEF Spec
=============================================================================
