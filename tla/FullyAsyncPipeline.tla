------------------------- MODULE FullyAsyncPipeline -------------------------
(***************************************************************************)
(* The whole streaming pipeline: the rollouter, the message queue, and the *)
(* trainer's fit loop (fully_async_trainer.py) with the parameter          *)
(* synchronizer (param_sync.py), whose calls block the trainer.            *)
(*                                                                         *)
(* The behaviour starts after main's first synchronization of version 0.   *)
(***************************************************************************)
EXTENDS FullyAsyncRollouter

\* A configuration has, besides the rollouter's: required_samples of one training
\* step, trigger_steps (trigger_parameter_sync_step), test_freq (rollout.test_freq)
\* and use_trainer_do_validate.
ASSUME TrainerAssumption ==
  \A s \in Setups :
    /\ {s.required_samples, s.trigger_steps, s.test_freq} \subseteq Nat \ {0}
    /\ s.use_trainer_do_validate \in BOOLEAN
    /\ MaxRequired >= s.required_samples * s.trigger_steps
    /\ MaxVersion >= (TotalSamples \div (s.required_samples * s.trigger_steps)) + 1

VARIABLES
  tp,                  \* trainer's program counter
  version,             \* trainer's current_param_version
  local_trigger_step,
  batch,               \* samples collected for the next training step
  validate_task,       \* trainer._validate_process.remote() of the last sync
  final,               \* the loop has ended
  trained,             \* history: samples that entered a training step
  logged               \* history: versions whose validation data was logged

trainerVars == <<tp, version, local_trigger_step, batch, validate_task, final,
                 trained, logged>>
vars == <<setup, rollouterVars, trainerVars>>

PipelineInit ==
  /\ Init
  /\ tp = "start" /\ version = 0 /\ local_trigger_step = 1
  /\ batch = <<>> /\ validate_task = "none" /\ final = FALSE
  /\ trained = {} /\ logged = {}

RollouterUnchanged ==
  UNCHANGED <<lockVars, flagVars, sampleQueues, countVars, taskVars, procVars, mp,
              mainp>>
-----------------------------------------------------------------------------
(* _get_samples_from_queue *)

(* get_sample_sync(): the blocking call is made, or goes on after a wait.  *)
TrainerGet ==
  /\ tp = "get"
  /\ MQ!GetSample("trainer") \/ MQ!GetSampleResumed("trainer")
  /\ tp' = IF mq_call'["trainer"] = "idle" THEN "got" ELSE "get"
  /\ UNCHANGED <<version, local_trigger_step, batch, validate_task, final, trained,
                 logged, rpcVars>>
  /\ RollouterUnchanged

(* A sample joins the batch; None ends the collection and, the batch being *)
(* incomplete, the training loop.                                          *)
TrainerGot ==
  LET s == mq_ret["trainer"] IN
  /\ tp = "got"
  /\ \/ /\ s.id # Done
        /\ batch' = Append(batch, s)
        /\ tp' = IF Len(batch) + 1 = setup.required_samples THEN "train" ELSE "get"
        /\ UNCHANGED final
     \/ /\ s.id = Done
        /\ tp' = "final wait"
        /\ final' = TRUE
        /\ UNCHANGED batch
  /\ UNCHANGED <<version, local_trigger_step, validate_task, trained, logged,
                 rpcVars, mqVars>>
  /\ RollouterUnchanged
-----------------------------------------------------------------------------
(* Mutant: the step counter is not reset when a version is published.      *)
TrainerStepWithoutReset ==
  /\ tp = "train"
  /\ batch' = <<>>
  /\ trained' = trained \cup {batch[k].id : k \in 1 .. Len(batch)}
  /\ local_trigger_step' = local_trigger_step + 1
  /\ IF local_trigger_step < setup.trigger_steps
     THEN tp' = "log" /\ UNCHANGED version
     ELSE tp' = "wait last" /\ version' = version + 1
  /\ UNCHANGED <<validate_task, final, logged, rpcVars, mqVars>>
  /\ RollouterUnchanged

(* One training step, then _trigger_parameter_sync_after_step: count, or   *)
(* publish a new version.                                                  *)
TrainerStep ==
  /\ tp = "train"
  /\ batch' = <<>>
  /\ trained' = trained \cup {batch[k].id : k \in 1 .. Len(batch)}
  /\ IF local_trigger_step < setup.trigger_steps
     THEN /\ local_trigger_step' = local_trigger_step + 1
          /\ tp' = "log"
          /\ UNCHANGED version
     ELSE /\ version' = version + 1
          /\ local_trigger_step' = 1
          /\ tp' = "wait last"
  /\ UNCHANGED <<validate_task, final, logged, rpcVars, mqVars>>
  /\ RollouterUnchanged

(* Mutant: only the trainer's validation is waited for.                    *)
LastSyncOverTooEarly == validate_task # "pending" /\ rp # "pause"

(* wait_last_valid(): update, resume and validation of the last            *)
(* synchronization have returned.                                          *)
LastSyncOver == rp = "idle" /\ validate_task # "pending"

(* sync_weights(): first pause() ...                                       *)
StartSync ==
  /\ tp = "wait last"
  /\ LastSyncOver
  /\ rp' = "pause"
  /\ tp' = "pause"
  /\ UNCHANGED <<version, local_trigger_step, batch, validate_task, final, trained,
                 logged, rpc_version, rpc_size, server_paused, mqVars>>
  /\ RollouterUnchanged

(* ... when it has returned the queue gets the version and the weights are *)
(* broadcast ...                                                           *)
Broadcast ==
  /\ tp = "pause"
  /\ rp = "paused"
  /\ MQ!UpdateParamVersion(version)
  /\ tp' = "broadcast"
  /\ UNCHANGED <<version, local_trigger_step, batch, validate_task, final, trained,
                 logged, rpcVars>>
  /\ RollouterUnchanged

(* ... then update, resume and, if asked for, the trainer's own validation *)
(* are started and not waited for.  The trainer itself validates every     *)
(* test_freq versions.                                                     *)
EndSync ==
  /\ tp = "broadcast"
  /\ rp' = "update"
  /\ rpc_version' = version
  /\ validate_task' = IF final /\ setup.use_trainer_do_validate THEN "pending" ELSE "none"
  /\ tp' = IF setup.use_trainer_do_validate /\ version % setup.test_freq = 0 THEN "validate"
           ELSE IF final THEN "end wait" ELSE "log"
  /\ UNCHANGED <<version, local_trigger_step, batch, final, trained, logged,
                 rpc_size, server_paused, mqVars>>
  /\ RollouterUnchanged

(* await self._validate_process() in the fit coroutine.                    *)
TrainerValidated ==
  /\ tp = "validate"
  /\ tp' = IF final THEN "end wait" ELSE "log"
  /\ UNCHANGED <<version, local_trigger_step, batch, validate_task, final, trained,
                 logged, rpcVars, mqVars>>
  /\ RollouterUnchanged

(* The trainer actor's event loop runs the validation task only while the  *)
(* fit coroutine awaits: every ray.get in it blocks the loop.              *)
ValidateTask ==
  /\ validate_task = "pending"
  /\ tp \in {"validate", "end"}
  /\ validate_task' = "done"
  /\ UNCHANGED <<tp, version, local_trigger_step, batch, final, trained, logged,
                 rpcVars, mqVars>>
  /\ RollouterUnchanged

(* Mutant: nothing is logged before the loop has ended.                    *)
LogValidationDataAtEnd ==
  IF mq_val = <<>> \/ ~final
  THEN UNCHANGED <<logged, mqVars>>
  ELSE logged' = logged \cup {Head(mq_val)} /\ MQ!GetValidate

(* _log_validation_data: at most one entry of the validation queue.        *)
LogValidationData ==
  IF mq_val = <<>>
  THEN UNCHANGED <<logged, mqVars>>
  ELSE logged' = logged \cup {Head(mq_val)} /\ MQ!GetValidate

AfterLog == [start |-> "get", log |-> "get"]

TrainerLog ==
  /\ tp \in DOMAIN AfterLog
  /\ LogValidationData
  /\ tp' = AfterLog[tp]
  /\ UNCHANGED <<version, local_trigger_step, batch, validate_task, final, trained,
                 rpcVars>>
  /\ RollouterUnchanged

(* After the loop: wait, log, and synchronize once more if training went   *)
(* on since the last validated version.                                    *)
FinalWait ==
  /\ tp = "final wait"
  /\ LastSyncOver
  /\ LogValidationData
  /\ IF version % setup.test_freq # 0 \/ local_trigger_step > 1
     THEN /\ version' = version + 1
          /\ local_trigger_step' = 1
          /\ tp' = "wait last"
     ELSE /\ tp' = "end"
          /\ UNCHANGED <<version, local_trigger_step>>
  /\ UNCHANGED <<batch, validate_task, final, trained, rpcVars>>
  /\ RollouterUnchanged

EndWait ==
  /\ tp = "end wait"
  /\ LastSyncOver
  /\ LogValidationData
  /\ tp' = "end"
  /\ UNCHANGED <<version, local_trigger_step, batch, validate_task, final, trained,
                 rpcVars>>
  /\ RollouterUnchanged

Trainer ==
  \/ TrainerGet \/ TrainerGot \/ TrainerStep \/ StartSync \/ Broadcast \/ EndSync
  \/ TrainerValidated \/ TrainerLog \/ FinalWait \/ EndWait

(* Both fit() calls have returned: nothing happens any more.               *)
Terminated ==
  /\ tp = "end" /\ mainp = "stopped" /\ mp = "ended" /\ rp = "idle"
  /\ validate_task # "pending"
  /\ UNCHANGED vars

Next ==
  \/ /\ \/ RollouterNext /\ UNCHANGED trainerVars
        \/ Trainer
        \/ ValidateTask
     /\ UNCHANGED setup
  \/ Terminated

(* The event loop serves its ready coroutines in FIFO order and the        *)
(* monitor sleeps between its turns, so neither the monitor nor the        *)
(* rollouter's tasks can keep the rest from going on; every remote call is *)
(* served and every generation ends.  Nothing is obliged to fail.          *)
Work ==
  /\ \/ /\ Feed \/ Processor \/ Main \/ \E i \in Ids : Task(i)
        /\ UNCHANGED trainerVars
     \/ Trainer
     \/ ValidateTask
  /\ UNCHANGED setup

Fairness ==
  /\ SF_vars(Work)
  /\ SF_vars(Rpc /\ UNCHANGED <<setup, trainerVars>>)
  /\ SF_vars(Monitor /\ UNCHANGED <<setup, trainerVars>>)

Spec == PipelineInit /\ [][Next]_vars /\ Fairness
-----------------------------------------------------------------------------
(* Types and ranges of the pipeline's state.                               *)
TypeOK ==
  /\ lock \in Coroutines \cup {Nobody}
  /\ turn \in Coroutines \cup {Nobody}
  /\ waiters \in Seq(Coroutines)
  /\ current_param_version \in Versions /\ version \in Versions
  /\ staleness_samples \in Nat
  /\ paused \in BOOLEAN /\ running \in BOOLEAN /\ monitor_loop_trigger \in BOOLEAN
  /\ pending_queue \in Seq(Ids \cup {Done}) /\ Len(pending_queue) <= setup.pending_capacity
  /\ cancel_queue \in Seq(Ids)
  /\ phase \in [Ids -> {"none", "gen", "put", "sent", "sent, full"}]
  /\ finished \in Nat /\ raised \subseteq Ids /\ hand \in Ids \cup {Done}
  /\ batch \in Seq(Sample) /\ trained \subseteq Ids
  /\ local_trigger_step \in 1 .. setup.trigger_steps

(* Where sample i is, as a set of places.                                  *)
In(i, seq) == \E k \in 1 .. Len(seq) : seq[k] = i
InSamples(i, seq) == \E k \in 1 .. Len(seq) : seq[k].id = i
Places(i) ==
  {p \in {"pending", "cancelled", "hand", "task", "queue", "got", "batch", "trained"} :
     \/ p = "pending" /\ In(i, pending_queue)
     \/ p = "cancelled" /\ In(i, cancel_queue)
     \/ p = "hand" /\ hand = i
     \/ p = "task" /\ phase[i] \in {"gen", "put"}
     \/ p = "queue" /\ InSamples(i, queue)
     \/ p = "got" /\ tp = "got" /\ mq_ret["trainer"].id = i
     \/ p = "batch" /\ InSamples(i, batch)
     \/ p = "trained" /\ i \in trained}

(* Exactly-once: through pauses, interruptions and resumptions a sample    *)
(* that was fed is never in two places at a time, so it is generated and   *)
(* trained on at most once; and it leaves the pipeline only by being       *)
(* trained on, dropped by the full queue, or by the exception of its own   *)
(* generation.                                                             *)
NoSampleTwice == \A i \in Ids : Cardinality(Places(i)) <= 1
SamplesAccounted ==
  /\ NoSampleTwice
  /\ Cardinality({i \in Ids : i <= fed /\ Places(i) = {}}) <= mq_dropped + failures

(* What is generated or being generated and not yet collected, including   *)
(* the interrupted samples, and the sample in the processor's hand.        *)
InFlight ==
  Cardinality({i \in Ids : phase[i] \in {"gen", "put"}}) + Len(cancel_queue)
    + Cardinality({k \in 1 .. Len(queue) : queue[k].id # Done})
Planned == InFlight + (IF hand = Done THEN 0 ELSE 1)

(* staleness_samples does its job up to one sample: whatever the timing of *)
(* pauses, resets and the monitor, at most max_required_samples + 1        *)
(* samples are ahead of the trainer.  The one too many is the sample the   *)
(* processor had taken when update_param_version recomputed the count.     *)
InFlightBounded == Planned <= MaxRequired + 1

(* A synchronization starts only when the previous one is over, so outside *)
(* of the wait for it the rollouter's version is the trainer's or the one  *)
(* before; the queue actor's lies between, and no sample carries a version *)
(* that the rollouter has not got.                                         *)
VersionsInStep ==
  /\ current_param_version <= mq_version
  /\ mq_version <= version
  /\ version <= current_param_version + (IF tp = "wait last" THEN 2 ELSE 1)
  /\ \A k \in 1 .. Len(queue) : queue[k].version <= current_param_version

(* Freshness control: when a sample is put its stamp is at most one        *)
(* version behind the queue actor's; when it is trained on it is at most   *)
(* VersionLag behind the trainer: that one, the version being trained when *)
(* it was put, and those for which max_required_samples - 1 samples may    *)
(* have been queued before it.                                             *)
VersionLag ==
  2 + ((MaxRequired - 1) \div (setup.required_samples * setup.trigger_steps))
TrainedSamplesFresh ==
  /\ \A i \in Ids : phase[i] = "put" => mq_version - stamp[i] <= 1
  /\ ~final => \A k \in 1 .. Len(batch) : version - batch[k].version <= VersionLag

(* The trainer logs validation results with a lag of at most one version,   *)
(* so the validation queue never holds more than two entries, and all are  *)
(* logged when fit() returns.                                              *)
ValidationLag == Len(mq_val) <= 2 /\ \A k \in 1 .. Len(mq_val) : mq_val[k] >= version - 1
ValidationLogged == ValidationLag /\ (tp = "end" => logged = 0 .. version)

(* While weights are broadcast into the rollout servers nothing is being   *)
(* generated.                                                              *)
QuietBroadcast == tp = "broadcast" => \A i \in Ids : phase[i] # "gen"

(* staleness_threshold = 0 is synchronous: every sample that is trained on *)
(* is generated from its first to its last token with the trainer's        *)
(* current weights, and the broadcast is quiet: the pause that the monitor *)
(* undoes at the wrong time is entered again before a sample is submitted. *)
(* The incomplete batch left when the loop ends is not trained on.         *)
OnPolicyWhenSynchronous ==
  MaxRequired = setup.required_samples * setup.trigger_steps =>
    /\ ~final => \A k \in 1 .. Len(batch) :
                   batch[k].version = version /\ batch[k].born = version
    /\ QuietBroadcast

(* fit() of trainer and rollouter both return.                             *)
Termination == <>(tp = "end" /\ mainp = "stopped" /\ mp = "ended")

(* The rollouter's does whatever becomes of the trainer's last validation: *)
(* every pause is answered, every waiting coroutine is woken.  The         *)
(* trainer's does unless its own validation is asked for.                  *)
FitsReturn ==
  <>(mainp = "stopped" /\ mp = "ended" /\ (tp = "end" \/ setup.use_trainer_do_validate))

(* An interrupted sample is generated on after the synchronization.        *)
InterruptedSamplesContinue ==
  \A i \in Ids : In(i, cancel_queue) ~> phase[i] = "gen"
=============================================================================
