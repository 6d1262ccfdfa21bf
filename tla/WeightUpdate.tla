---------------------------- MODULE WeightUpdate ----------------------------
(***************************************************************************)
(* A parameter synchronization from the rollouter's pause to its resume:   *)
(* FullyAsyncRollouter.pause and resume, ParameterSynchronizer.sync_weights*)
(* and FullyAsyncAgentLoopManager (fully_async_policy), over the           *)
(* generations of PartialGeneration and the transfer of BucketTransfer.    *)
(* Concurrent remote calls take effect in any order.  The rollouter's lock *)
(* is held by pause() while rp is "pausing" and by resume() while it is    *)
(* "resuming"; that the processor also pauses itself when it is too far    *)
(* ahead is left to FullyAsyncRollouter.                                   *)
(***************************************************************************)
EXTENDS PartialGeneration

CONSTANTS
  Setups,        \* the combinations of options considered
  MaxIntruders   \* bound: tasks made while a synchronization is under way

ASSUME SetupAssumption ==
  Setups \subseteq [mode : Modes, partial_rollout : BOOLEAN, kind : Kinds,
                    response_length : ResponseLengths, weights_info : WeightsInfos]

ASSUME IntruderAssumption == MaxIntruders \in [Setups -> Nat]

VARIABLES
  partial_rollout,  \* the option: running generations are interrupted
  rp,               \* where pause, sync_weights and resume are
  calls,            \* cancel or resume calls not served yet
  current_param_version,  \* of the rollouter
  sample,           \* queued, created (its task), running or finished
  worker_index,     \* _worker_index of the manager
  paused,           \* of the rollouter: its processor makes no task
  unpausing,        \* the monitor has decided to clear paused, and wants the lock
  intruders         \* history: tasks made between a pause() and its resume()

pauseVars == <<paused, unpausing, intruders>>
updateVars == <<partial_rollout, rp, calls, current_param_version, sample, worker_index,
                pauseVars>>
vars == <<transferVars, generationVars, updateVars>>

Options ==
  [mode |-> mode, partial_rollout |-> partial_rollout, kind |-> kind,
   response_length |-> response_length, weights_info |-> weights_info]

Init ==
  /\ TransferInit
  /\ GenerationInit
  /\ partial_rollout \in BOOLEAN
  /\ Options \in Setups
  /\ rp = "running"
  /\ calls = {}
  /\ current_param_version = 0
  /\ sample = "queued"
  /\ worker_index = 1
  /\ paused = FALSE /\ unpausing = FALSE /\ intruders = 0

-----------------------------------------------------------------------------
(* _processor_worker makes a task for the sample, holding the lock, unless *)
(* the rollouter is paused.                                                *)
CreateTask ==
  /\ sample = "queued" /\ ~paused /\ rp # "resuming"
  /\ rp # "running" => intruders < MaxIntruders[Options]
  /\ sample' = "created"
  /\ intruders' = IF rp = "running" THEN intruders ELSE intruders + 1
  /\ UNCHANGED <<transferVars, generationVars, partial_rollout, rp, calls,
                 current_param_version, worker_index, paused, unpausing>>

(* The task runs: generate_single_sample_async sends the sample, with what *)
(* it has so far, to the next worker.                                      *)
SubmitSample ==
  /\ sample = "created"
  /\ sample' = "running"
  /\ StartRuns(Workers[worker_index], current_param_version)
  /\ worker_index' = (worker_index % Len(Workers)) + 1
  /\ UNCHANGED <<transferVars, partial_rollout, rp, calls, current_param_version,
                 pauseVars>>

(* All generations have returned: gather.  One that was interrupted sends  *)
(* the sample to cancel_queue, otherwise it goes to the message queue.     *)
SampleReturns ==
  /\ sample = "running"
  /\ \A g \in Gens : gpc[g] \in {"waiting", "completed"}
  /\ sample' = IF \E g \in Gens : gpc[g] = "waiting" THEN "queued" ELSE "finished"
  /\ UNCHANGED <<transferVars, generationVars, partial_rollout, rp, calls,
                 current_param_version, worker_index, pauseVars>>

(* _async_monitor_loop finds the queue short enough while pause() holds the*)
(* lock: monitor_loop_trigger is cleared only at its end.  At other times  *)
(* there is no trigger, or paused is clear already.                        *)
MonitorDecides ==
  /\ rp = "pausing" /\ ~unpausing /\ intruders < MaxIntruders[Options]
  /\ unpausing' = TRUE
  /\ UNCHANGED <<transferVars, generationVars, partial_rollout, rp, calls,
                 current_param_version, sample, worker_index, paused, intruders>>

(* It gets the lock and clears paused, whatever has happened meanwhile.    *)
MonitorUnpauses ==
  /\ unpausing /\ rp # "pausing"
  /\ paused' = FALSE
  /\ unpausing' = FALSE
  /\ UNCHANGED <<transferVars, generationVars, partial_rollout, rp, calls,
                 current_param_version, sample, worker_index, intruders>>

(* pause(): with partial rollout the manager cancels every worker and      *)
(* server; in any case the active tasks are waited for.                    *)
PauseBegins ==
  /\ rp = "running" /\ actor_version < MaxVersion
  /\ rp' = "pausing"
  /\ paused' = TRUE
  /\ calls' = IF partial_rollout THEN Servers \cup WorkerSet ELSE {}
  /\ UNCHANGED <<transferVars, generationVars, partial_rollout,
                 current_param_version, sample, worker_index, unpausing, intruders>>

ServeCancel(x) ==
  /\ rp = "pausing" /\ x \in calls
  /\ IF x \in Servers THEN CancelServer(x) ELSE CancelAgentLoops(x)
  /\ calls' = calls \ {x}
  /\ UNCHANGED <<transferVars, partial_rollout, rp, current_param_version,
                 sample, worker_index, pauseVars>>

(* Mutant: pause() does not wait for the active tasks.                     *)
PauseEndsEarly ==
  /\ rp = "pausing" /\ calls = {}
  /\ rp' = "paused"
  /\ UNCHANGED <<transferVars, generationVars, partial_rollout, calls,
                 current_param_version, sample, worker_index, pauseVars>>

PauseEnds ==
  /\ rp = "pausing" /\ calls = {}
  /\ sample \notin {"created", "running"}
  /\ rp' = "paused"
  /\ UNCHANGED <<transferVars, generationVars, partial_rollout, calls,
                 current_param_version, sample, worker_index, pauseVars>>

(* sync_weights: the ranks are called, and the rollout ranks waited for.   *)
(* The actor group's previous call is over by then, or queues behind.      *)
SyncWeights ==
  /\ rp = "paused"
  /\ StartTransfer
  /\ rp' = "transfer"
  /\ UNCHANGED <<generationVars, partial_rollout, calls, current_param_version,
                 sample, worker_index, pauseVars>>

Transfer == TransferStep /\ UNCHANGED <<generationVars, updateVars>>

(* update_param_version, after the rollout ranks have returned; the lock is*)
(* given in the order it was asked for, to the monitor first.              *)
UpdateParamVersion ==
  /\ rp = "transfer" /\ ~unpausing
  /\ \A r \in RolloutRanks : tp[r] = "idle"
  /\ current_param_version' = actor_version
  /\ rp' = "updated"
  /\ UNCHANGED <<transferVars, generationVars, partial_rollout, calls, sample,
                 worker_index, pauseVars>>

(* resume(wait_last_update).                                               *)
ResumeBegins ==
  /\ rp = "updated"
  /\ rp' = "resuming"
  /\ calls' = IF partial_rollout THEN Servers \cup WorkerSet ELSE {}
  /\ UNCHANGED <<transferVars, generationVars, partial_rollout,
                 current_param_version, sample, worker_index, pauseVars>>

(* Mutant: the workers' events are not cleared.                            *)
ServeResumeServersOnly(x) ==
  /\ rp = "resuming" /\ x \in calls
  /\ IF x \in Servers THEN ResumeServer(x) ELSE UNCHANGED generationVars
  /\ calls' = calls \ {x}
  /\ UNCHANGED <<transferVars, partial_rollout, rp, current_param_version,
                 sample, worker_index, pauseVars>>

ServeResume(x) ==
  /\ rp = "resuming" /\ x \in calls
  /\ IF x \in Servers THEN ResumeServer(x) ELSE ResumeAgentLoops(x)
  /\ calls' = calls \ {x}
  /\ UNCHANGED <<transferVars, partial_rollout, rp, current_param_version,
                 sample, worker_index, pauseVars>>

ResumeEnds ==
  /\ rp = "resuming" /\ calls = {}
  /\ rp' = "running"
  /\ paused' = FALSE
  /\ UNCHANGED <<transferVars, generationVars, partial_rollout, calls,
                 current_param_version, sample, worker_index, unpausing, intruders>>

Generation(g) == GenerationStep(g) /\ UNCHANGED <<transferVars, updateVars>>

Processor == CreateTask \/ SubmitSample \/ SampleReturns

Synchronizer ==
  \/ PauseEnds \/ SyncWeights \/ UpdateParamVersion \/ ResumeBegins \/ ResumeEnds
  \/ \E x \in Servers \cup WorkerSet : ServeCancel(x) \/ ServeResume(x)

Done ==
  /\ sample = "finished" /\ rp = "running" /\ actor_version = MaxVersion
  /\ UNCHANGED vars

Next ==
  \/ PauseBegins
  \/ Processor
  \/ Synchronizer
  \/ MonitorDecides
  \/ MonitorUnpauses
  \/ Transfer
  \/ \E g \in Gens : Generation(g)
  \/ Done

(* The event loops run what is ready, Ray serves every call, a collective  *)
(* call that all ranks have entered ends, and so does every generation,    *)
(* tool call and reward.  Nobody is obliged to update the weights, and the *)
(* monitor, which sleeps most of the time, decides when it likes.          *)
Fairness ==
  /\ WF_vars(Processor)
  /\ WF_vars(Synchronizer)
  /\ WF_vars(MonitorUnpauses)
  /\ WF_vars(Transfer)
  /\ \A g \in Gens : WF_vars(Generation(g))

Spec == Init /\ [][Next]_vars /\ Fairness

-----------------------------------------------------------------------------
TypeOK ==
  /\ TransferTypeOK
  /\ gpc \in [Gens -> {"waiting", "loop", "called", "running", "answered",
                       "tools", "scoring", "completed"}]
  /\ state \in [Gens -> {"PENDING", "GENERATING", "PROCESSING_TOOLS", "TERMINATED"}]
  /\ \A g \in Gens :
       /\ ids[g] \in Seq([pos : 1 .. Len(Plan), versions : SUBSET (0 .. MaxVersion)])
       /\ mask[g] \in Seq({0, 1})
       /\ request[g].server \in Servers \cup {NoServer}
       /\ reply[g].is_cancel \in BOOLEAN
  /\ param_version_end \in [Gens -> -1 .. MaxVersion]
  /\ cancellation_event \in [WorkerSet -> BOOLEAN]
  /\ server_paused \in [Servers -> BOOLEAN]
  /\ calls \subseteq Servers \cup WorkerSet
  /\ current_param_version \in 0 .. MaxVersion
  /\ sample \in {"queued", "created", "running", "finished"}
  /\ rp \in {"running", "pausing", "paused", "transfer", "updated", "resuming"}
  /\ paused \in BOOLEAN /\ unpausing \in BOOLEAN
  /\ intruders \in 0 .. MaxIntruders[Options]

(* Every token was computed with the weights of one version, never with a  *)
(* mixture of two, also when the monitor lets a task in while the weights  *)
(* are being loaded.  Unless it has, that version lies within              *)
(* param_version_start and param_version_end recorded with the output: such*)
(* a task is stamped before update_param_version and may be computed with  *)
(* the new weights (sync_weights, pause, generate_for_partial).            *)
TokensOfRecordedVersions ==
  \A g \in Gens : \A k \in DOMAIN ids[g] :
    LET t == ids[g][k] IN
    t.versions # {} =>
      /\ \E v \in 0 .. MaxVersion : t.versions = {v}
      /\ intruders = 0 =>
           \E v \in param_version_start[g] .. param_version_end[g] : t.versions = {v}

(* However often and wherever a generation is interrupted, what it has is  *)
(* the beginning of what an uninterrupted one would say: each token once   *)
(* and in order, its log-probability beside it, and the mask telling the   *)
(* tool's tokens from the model's.  A completed one is whole, or full,     *)
(* unless a tool call was cut: that call is never executed                 *)
(* (PartialSingleTurnAgentLoop.run, _handle_generating_state_partial).     *)
ResumesWhereItStopped ==
  \A g \in Gens :
    LET n == Len(ids[g]) IN
    /\ Len(mask[g]) = n /\ Len(logprobs[g]) = n
    /\ \A k \in 1 .. n : /\ ids[g][k].pos = k /\ logprobs[g][k] = k
                         /\ mask[g][k] = IF Plan[k] = "tool" THEN 0 ELSE 1
    /\ gpc[g] = "completed" /\ ~split[g] =>
         \/ n = Len(Plan) \/ n = response_length
         \/ n + Len(ToolResponse(n)) >= response_length

(* The sample is finished and the rollouter generating again, however the  *)
(* interruptions fall: no pause waits for a generation for ever, and an    *)
(* interrupted one is taken up again (pause, resume, cancel_agent_loops).  *)
SampleFinishes == <>[](sample = "finished" /\ rp = "running")
=============================================================================
