# CSPD / verl: a TLA+ verification project

The repository trains language models with PPO and CSPD (Critic-Induced
Success-Posterior Distillation) on top of a copy of verl. Paths below are
relative to `src/sdpo_verl/verl/`; `fap/` stands for
`experimental/fully_async_policy/`.

## 1. Inventory

| component | state it keeps | operations | hard behaviour | what makes it correct |
|---|---|---|---|---|
| message queue actor (`fap/message_queue.py`) | deque of samples, deque of validation results, counters, running flag, one condition | put_sample, get_sample, update_param_version, clear_queue, shutdown, put/get_validate | consumers suspended in `Condition.wait`, drop of the oldest sample when full | FIFO, at-most-once delivery, every sample accounted for, no lost wakeup |
| rollouter (`fap/fully_async_rollouter.py`) | pending, cancel queues, active tasks, `paused`, `staleness_samples`, `monitor_loop_trigger`, version | feeder, processor, one task per sample, monitor, streaming main; remote pause, update_param_version, resume | coroutines of one loop interleaved at awaits under one lock, stale reads before waiting for the lock, interruption and resumption of generations, exceptions | no sample doubled or lost, bounded staleness, no generation during a weight broadcast, termination |
| trainer (`fap/fully_async_trainer.py`) | version, step counter, batch, last validation | collect samples, train, synchronize, log validation, save and load checkpoints | blocks its event loop in `ray.get`, final synchronization after the end mark | samples are fresh, every version's validation is logged, fit() returns |
| parameter synchronizer (`fap/param_sync.py`) | handles of the last update, resume, validation calls | sync_weights, wait_last_valid | calls started and not waited for | synchronizations do not overlap |
| task runner (`fap/fully_async_main.py`) | actor handles | construct, first synchronization, wait for both fit() | one component fails first | returns when both have |
| partial agent loop and cancellable server (`fap/agent_loop`, `fap/vllm_rollout`) | what each generation has so far, cancellation events, pause flags, requests | generate_for_partial, cancel, resume | cancellation races completion; the n generations of a sample end differently and are resumed elsewhere | an interrupted generation resumes where it stopped, each token once |
| weight transfer (`fap/checkpoint_engine.py`, `fap/fsdp_workers.py`) | host buffers, two halves of a broadcast buffer, a loading thread per rank | plan, register, broadcast, load | a half is received into while another thread loads it | every parameter arrives, of one version |
| server manager (`experimental/agent_loop/agent_loop.py`) | heap of counts, LRU map of sessions | _choose_server | routing by requests ever sent | sticky |
| rate limiter (`experimental/reward_loop/reward_manager/limited.py`) | units of two buckets, semaphore | acquire, run_single | lock released while asleep, debt of oversized requests, time-outs | the rate bound holds |
| colocated trainer (`trainer/ppo/ray_trainer.py`) | global step, dataloader position, a batch of many columns | fit, balance, dispatch, rewards, save, load | rows reordered, chunked, regrouped while a reward task runs; crashes | results stay with their rows; no batch twice |
| one-step-off trainer (`experimental/one_step_off_policy/ray_trainer.py`) | one batch in flight | async_gen_next_batch, fit | end of the data, checkpoints that count the prefetched batch | one step off, all batches used once |
| actor and critic updates (`workers/actor/dp_actor.py`, `workers/critic/dp_critic.py`) | gradients, weights, EMA teacher | update_policy, update_critic | nested epochs, mini-batches, micro-batches on ranks that must go together; masks; skipped steps, fp16 scaling | every row weighs once, ratios keep their reference, no rank waits |
| CSPD targets (`trainer/ppo/cspd.py`, `_prepare_cspd_targets`) | none (one call per iteration) | select prefixes, build successor queries, score, scatter, posterior | ragged rows flattened and scattered back, inconsistent critic, empty responses | the scores belong to their candidates; targets are feasible posteriors |
| checkpoint retention (`utils/checkpoint/*_checkpoint_manager.py`) | `previous_saved_paths` in memory; directories and tracker file on disk | ensure_checkpoint_capacity, register_checkpoint, find_latest_ckpt_path | a crash between any two writes; memory lost, disk kept | the tracked version can always be loaded, bounded loss and disk use |
| models, kernels, tools, rewards, data, tensor arithmetic | tensors | numerical functions | none of protocol kind | numerical tests, not model checking |

How they interact: in the asynchronous policy the rollouter's tasks put finished
samples into the message queue; the trainer takes them in blocking calls. Every
`trigger_parameter_sync_step` training steps the trainer asks the synchronizer,
in blocking calls, to wait for the previous synchronization, to pause the
rollouter (which cancels the agent loops, and these the servers), to tell the
queue the version and to broadcast the weights; the rollouter's
update_param_version and resume then run without being waited for. Validation
results come back through the queue's second deque. The colocated and the
one-step-off trainers drive agent loops, reward managers and worker groups from
one loop; the workers' updates are the same for all. `PROJECT.json` lists every
hazard found, at its line.

## 2. Modules

| module | what it is | uses |
|---|---|---|
| `MessageQueue` | the queue actor. One action per method, `get_sample` split into the call (`GetSample`) and what follows a wait (`GetSampleResumed`) | |
| `LossyFifo` | abstract specification: a log of all samples and the position of the first one waiting | |
| `MessageQueueLog` | the queue with a history variable and the refinement mapping to `LossyFifo` | `MessageQueue` |
| `FullyAsyncRollouter` | the rollouter's coroutines and remote calls. It owns an instance `MQ` of `MessageQueue` | `MessageQueue` |
| `FullyAsyncPipeline` | rollouter, queue, trainer and synchronizer, and the properties of the whole | `FullyAsyncRollouter` |
| `BucketTransfer` | one update of the weights: planning, registration, broadcasts, loading threads | |
| `PartialGeneration` | the agent loops of one sample, the server manager and the cancellable servers | `BucketTransfer` |
| `WeightUpdate` | synchronizer and rollouter around both: cancel, transfer, resume | `PartialGeneration` |
| `RewardLimiter` | token buckets, semaphore and calls of the rate-limited reward manager, in discrete time; `LimiterSpec` is what it promises to its users | |
| `SeqlenBalancing`, `DataProtocol` | Karmarkar-Karp partitions and micro-batches; repeat, reorder, chunk, split, concat, pad | |
| `PpoTrainer` | fit() of the colocated and of the one-step-off trainer, with crashes and resumes | the three above |
| `PolicyUpdate` | the updates of critic and actor inside a step, on all ranks | `SeqlenBalancing`, `DataProtocol` |
| `CheckpointStore` | checkpoints: part by part, write by write, with crashes | |
| `CspdTargets` | `_prepare_cspd_targets` as five steps | |
| `MessageQueueProofs`, `FullyAsyncPipelineProofs`, `WeightUpdateProofs`, `CheckpointStoreProofs`, `CspdTargetsProofs`, `PpoTrainerProofs`, `PolicyUpdateProofs` | the theorems, section 4 | their module |
| `DataLemmas` | lemmas about induction, division, sums, lists, sorting; that the balancing, the micro-batches and the data protocol lose and double no row and leave no part empty | used by `CspdTargetsProofs`, `WeightUpdateProofs`, `PpoTrainerProofs`, `PolicyUpdateProofs` |
| `MC*` | values of constants that a cfg cannot write | |

Several modules have a constant `Setups`, a set of records of configuration
values under the code's own names; a variable takes one of them in `Init`, so that one
run covers several configurations.

### State and code

`MessageQueue`: the variables have the names of the actor's fields. `call[c]`
is where consumer `c` is in `get_sample` (idle, waiting in the condition, woken
and not yet run), `ret[c]` what it got. Every method runs under the actor's
asyncio lock and suspends only in `Condition.wait`; this is why a method is one
action. `cleared_samples` is a history variable: the code only logs the number.

`FullyAsyncRollouter`: `lock` is the holder of the asyncio lock and `waiters`
the FIFO of coroutines suspended in acquiring it; a release hands the lock to
the first of them. `turn` is the coroutine in the middle of a stretch without a
suspension: a coroutine keeps the loop until it awaits something not ready, and
`asyncio.Lock.acquire` on a free lock, `Queue.get` on a non-empty queue and
`Queue.put` on a queue with room do not suspend. `_should_pause_generation` calls
the queue actor synchronously, so it does not suspend either. `pp`, `mp`,
`mainp`, `rp` are the program counters of processor, monitor, streaming main and
remote calls, `phase[i]` that of the task of sample `i`. `why` tells which of the
processor's three textually equal loops over `active_tasks` it is in. The set
`active_tasks` is the unfinished tasks plus the number `finished` of finished
ones not yet removed: a finished task that stays in the set counts for staleness
and concurrency. `reaped` is whether the local `done_tasks` was ever bound. The
remote call of `update_param_version` is split where it awaits the queue's size.
A sample is its number, 0 stands for DONE and for the closing None. A sample
(its n responses) is interrupted or finishes as a whole; `PartialGeneration` has
the inside of that step.

`FullyAsyncPipeline`: `tp` is the trainer's program counter; the blocking calls
to the synchronizer are steps of the trainer that wait for the rollouter's
`rp`. `trained` and `logged` are history variables. Whether a version's
validation has metrics or not makes no difference to the protocol.

`BucketTransfer`: `tp[r]` is where rank `r` is, `consumer[r]` its loading thread and
`job[r]` the broadcast last given to it; `half[r]` are the two halves of
`broadcast_load_buffer`, `gidx` how many broadcasts are over, `h2d_buffer` and
`memory_buffers` the actor ranks' copies. A broadcast and a barrier are joint
steps of all ranks. A bucket is named by its owner, its index and the version of
the weights in it, so a half overwritten too early is visible as a `Corrupt`
parameter in `model`. The three modes are those of `checkpoint_engine.enable` and
`overlap_broadcast_and_consume`.

`PartialGeneration`: a token carries its position in the response and the versions of
the weights that computed it. What the model would say is `Script[kind]`,
independent of the weights, so "the same response as without interruption" can
be stated. `gpc[g]` is where generation `g` is in its agent loop, `request[g]` and
`reply[g]` the server's side of its call; the actions of agent loop, tool agent,
server and replica carry the names of the methods. `split` records that a tool
call's beginning and end came with two different requests.

In both modules a server computes no token from the first parameter it loads to the
last (`Computes`): the engine's steps and the loading call run in one event loop of the
rank's process, and the call does not give it back (`_loop_forever` in
`workers/rollout/vllm_rollout/vllm_rollout.py:164-178`, `fap/fsdp_workers.py:85-187`).
Cached keys and values are not modelled: a token has the version of the weights alone.

`WeightUpdate`: `rp` is the rollouter between pause and resume, `calls` the calls of
cancel and resume not yet served; they are served in any order. `paused` is the
rollouter's flag, and the lock is held by whoever `rp` says. The monitor is here as in
the pipeline: it decides while `pause()` holds the lock (`unpausing`) and clears `paused`
after `pause()` has returned; `intruders` counts the tasks that are made because of that
(history). That the processor also pauses itself when it is too far ahead is left to
`FullyAsyncRollouter`.

`RewardLimiter`: a tick is the time in which a bucket gains one unit. `at[q]`,
`wake[q]`, `paid[q]` are where a row's coroutine is in acquire; one round of acquire
is one action, since no await lies inside the bucket's lock. `granted` is history.
Buckets and semaphore are attributes of the class, so each process that scores rows
has its own: a bucket is a process and a kind. In the reward loop every agent loop
worker starts such a process (`WorkerOf`); the other reward paths score in one.

`PpoTrainer`: a row is its number, the batch the sequence of its rows in the order
of the moment, and a column of results the sequence of the rows they were
computed from. `fit` is the program counter of the loop; `future` the generation
under way; `saved` the checkpoint. Groups of advantages exist only with a critic in
the colocated loop, whose diagnostics read the values in any case.

`PolicyUpdate`: the gradient of a rank is the set of the contributions backward has
added: micro-batch, term of the loss, row, weight (in 1/`Scale`), and the version
of the log probabilities or values it is measured against. `done` counts
mini-batches through the epochs, `stage` is "split" before a mini-batch is divided
and "backward" while its `micro` parts are run, "raised" after an error; `far` are the
rows whose far gate is positive, `skipped` (history) counts the optimizer steps left
out, `unscaled` is that the fp16 scaler has not been updated since `unscale_`, `old`
are the versions behind the columns old_log_probs, values and rollout, `teacher` the
students mixed by the EMA. `BeginStep` stands for everything of a training step
before the updates, as far as the updates read it: which rows are rejected, which
rewards reach the threshold and which rows have feedback are arbitrary members of
`masks`, `corrects` and `feedbacks`. A mask that leaves nothing of a micro-batch adds
nothing to the gradient: `masked_sum` (`utils/torch_functional.py:283`) has a backward of
zero where the mask is, so only the logged loss is 0/0, and the step is taken. A norm that
is not finite comes from an overflow, in setups with `overflow`, in any step.
Left out are the entropy bonus, the values of the soft gate (it is positive for every
row; the hard gate's rows are arbitrary members of `fars`), the trust-region teacher,
the rejection inside the bypass loss, and `normalize_by_active_tokens = False`.

`CheckpointStore`: `complete` and `partial` are the directories on disk,
per part (actor, critic, and the dataloader's data.pt, which is written last and
never rotated; its `previous_saved_paths` entry is a convenience without effect).
`Crash` may come between any two steps; it keeps the disk and loses the rest.

`CspdTargets`: tokens are tuples that say where they come from; the critic is an
unknown function of the tokens it sees, chosen among functions of the row (for
a prefix) and of the candidate's rank (for a successor). Probabilities are
integers over `Scale`; the code's eps is below the grid.

Definitions marked "Mutant" are plausible bugs; `PROJECT.json` says which
definition each replaces and which property then fails. They take no part in
the specifications.

## 3. Runs

| run | bounds | shows |
|---|---|---|
| `message_queue` | 2 consumers, capacity 2, a handful of puts and results | every sample accounted for, order, no lost wakeup, the refinement, release of consumers by shutdown |
| `pipeline` | 5 samples, `MaxRequired` 3, up to 2 concurrent, `MaxVersion` 3, in three setups: partial rollout with two steps of one sample per version; two samples per step without it (both staleness 0.5); three steps per version and a pending queue of 2 (staleness 0), one failing generation and the trainer's own validation | samples neither doubled nor lost but for drops and failures; freshness (put at most one version after the stamp, trained on at most `VersionLag` after it); versions in step; validation logs; one sample too many at most; without staleness, batches that are trained on are on-policy and broadcasts quiet; fit() returns |
| `pipeline_quiet`, `pipeline_interrupted`, `pipeline_final_validation` | see the cfgs | findings 1 to 3 |
| `weight_update` | 2 actor ranks, 2 servers, 2 workers, 2 generations, 2 updates, device buffer of 2, parameter lists `<<1,1,2>>`, `<<3>>`, `<<1,2,1,1,3>>`, responses of 1 to 4 tokens, six setups over the three transfer modes, with up to 2 tasks made during synchronizations (`MaxIntruders`) | every parameter arrives, tokens are of one version, and of a recorded one without such a task, interrupted generations go on where they stopped, the sample is finished |
| `ppo_trainer` | fourteen setups of both loops, 1 to 4 prompts of 2 responses or 1 prompt of 3, 2 or 3 data-parallel ranks, up to 2 crashes, up to 4 rows under the limiter in one or two processes, `MaxTime` 12 | results stay with their rows, rates are kept in each process, weights are one step old at most, no batch twice, fit() ends |
| `ppo_trainer_workers` | two agent loop workers with two rows each | finding 5 |
| `policy_update` | 26 setups, 3 or 4 prompts of 2 responses, 2 or 4 ranks, one or two mini-batches and epochs, dynamic and static micro-batches, up to 3 steps, all losses and routing modes, overflow in five, fp16 in two | gradients hold each row once with its weight, ratios keep their reference, steps are skipped only after an overflow, the teacher mixes each student once, updates return or, in fp16, raise after a skipped step |
| `checkpoint_store` | actor keeps 2, critic keeps 3, several versions, `MaxCrashes` 2 | tracked checkpoint loadable and at most `SaveFreq` versions old, or the tracker torn and the version being saved complete; resume from the newest; disk bounded |
| `checkpoint_torn_tracker` | as `checkpoint_store` | finding 4 |
| `cspd_targets` | 2 rows, 3 positions, 2 candidates, 2 prefixes per row, masks empty, short, full and with a hole, entropies with ties, critic values below the range, even and certain, tails of 1/4 and 0 | selection, alignment, feasible posteriors that are Bayes' for a consistent critic |

`MCPpoTrainer` also checks, as assumptions over every list of up to five
lengths, the algorithms that divide rows: `PartitionsAreBalanced`, `EqualPartsAreEqual`
(also of six), `PaddingIsUndone`, and the counterexample `MaxTokenLenIsExceeded`.

Bounds. In `pipeline` the samples suffice for two published versions and an
incomplete last batch, the concurrency for a full `active_tasks` while a sample is
in the processor's hand, the queue for being full while a task puts, and the
pending queue for a feeder that waits. `InFlightBounded` is tight:
`Planned <= MaxRequired` is violated, by the sample that the processor had taken
when `update_param_version` recomputed the count. In `weight_update` two updates let a
generation be interrupted twice, and the parameter lists give three buckets of
which one rank holds two, fewer parameters than ranks, and one parameter larger
than the buffer. Without partial rollout up to two tasks are made during
synchronizations, in one or one in each; the monitor decides no more when there are
`MaxIntruders`. With partial rollout the servers are paused until resume, so that such a
task's generations return at once; one is admitted in the setup with a response of one
token, none in the two others (`MCMaxIntruders`), which would be too large. The
theorems have any number.
In `ppo_trainer` three rows of one process suffice for two of them
waiting for the same units of a bucket, or for the semaphore, and two processes for
the buckets to be told apart. In `policy_update` the mini-batches
are two full ones, a full and a short one, or one; every mask leaves something,
everything or nothing to a micro-batch, and ranks alone would choose different
numbers of micro-batches. The remaining named bounds are `MaxProduced`, `MaxResults`
(queue), `max_failures`, `MaxVersion`, `MaxCrashes`, `max_restarts`, `steps`.

Deadlock is checked except where a system may stop: `cspd_targets` (a call that
returns or raises), `policy_update` (fit() returns or raises), and `pipeline` and
`pipeline_final_validation`, where the trainer's own validation can block for
ever (finding 3).

Fairness. `Spec` of the pipeline assumes strong fairness of three groups of
steps: work (feeder, processor, main, tasks, trainer), remote calls, monitor.
The event loop runs ready coroutines in FIFO order, the asyncio lock is FIFO, the
monitor sleeps between turns, Ray serves every call and a generation ends;
so no group is shut out by another for ever, although each may be disabled and
enabled again while the loop is busy, which weak fairness would not cover.
`TaskRaises` and `TaskCancelled` are within the work group and need not happen.
`WeightUpdate` assumes weak fairness of the processor, of the synchronizer with the calls
it waits for, of the monitor once it has decided, of the transfer (threads and
collectives of running processes) and of each generation. Nobody is obliged to begin an
update, nor the monitor to decide.
`PpoTrainer` assumes it of its loop together with generation and limiter: timers
that are due are served before the clock moves on, as the event loop does; crashes
are not fair. `PolicyUpdate` is a sequential program between its collectives, so
weak fairness of `Next` says no more than that the processes run. In
`MessageQueue` only a woken coroutine is obliged to run; nobody is obliged to call
a method. `CheckpointStore` and `CspdTargets` have safety properties only.

### Disagreements found

1. `pipeline_quiet`: the monitor reads `monitor_loop_trigger` and the queue and
   then waits for the lock that `pause()` holds; after `pause()` has returned it
   clears `paused` all the same, and new tasks run during the weight broadcast.
   `fap/README.md:237-238` says no new tasks are added. It takes
   max_required_samples greater than the samples of a version, so
   `OnPolicyWhenSynchronous` holds without it.
2. `pipeline_interrupted`: the processor ends once DONE is taken and
   `active_tasks` is empty, with `cancel_queue` not looked at: a sample
   interrupted at that time is lost (`fap/README.md:246-247`).
3. `pipeline_final_validation`: with `use_trainer_do_validate` the final
   synchronization waits, blocking the trainer's event loop, for a task of that
   event loop (`fully_async_trainer.py:355`, `param_sync.py:128,145`).
4. `checkpoint_torn_tracker`: the tracker is truncated by `open(..., "w")` before it is
   written (`fully_async_trainer.py:440-445`, under the comment "for atomic usage"); a
   crash in between makes every later start fail, although all checkpoints are
   complete.
5. `ppo_trainer_workers`: the limiters exist once per process, and every agent loop
   worker starts a reward worker of its own (`agent_loop.py:388`): over N workers the
   rate is N times the configured one, though `limited.py:195-197,336` says that the
   limiters are shared globally across all workers.

### Seen without a run

What the models led to and no property of a run says:

- What finding 1 does to the recorded versions (`TokensOfRecordedVersions` without
  `intruders = 0` fails in `weight_update`): a task made during the synchronization is
  stamped with the old version; a server that has loaded its weights computes it with the
  new ones before `update_param_version` comes, and `param_version_end` stays the old one.
  The trainer counts that trajectory as stale (`fully_async_trainer.py:511-512`). A token
  is never of two versions.
- With one checkpoint kept (limits of 1 in `MCKeep`),
  `TrackedCheckpointComplete` fails: the actor's old directory is removed before the
  critic's, the data's and the tracker's new ones are written, though
  `checkpoint_manager.py:148-149` says that the existing checkpoint is kept until the new
  save completes.
- An update of one mini-batch and one epoch takes its own log probabilities for the old
  ones (`workers/actor/dp_actor.py:896-897`), so in the one-step-off policy's default
  bypass mode the importance ratio is 1 and not against the rollout, as
  `experimental/one_step_off_policy/README.md:215-217` says. `RatioToOld` leaves this
  case out.
- In fp16 a step skipped for its norm returns between `unscale_` and `scaler.update()`
  (`workers/actor/dp_actor.py:580-603`), so the actor's next step raises, where the comment
  (line 592) says that the update is skipped. `StepsAccounted` says that this is the
  only end before the last step.
- `fap/README.md:141` bounds the samples generated between two updates by
  `max_required_samples`; the bound is exceeded by one (`InFlightBounded`).
- With a staleness threshold of at most 1 a sample may still be trained on two versions
  after its stamp (`VersionLag`), though `fap/README.md:147` calls a threshold of 1
  basically the one-step-off policy: the stamp is taken when the generation starts,
  and neither the wait in the queue nor a publication under way is counted.
- The last, incomplete batch is collected, is not trained on, and is dropped after
  the final synchronization, which raises the version all the same: this is why
  `OnPolicyWhenSynchronous` speaks of batches that are trained on.
- A row whose reward call timed out or failed adds a key to the extra information of
  its own row only (`limited.py:457,466`): the batch's lists are ragged, and the next
  chunk or the agent loop's collation fails (`PpoTrainer`, "ragged_rewards").
- A request costing more than a bucket holds takes the debt path; with fewer than
  60 requests a minute, every request does.
- A time-out of a synchronous compute_score gives the semaphore back while the
  executor's thread still runs.
- One-step-off: a checkpoint counts the batch being generated as drawn, so a
  resume skips it; at the end of the data the next batch is None and is unpacked
  ("no_next_batch"); validation measures weights one update behind;
  `_launch_individual_rewards` repeats data already repeated, and its result is
  overwritten.
- A finished run that is started again trains one more step.
- The colocated loop reads `values` without a critic (`trainer/ppo/ray_trainer.py:2298`).
- rearrange_micro_batches exceeds max_token_len: three rows of 3 with a limit of 5
  give a micro-batch of 6 (`MaxTokenLenIsExceeded`).
- A mini-batch whose masks leave nothing at all is an optimizer step all the same, with a
  gradient of zero: moments and weight decay still move the weights, and the teacher is
  mixed with a student that has learnt nothing.
- Averages are taken per micro-batch, so with masks or token means a row's weight
  depends on its neighbours, and a short last mini-batch weighs less
  (`agg_loss` promises invariance); `GradientsExact` states what is left of it.
- The EMA teacher is the reference module itself (`workers/fsdp_workers.py:908`), so
  it moves the reference of the KL loss too, and it is not in the checkpoint.
- The CSPD loss looks at neither rejection masks nor importance weights.
- A tool call split by an interruption is never executed (`split`,
  against `fap/README.md:521-528`); a tool agent calls a paused server again and
  again; entries of a request cancelled before its first token stay on the server
  (`vllm_async_server.py:106-107`).

## 4. Proofs

All theorems hold for every value of the constants under the modules' named
assumptions. Bounds such as `MaxProduced` or `MaxTime` are constants of the
theorems too, of any size.

`MessageQueueProofs` (any capacity, consumers and interleaving):

- `TypeCorrect`, `EverySampleAccounted`, `NoWakeupLost`. The inductive
  invariant is the conjunction `QueueInv`. It is needed as a whole: capacity
  needs the types, and that a put finds something to drop needs the capacity to
  be positive; `NoLostWakeup` needs that every step that makes the queue
  non-empty or closes it also empties the set of waiting consumers.
- `QueueIsAlwaysLogSuffix`: order and at-most-once delivery. `LogInv` is its
  inductive form, element by element: `queue[k] = log[Removed + k]`.
- `Refinement`: `LogSpec => Fifo!Spec`. Initial states map to initial states;
  put_sample is `Accept`, a turn of get_sample `Deliver`, `Decline` or (parking) a
  stutter, clear_queue is `Clear`, everything else a stutter.

`FullyAsyncPipelineProofs` (any staleness, batch sizes, queue and concurrency bounds):

- `PipelineTypes`: the rollouter's and the trainer's own state, without the queue's
  counters, which need the results below.
- `VersionsStayInStep`, from `SyncInv`. `HandShake` says at which program counter of
  the trainer the remote calls of the rollouter can be; `VersionDistance` how far the
  versions of trainer, queue and rollouter are apart at each.
- `ValidationIsLogged`, from `FinalInv` (no training after the loop's end), `LoggedTo` (the
  results up to some version are logged, the next ones are queued) and `LogPosition` (how
  far that version is behind, at each program counter of the trainer).

Then, about the samples:

- `InFlightIsBounded`, from `BoundInv`. It rests on the lock discipline (`LockInv`: who
  is between acquire and release) and on `HandInv` (what is in the processor's hand
  while it waits for a place): the sample above the limit is the one in the hand.
- `TrainedSamplesAreFresh`: `FreshTasks` bounds the stamps of running tasks by the
  window between pause and resume, `QueueFresh` position by position what the queue
  holds, `Counted` how many samples are still to be consumed before the next version.
- `SamplesAreAccounted`, from `SampleInv`: feeder, pending queue, hand, tasks, cancel
  queue, message queue, batch, trained, dropped and failed are disjoint places, and
  every sample fed is in one of them or was lost where finding 2 loses it.
- `PipelineIsTyped`. What is hard is that the counters stay within the types: each version
  published has been paid for with its own quota of trained samples (`VersionsCounted`).
- `SynchronousIsOnPolicy`: without staleness no sample is under way when the weights
  change. `SyncCount` bounds what has been consumed and what is planned together by
  the samples of one version, and makes both zero from broadcast to reset;
  `IdleInv`, `CurrentTasks`, `CurrentSamples` say then that whoever runs has the current
  version. TLC checked each of these invariants before the proof.

`WeightUpdateProofs` (any ranks, servers, parameters, scripts of responses):

- `PlanHolds`: whatever the sizes and the ranks, register_checkpoint puts each
  parameter into exactly one bucket, no bucket is larger than bucket_size, and
  update_checkpoint broadcasts each bucket once. `Packed` is the invariant of its loop over
  the parameters, `Ordered` of the loop over rows and ranks. The theorems below rest on it.
- `WeightsArrive`, `TransferIsTyped`: `TransferInv` says in which phase of a walk the ranks
  can be together (`WalkPhases`), that a thread loads what was sent (`LoadsWhatWasSent`),
  what buffers and halves hold (`HostHoldsWeights`, `DeviceHoldsRow`), and that what has
  been loaded is of the new version (`LoadedAreNew`). The half broadcast into
  is never the one being loaded, because a loading thread has the broadcast before the
  current one and the halves alternate.
- `TokensAreRecorded`, `UpdateIsTyped`: a rank that computes has all parameters of one
  version, the one before its first load or the one after its last (`ComputesOneVersion`,
  from `TransferInv`). As long as no task was made during a synchronization, no token is
  computed during a transfer (`QuietTransfer`), so that `VersionsRecorded` holds for it;
  with `RequestsMatch` and `PauseTypes` these are the invariant.
- `GenerationsResume`: every token is the next of its script, from `AnswersFit` (what a
  server returns continues what the agent loop has) and `StopsRight` (a generation ends
  only where the script does).

`PpoTrainerProofs`, `RateIsBounded`: for any number of processes, in every window of
time the rows let through a bucket stay within what it held and gained. The argument is one
number per bucket, the time `EmptyAt` at which it would be empty, which never
goes back: waiting leaves it alone, taking units moves it by their number. Each
row claims a moment; claims from any moment on, and between any two, fit between
the corresponding values of `EmptyAt` (`FromInv`, `BetweenInv`).

In the same module, `TrainingIsRateBounded` — each step of a training loop is a step
of the limiter or leaves it alone, so its theorem carries over;
`WeightsAreRecent` — `FlowInv` says where the loop stands with the batch in
flight, `AgeInv` which weights the rollout holds at each place;
`BatchesAreAccounted` — `AccountInv` partitions the batches drawn into those trained on,
those ahead of the step in hand and those lost, at most one per restart, for the
running process and for the checkpoint at once, so that a resume keeps it.

`RowsStayAligned`, in the same module, is about the way of the rows, for any lengths,
batch and group sizes, ranks and token bound. `OrdersList`: both orders of `_balance_batch`
are lists of all rows, each once. `RankOfWorker`, `BatchIdxListsAre` and
`ComputedColumn`: the micro-batches of a rank partition its chunk, and after dispatch,
computation in micro-batches, restoring and collection a column is in the order of
the rows sent. `ColumnsInv` says then, for each place of the loop, which columns
are there and that they are aligned with the batch of the moment; `GroupsAre` that the
group of an advantage are the rows of its prompt. Below it, in `DataLemmas`:
sorting rearranges (`SortRearranges`), the largest differencing method keeps the
items of its states apart and together complete and leaves no part empty (`IsPart`, `Apart`,
`Spreads`; `KarmarkarKarpIs`, `BalancedPartition`, `PartitionPasses`), also when whole
prompts are divided (`GroupedOrderLists`); `MicroBatchesAre` and `RestoredBatch`: restoring
with the inverse of the index lists undoes the micro-batches.

`TrainerTypesCorrect`: `StepsInv` bounds the steps (a run that returned and is started
again makes one more), `VersionsInv` orders the versions of actor, rollout, batches and
checkpoint, `ColumnsOK` has batches and columns made of rows.

`CheckpointStoreProofs`, for any parts, limits and crashes: `StoreTypes`,
`RestartResumesFromNewest`, `DiskIsBounded` (on disk are what earlier processes
left, what the manager names and the directory being written), and two theorems under
the hypothesis `KeepsSeveral` that no part keeps exactly one checkpoint
(without it they are false, see above): `TrackedCheckpointIsComplete` and
`LossIsBounded`. `StoreInv` says that a manager's list ascends up to the last complete
save and then at most by the running one; hence what rotation removes (`RetainKeeps`,
`RetainRotates`) is never the tracked version. `LossInv` counts the versions since the
newest complete checkpoint over multiples of save_freq; `TornInv` is the state in which
finding 4 leaves the disk, which `LossBounded` states and does not exclude.

`CspdTargetsProofs`, for any batch, candidate set, quota and critic: `TypeCorrect`,
`SelectionIsMostUncertain`, `ScoresReachTheirCandidates`, `TargetsArePosteriors`. The
invariant `IInv` says what the queries ask (`QueriesAsk`: query n shows the critic the
prefix of one chosen position and one candidate of it, nothing else), where the answers
are (`ScoresAnswer`) and that the targets are the posterior of those answers
(`Targeted`). Under it: `PositionsListed` (a listing in row-major order exists and names
each chosen position once, so that flattening has an inverse), `SeenIs` (padding and the
dummy token stay hidden), `DivMod` (the place of an answer), `SumBounds` and `SumLinear`
(sums over any number of candidates), `BayesIs` (with a consistent critic the projection
of the tail cuts nothing off). Values have the parity of `Scale`, so that halves are
exact, and a position's top-K probabilities add up to at most one: that is what the grid
and `topk` of a softmax give.

`PolicyUpdateProofs`: `TeacherMixesEachStudentOnce` from `TeacherInv` (while did_update is set
the student is newer than all that were mixed); `RatioIsToOld` from `RatioInv`
(contributions are against the old version; an on-policy update has one
mini-batch, so no step has been taken while it accumulates, and the actor's
weights still are those of old_log_probs); `EveryStepAccounted` from `StepsInv`, which
holds the mini-batches gone through as a set and counts it, and `ScalerInv`, that in
fp16 the actor has skipped a step exactly when its scaler waits for the update.

`GradientsAreExact` and `UpdateTypesCorrect`, in the same module, from `GradientInv`: the
types, `global_steps` within the configured steps while fit runs, and `Accumulates`, that
after `micro` parts a rank's gradient is what those parts contribute (`GradientOf`), which
none of the actions can be reasoned about without. `PlanIs` says that the
division of each mini-batch, balanced or cut, deals every one of its rows to one
micro-batch and leaves no micro-batch empty, on every rank. The records of a gradient then correspond one to one to the rows that the mask
keeps (`GotAre`, `RecordsApart`). `WeightsAre` is the arithmetic: a micro-batch's rows
weigh its share of the mini-batch, without remainder since `Scale` is a multiple of
every denominator (`ScaleAssumption`), so the shares add up to one
(`FractionsAddUp`, `GotWeighsOne`), and with averages by sequence and nothing masked each
row weighs 1/length (`SameWeight`, `GotWeighSame`). `ScaleAssumption` is about the
grid of the model, not about the code: any finite set of setups has such a scale. Where an
average is not exact in floating point, nothing is claimed of the rounding.

Besides the modules' assumptions on their constants (which TLC evaluates in every run)
the proofs use that there is a server, that the workers are a sequence, and
`ScriptAssumption`, which says what the tokens of a script mean.

Every safety invariant and action property the passing runs check is stated by a
theorem. Only model-checked: all liveness (`FitsReturn`, `SampleFinishes`, `FitReturns`,
`UpdatesReturn`, `ShutdownReleasesConsumers`), which with ENABLED is out of the prover's
reach. That the parts of the balancing are of similar work is neither checked nor
proved: no property needs it. What is recursive over data is proved from a minimal
counterexample (`LeastOutside` in `DataLemmas`).

## 5. Not modelled

- The package `checkpoint_engine/` (NCCL and NIXL engines), which no trainer here uses;
  the Megatron and engine workers; `experimental/vla`, `experimental/transfer_queue` and
  the rest of `experimental/` not named above, which are variants of the loops
  modelled or copies of other projects' models.
- What is numerical: the values of losses, advantages and importance weights
  (`cspd_forward_kl`, `rollout_corr_helper.py`), models, kernels, reward scores.
- The driver's reaction to a failed component (cancel the other, clear the
  queue); validation loops; REMAX's second generation; profiling, diagnostics, logging.
- In the agent loops: limits on turns, user interactions, multi-modal data. In
  `_balance_batch`: `keep_minibatch`.
- Eviction from the LRU map of sessions: it changes the load only.
- The position inside an epoch of the external StatefulDataLoader: data is one epoch.

The map covers a small part of the implementation's lines because most
of them are these: vendored models and kernels, numerical code, variants per backend,
configuration and logging.

## 6. Plan

Done: the queue and its refinement, the pipeline, checkpoints, CSPD targets, the
weight update with partial generation, the training loops with the rate limiter,
the updates of actor and critic, and the theorems above. What would add most next:

1. `ResumedPipeline`: checkpoint and dataloader position composed with the
   asynchronous pipeline across a crash; which samples are skipped.
2. A refinement between `WeightUpdate` and the pipeline's `TaskGenerated` and
   `TaskCancelled` steps.
3. The driver of the asynchronous policy with a failing component.
