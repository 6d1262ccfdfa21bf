------------------------------- MODULE PpoTrainer ------------------------------
(* The training loops fit() of the colocated trainer (trainer/ppo/             *)
(* ray_trainer.py) and of the one-step-off trainer (experimental/              *)
(* one_step_off_policy/ray_trainer.py), with the controller's work on a batch, *)
(* the computations of the worker group, rewards computed by the rate-limited  *)
(* manager, checkpoints, crashes and resumes.                                  *)
(*                                                                             *)
(* A batch is the sequence of its row numbers, in the order of the moment; row *)
(* r answers prompt Prompt(r).  A column of results is the sequence of the rows *)
(* they were computed from.  The data is one epoch.                            *)
EXTENDS RewardLimiter, SeqlenBalancing, DataProtocol

CONSTANTS
    Setups   \* the configurations, see TrainerAssumption, with max_restarts, a
             \* bound on crashes

\* The agent loop worker that is given row r.
WorkerOf(s, r) == (r - 1) \div ((s.prompts * s.n) \div s.agent_workers)

ASSUME TrainerAssumption ==
    \A s \in Setups :
         /\ s.mode \in {"colocated", "one_step_off"}
         /\ s.reward \in {"reward_fn", "blocking", "async", "loop"}
         /\ s.limits \in Limits
         /\ {s.prompts, s.n, s.mesh.dp, s.mesh.sp, s.agent_workers, s.total_training_steps,
             s.batches, s.max_token_len} \subseteq Nat \ {0}
         /\ {s.save_freq, s.critic_warmup, s.max_restarts} \subseteq Nat
         /\ {s.balance_batch, s.prefix_grouper, s.use_dynamic_bsz} \subseteq BOOLEAN
         /\ \A i \in 1..(s.prompts * s.n) : s.lens[i] \in 1..s.max_token_len
         \* config validation: the rows divide among ranks and agent workers
         /\ (s.prompts * s.n) % s.mesh.dp = 0
         /\ (s.prompts * s.n) % s.agent_workers = 0
         /\ s.prefix_grouper => s.prompts % s.mesh.dp = 0
         /\ s.reward = "reward_fn" \/ 1..(s.prompts * s.n) \subseteq Requests
         \* in the reward loop every agent worker has a process of its own to score
         \* the rows of its chunk (AgentLoopWorker.__init__); else there is one
         /\ \A q, r \in 1..(s.prompts * s.n) : s.reward # "reward_fn" =>
               (s.limits.process[q] = s.limits.process[r]
                  <=> (s.reward = "loop" => WorkerOf(s, q) = WorkerOf(s, r)))

VARIABLES
    setup,            \* the configuration
    fit,              \* where the loop is
    global_steps, is_last_step,
    position,         \* batches drawn from the dataloader
    future,           \* the generation under way, or its result
    batch,            \* the batch being trained: id, rows, weights that generated it
    reward_rows,      \* the rows the reward manager was given
    ragged,           \* its extra information does not have one entry per row
    scores, old_log_probs, advantages,   \* columns
    actor_version,    \* updates of the actor's weights
    rollout_version,  \* the weights the rollout generates with
    saved,            \* the last checkpoint
    trained,          \* ids of the batches in the actor's weights (history)
    restarts

stepVars == <<batch, reward_rows, ragged, scores, old_log_probs, advantages>>
progressVars == <<global_steps, is_last_step, position, trained>>
trainerVars == <<setup, fit, progressVars, future, stepVars, actor_version,
                 rollout_version, saved, restarts>>
vars == <<trainerVars, limiterVars>>

NumRows == setup.prompts * setup.n
AllRows == 1..NumRows
NoColumn == <<>>
NoBatch == [id |-> 0, rows |-> <<>>, uids |-> <<>>, rm_scores |-> <<>>, version |-> 0, last_version |-> 0,
            state |-> "none"]
OneStepOff == setup.mode = "one_step_off"
Ended == {"returned", "out_of_data", "no_next_batch", "ragged_rewards"}

Init ==
    /\ setup \in Setups
    /\ fit = "start"
    /\ global_steps = 0 /\ is_last_step = FALSE /\ position = 0
    /\ future = NoBatch
    /\ batch = NoBatch
    /\ reward_rows = <<>>
    /\ ragged = FALSE
    /\ scores = NoColumn /\ old_log_probs = NoColumn /\ advantages = NoColumn
    /\ actor_version = 0 /\ rollout_version = 0
    /\ saved = [step |-> 0, position |-> 0, version |-> 0, trained |-> <<>>]
    /\ trained = <<>>
    /\ restarts = 0
    /\ LimiterInit(setup.limits)

--------------------------------------------------------------------------------
(* Drawing and generating a batch.                                             *)

\* Mutant: the end of the data is noticed one batch too late.
StartGenerationPastEnd(version) ==
    IF position <= setup.batches
      THEN /\ position' = position + 1
           /\ future' = [NoBatch EXCEPT !.id = position + 1, !.version = version,
                                        !.state = "generating"]
      ELSE future' = NoBatch /\ UNCHANGED position

\* The next batch of the dataloader goes to the rollout, which generates it with
\* the weights it holds; at the end of the data one_step_off has no batch.
StartGeneration(version) ==
    IF position < setup.batches
      THEN /\ position' = position + 1
           /\ future' = [NoBatch EXCEPT !.id = position + 1, !.version = version,
                                        !.state = "generating"]
      ELSE future' = NoBatch /\ UNCHANGED position

\* Prompts are repeated n times and handed to the agent loop workers in chunks;
\* row p of their outputs answers prompt Prompt(p).
Generated(s) == Concat(Chunk([p \in 1..(s.prompts * s.n) |-> p], s.agent_workers))
RepeatedUids(s) == RepeatInterleave([i \in 1..s.prompts |-> i], s.n)
Prompt(r) == RepeatedUids(setup)[r]
Uids(rows) == [p \in DOMAIN rows |-> Prompt(rows[p])]
Lens(s, rows) == [p \in DOMAIN rows |-> s.lens[rows[p]]]

\* _balance_batch reorders the batch, whatever columns it has by then.  (The
\* orders and micro-batches are constants of a configuration, computed once.)
Order(s) ==
    IF ~s.balance_batch THEN [p \in DOMAIN Generated(s) |-> p]
    ELSE IF s.prefix_grouper
      THEN GroupedOrder(Lens(s, Generated(s)), RepeatedUids(s), s.mesh.dp)
      ELSE BalancedOrder(Lens(s, Generated(s)), s.mesh.dp)
Orders == [s \in Setups |-> Order(s)]

\* Keys of the extra information that comes with a score.
ExtraKeys(q) ==
    CASE outcome[q] = "scored" -> {"acc"}
      [] outcome[q] = "timeout" -> {"acc", "timeout"}
      [] outcome[q] = "error" -> {"acc", "error"}

\* The agent loop takes the keys of a chunk's first row for all of its rows, and
\* concatenates chunks that must have the same keys.
ChunkKeysFit ==
    LET chunks == Chunk(Generated(setup), setup.agent_workers)
    IN \A c \in DOMAIN chunks :
          /\ \A r \in ToSet(chunks[c]) : ExtraKeys(chunks[c][1]) \subseteq ExtraKeys(r)
          /\ ExtraKeys(chunks[c][1]) = ExtraKeys(chunks[1][1])

\* A finished response is scored at once by the reward loop of its agent worker.
RowGenerated(r) ==
    /\ future.state = "generating"
    /\ setup.reward = "loop"
    /\ r \in AllRows
    /\ Submit({r})
    /\ UNCHANGED trainerVars

FinishGeneration ==
    /\ future.state = "generating"
    /\ setup.reward = "loop" => Scored(AllRows)
    /\ IF setup.reward = "loop" /\ ~ChunkKeysFit
         THEN future' = [future EXCEPT !.state = "failed"]
         ELSE LET rows == Reorder(Generated(setup), Orders[setup])
              IN future' = [future EXCEPT
                    !.state = "ready",
                    !.rows = rows,
                    !.uids = Reorder(RepeatedUids(setup), Orders[setup]),
                    !.rm_scores = IF setup.reward = "loop" THEN rows ELSE NoColumn,
                    !.last_version = rollout_version]
    /\ IF setup.reward = "loop" THEN ReleaseRequests(FALSE) ELSE UNCHANGED limiterVars
    /\ UNCHANGED <<setup, fit, progressVars, stepVars, actor_version, rollout_version, saved, restarts>>

--------------------------------------------------------------------------------
(* The loop.                                                                   *)

\* fit() begins, or begins again from the last checkpoint: the one-step-off
\* trainer synchronizes the rollout and starts its first generation.
LoadCheckpoint ==
    /\ fit = "start"
    /\ global_steps' = saved.step + 1
    /\ is_last_step' = FALSE
    /\ trained' = saved.trained
    /\ actor_version' = saved.version
    /\ position' = saved.position
    /\ rollout_version' = IF OneStepOff THEN saved.version ELSE rollout_version
    /\ fit' = IF OneStepOff THEN "first" ELSE "next"
    /\ UNCHANGED <<setup, future, stepVars, saved, restarts, limiterVars>>

FirstGeneration ==
    /\ fit = "first"
    /\ StartGeneration(rollout_version)
    /\ fit' = "await"
    /\ UNCHANGED <<setup, global_steps, is_last_step, trained, stepVars, actor_version,
                   rollout_version, saved, restarts, limiterVars>>

\* The colocated loop draws a batch; its rollout wakes up with the actor's
\* weights.
DrawBatch ==
    /\ fit = "next"
    /\ ~OneStepOff
    /\ position < setup.batches
    /\ StartGeneration(actor_version)
    /\ rollout_version' = actor_version
    /\ fit' = "await"
    /\ UNCHANGED <<setup, global_steps, is_last_step, trained, stepVars, actor_version,
                   saved, restarts, limiterVars>>

DataExhausted ==
    /\ fit = "next"
    /\ ~OneStepOff
    /\ position = setup.batches
    /\ fit' = "out_of_data"
    /\ UNCHANGED <<setup, progressVars, future, stepVars, actor_version, rollout_version,
                   saved, restarts, limiterVars>>

\* Mutant: the last step is recognized one step too late.
LastStepLate == global_steps > setup.total_training_steps
LastStep == global_steps >= setup.total_training_steps

\* The generation's batch is taken.  Unpacking None, or awaiting a generation
\* that raised, ends the run.
TakeBatch ==
    /\ fit = "await"
    /\ future.state = "ready"
    /\ batch' = future
    /\ future' = NoBatch
    /\ is_last_step' = LastStep
    /\ fit' = IF OneStepOff THEN "sync" ELSE "reward"
    /\ UNCHANGED <<setup, global_steps, position, trained, reward_rows, ragged, scores,
                   old_log_probs, advantages, actor_version, rollout_version, saved, restarts, limiterVars>>

TakeNothing ==
    /\ fit = "await"
    /\ future.state \in {"none", "failed"}
    /\ fit' = IF future.state = "none" THEN "no_next_batch" ELSE "ragged_rewards"
    /\ UNCHANGED <<setup, progressVars, future, stepVars, actor_version, rollout_version,
                   saved, restarts, limiterVars>>

\* Mutant: the next generation is started before the weights are sent.
GenerateNextAndSync ==
    /\ fit = "sync"
    /\ rollout_version' = actor_version
    /\ IF is_last_step THEN UNCHANGED <<future, position>> ELSE StartGeneration(rollout_version)
    /\ fit' = "reward"
    /\ UNCHANGED <<setup, global_steps, is_last_step, trained, stepVars, actor_version,
                   saved, restarts, limiterVars>>

\* one_step_off: the rollout gets the weights of the steps so far, and then
\* generates the next batch while this one is trained.
SyncAndGenerateNext ==
    /\ fit = "sync"
    /\ rollout_version' = actor_version
    /\ IF is_last_step THEN UNCHANGED <<future, position>> ELSE StartGeneration(actor_version)
    /\ fit' = "reward"
    /\ UNCHANGED <<setup, global_steps, is_last_step, trained, stepVars, actor_version,
                   saved, restarts, limiterVars>>

--------------------------------------------------------------------------------
(* The rewards of the batch.                                                   *)

\* reward_fn scores the batch in the controller, or the scores came with the rows.
ScoresAtHand ==
    /\ fit = "reward"
    /\ setup.reward \in {"reward_fn", "loop"}
    /\ scores' = IF setup.reward = "loop" THEN batch.rm_scores ELSE batch.rows
    /\ fit' = "old_log_prob"
    /\ UNCHANGED <<setup, progressVars, future, batch, reward_rows, ragged, old_log_probs, advantages,
                   actor_version, rollout_version, saved, restarts, limiterVars>>

\* The manager gets the rows in their order of now; request p scores row p.
LaunchRewards ==
    /\ fit = "reward"
    /\ setup.reward \in {"blocking", "async"}
    /\ reward_rows' = batch.rows
    /\ fit' = IF setup.reward = "async" THEN "old_log_prob" ELSE "scoring"
    /\ Submit(AllRows)
    /\ UNCHANGED <<setup, progressVars, future, batch, ragged, scores, old_log_probs, advantages,
                   actor_version, rollout_version, saved, restarts>>

\* The keys of the extra information each have one entry per row only if all
\* rows came with the same keys.
Ragged == \E q, r \in AllRows : ExtraKeys(q) # ExtraKeys(r)

CollectRewards(process) ==
    /\ Scored(AllRows)
    /\ scores' = reward_rows
    /\ ragged' = Ragged
    /\ \E new \in process : ReleaseRequests(new)

BlockingRewards ==
    /\ fit = "scoring"
    /\ CollectRewards({FALSE})
    /\ fit' = "old_log_prob"
    /\ UNCHANGED <<setup, progressVars, future, batch, reward_rows, old_log_probs, advantages,
                   actor_version, rollout_version, saved, restarts>>

--------------------------------------------------------------------------------
(* The worker group.                                                           *)

\* A rank cuts its rows into micro-batches; their number is the largest that any
\* rank wants.
RankLens(s) ==
    LET chunks == Chunk(Reorder(Generated(s), Orders[s]), s.mesh.dp)
    IN [d \in DOMAIN chunks |-> Lens(s, chunks[d])]
MicroBatchCount(s) ==
    LET wanted == {MicroBatchesWanted(RankLens(s)[d], s.max_token_len) : d \in 1..s.mesh.dp}
    IN CHOOSE m \in wanted : \A k \in wanted : k <= m
BatchIdxLists ==
    [s \in Setups |-> [d \in 1..s.mesh.dp |-> MicroBatches(RankLens(s)[d], MicroBatchCount(s))]]

\* It computes each micro-batch, and puts the results back.
ComputeOnRank(rows, batch_idx_list) ==
    IF ~setup.use_dynamic_bsz THEN rows
    ELSE restore_dynamic_batch(
             Concat([m \in DOMAIN batch_idx_list |-> AtIndices(rows, batch_idx_list[m])]),
             batch_idx_list)

ComputeColumn(rows) ==
    LET sent == DispatchNd(setup.mesh, rows)
    IN CollectNd(setup.mesh,
                 [w \in MeshWorkers(setup.mesh) |->
                     ComputeOnRank(sent[w], BatchIdxLists[setup][DpRank(setup.mesh, w)])])

ComputeLogProb ==
    /\ fit = "old_log_prob"
    /\ old_log_probs' = ComputeColumn(batch.rows)
    /\ fit' = "adv"
    /\ UNCHANGED <<setup, progressVars, future, batch, reward_rows, ragged, scores, advantages,
                   actor_version, rollout_version, saved, restarts, limiterVars>>

--------------------------------------------------------------------------------
(* Advantages and update.                                                      *)

\* GRPO: a row's baseline are the scores of the rows of its uid.
Group(column, p) == {column[q] : q \in {q \in DOMAIN column : batch.uids[q] = batch.uids[p]}}
Advantages(column) == [p \in DOMAIN column |-> [row |-> column[p], group |-> Group(column, p)]]

ComputeAdvantage ==
    /\ fit = "adv"
    /\ setup.reward # "async"
    /\ advantages' = Advantages(scores)
    /\ fit' = "update"
    /\ UNCHANGED <<setup, progressVars, future, batch, reward_rows, ragged, scores, old_log_probs,
                   actor_version, rollout_version, saved, restarts, limiterVars>>

\* ray.get(future_reward): a task's process may have scored batches before.
CollectThenComputeAdvantage ==
    /\ fit = "adv"
    /\ setup.reward = "async"
    /\ CollectRewards(BOOLEAN)
    /\ advantages' = Advantages(reward_rows)
    /\ fit' = "update"
    /\ UNCHANGED <<setup, progressVars, future, batch, reward_rows, old_log_probs,
                   actor_version, rollout_version, saved, restarts>>

\* DataProto.chunk makes a batch of every rank's rows, which asserts that every
\* column has as many entries as there are rows.
UpdateRefused ==
    /\ fit = "update"
    /\ ragged
    /\ fit' = "ragged_rewards"
    /\ UNCHANGED <<setup, progressVars, future, stepVars, actor_version, rollout_version,
                   saved, restarts, limiterVars>>

\* The rows go to the ranks; the critic is updated, and the actor once warm.
UpdateActor ==
    /\ fit = "update"
    /\ ~ragged
    /\ actor_version' = IF setup.critic_warmup <= global_steps THEN actor_version + 1
                                                               ELSE actor_version
    /\ trained' = Append(trained, batch.id)
    /\ fit' = "end"
    /\ UNCHANGED <<setup, global_steps, is_last_step, position, future, stepVars,
                   rollout_version, saved, restarts, limiterVars>>

--------------------------------------------------------------------------------
(* The end of a step.                                                          *)

SaveDue(esi) ==
    /\ setup.save_freq > 0
    /\ \/ is_last_step
       \/ global_steps % setup.save_freq = 0
       \/ esi

\* Mutant: the position is saved as it was before the batch of this step.
CheckpointOfStepBegin == [step |-> global_steps, position |-> position - 1, version |-> actor_version,
                          trained |-> trained]
\* A checkpoint has the dataloader's position of now, which in one_step_off
\* counts the batch being generated.
Checkpoint == [step |-> global_steps, position |-> position, version |-> actor_version,
               trained |-> trained]

EndStep ==
    /\ fit = "end"
    /\ \E esi \in BOOLEAN : saved' = IF SaveDue(esi) THEN Checkpoint ELSE saved
    /\ global_steps' = global_steps + 1
    /\ batch' = NoBatch /\ reward_rows' = <<>> /\ ragged' = FALSE
    /\ scores' = NoColumn /\ old_log_probs' = NoColumn /\ advantages' = NoColumn
    /\ fit' = IF is_last_step THEN "returned" ELSE IF OneStepOff THEN "await" ELSE "next"
    /\ UNCHANGED <<setup, is_last_step, position, trained, future, actor_version,
                   rollout_version, restarts, limiterVars>>

\* The job dies with everything but the checkpoint, or is over, and is started
\* again.
Crash ==
    /\ fit \notin (Ended \ {"returned"}) \union {"start"}
    /\ restarts < setup.max_restarts
    /\ restarts' = restarts + 1
    /\ fit' = "start"
    /\ global_steps' = 0 /\ is_last_step' = FALSE /\ position' = 0
    /\ future' = NoBatch /\ batch' = NoBatch /\ reward_rows' = <<>> /\ ragged' = FALSE
    /\ scores' = NoColumn /\ old_log_probs' = NoColumn /\ advantages' = NoColumn
    /\ actor_version' = 0 /\ rollout_version' = 0 /\ trained' = <<>>
    /\ ReleaseRequests(TRUE)
    /\ UNCHANGED <<setup, saved>>

Loop ==
    \/ LoadCheckpoint \/ FirstGeneration \/ DrawBatch \/ DataExhausted
    \/ TakeBatch \/ TakeNothing \/ SyncAndGenerateNext
    \/ ScoresAtHand \/ LaunchRewards \/ BlockingRewards
    \/ ComputeLogProb \/ ComputeAdvantage \/ CollectThenComputeAdvantage
    \/ UpdateRefused \/ UpdateActor \/ EndStep
Generation == FinishGeneration \/ \E r \in Requests : RowGenerated(r)
Limiter == LimiterStep /\ UNCHANGED trainerVars

Finished == fit \in Ended /\ UNCHANGED vars

Next == Loop \/ Generation \/ Limiter \/ Crash \/ Finished

\* The job does something as long as it can: generations end, and so do reward
\* calls, which have a timeout.  Nobody has to crash.
Fairness == WF_vars(Loop \/ Generation \/ Limiter)

Spec == Init /\ [][Next]_vars /\ Fairness

--------------------------------------------------------------------------------
Columns == Seq(AllRows)
TypeOK ==
    /\ setup \in Setups
    /\ ragged \in BOOLEAN
    /\ fit \in Ended \union {"start", "first", "next", "await", "sync", "reward", "scoring",
                             "old_log_prob", "adv", "update", "end"}
    /\ global_steps \in 0..(setup.total_training_steps + setup.max_restarts + 1)
    /\ is_last_step \in BOOLEAN
    /\ position \in 0..setup.batches
    /\ \A b \in {future, batch} :
         /\ b.id \in 0..setup.batches
         /\ b.rows \in Columns /\ b.rm_scores \in Columns
         /\ b.version \in 0..actor_version
         /\ b.state \in {"none", "generating", "ready", "failed"}
    /\ reward_rows \in Columns /\ scores \in Columns /\ old_log_probs \in Columns
    /\ actor_version \in 0..Len(trained)
    /\ rollout_version \in 0..actor_version
    /\ saved.step \in 0..(setup.total_training_steps + setup.max_restarts)
    /\ restarts \in 0..setup.max_restarts

\* When the workers are given the batch to train on, every row is there once,
\* and its uid, its score, its old log-probabilities and the group of its
\* advantage are its own, wherever reordering, chunks, micro-batches and a reward
\* task that ran meanwhile have put them (_balance_batch, dispatch_nd_compute,
\* restore_dynamic_batch, compute_advantage).
RowsAligned ==
    fit = "update" =>
        /\ Len(batch.rows) = NumRows /\ ToSet(batch.rows) = AllRows
        /\ batch.uids = Uids(batch.rows)
        /\ scores = batch.rows
        /\ old_log_probs = batch.rows
        /\ \A p \in DOMAIN advantages :
              /\ advantages[p].row = batch.rows[p]
              /\ advantages[p].group = {r \in AllRows : Prompt(r) = Prompt(batch.rows[p])}

\* A batch is generated by one version of the weights.  The colocated trainer
\* trains on what these weights generated; the one-step-off trainer is at most
\* the update of one step ahead of them, whatever happened between.
WeightsAge ==
    fit = "update" =>
        /\ batch.version = batch.last_version
        /\ actor_version - batch.version <= IF OneStepOff THEN 1 ELSE 0

\* Through crashes and resumes no batch gets into the weights twice.  What the
\* weights leave out of the data drawn so far is, in one_step_off, at most the
\* batch that was being generated when a checkpoint was written, once per
\* restart; in the colocated loop, nothing.
BatchesAccounted ==
    /\ \A i, j \in DOMAIN trained : i < j => trained[i] < trained[j]
    /\ trained # <<>> =>
          Last(trained) - Len(trained) <= IF OneStepOff THEN restarts ELSE 0
    /\ fit \notin {"start", "end"} /\ fit \notin Ended => Len(trained) = global_steps - 1

\* fit returns; or the data ends first, which the one-step-off loop takes for a
\* batch; or some rows' calls failed and others' did not, so that the rewards'
\* extra information does not fit the batch.
EndsWell ==
    \/ fit = "returned"
    \/ /\ fit \in {"out_of_data", "no_next_batch"}
       /\ fit = "no_next_batch" <=> OneStepOff
       /\ restarts > 0 \/ setup.total_training_steps > setup.batches
    \/ /\ fit = "ragged_rewards"
       /\ setup.reward # "reward_fn"
       /\ Cardinality(limits.outcomes) > 1
FitReturns == <>EndsWell
================================================================================
