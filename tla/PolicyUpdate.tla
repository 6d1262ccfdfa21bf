----------------------------- MODULE PolicyUpdate ------------------------------
(* The update of actor and critic in a training step: update_policy of         *)
(* workers/actor/dp_actor.py and update_critic of workers/critic/dp_critic.py  *)
(* on the data-parallel ranks of the FSDP workers, with the masks, the old log *)
(* probabilities and the targets that the trainer's step puts in the batch.    *)
(*                                                                             *)
(* A loss is a sum of terms; a term is an average over the rows (or their      *)
(* tokens) that its mask keeps, so a gradient is, on each rank, a set of       *)
(* contributions: which micro-batch and term, which row, with what weight, and *)
(* against the outputs of which version.  Scale stands for a weight of 1.      *)
EXTENDS SeqlenBalancing, DataProtocol

CONSTANTS
    Setups,     \* the configurations, see UpdateAssumption
    PromptLen,  \* tokens of a prompt; lens are the lengths of the responses
    Scale

Roles == {"actor", "critic"}
PolicyLosses == {"vanilla", "cspd", "sdpo"}
Auxiliary == {"kl", "kl_routing", "sft", "sdpo_routing"}
RoutingModes == {"none", "far_all", "far_failed_with_correct_group"}
NoVersion == -1

NumRows(s) == s.prompts * s.n
MiniBatchSize(s, role) == (s[role].ppo_mini_batch_size * s.n) \div s.dp

ASSUME UpdateAssumption ==
    \A s \in Setups :
        /\ {s.prompts, s.n, s.dp, s.max_token_len, s.max_prefixes, s.steps} \subseteq Nat \ {0}
        /\ s.critic_warmup \in Nat
        /\ {s.use_dynamic_bsz, s.balance_batch, s.use_critic, s.dont_reprompt_on_self_success,
            s.ema, s.bypass_mode, s.one_step_off, s.use_rollout_log_probs, s.overflow, s.float16,
            s.environment_feedback_only_without_solution} \subseteq BOOLEAN
        /\ s.loss \in PolicyLosses
        /\ s.aux \subseteq Auxiliary
        /\ s.masks \subseteq SUBSET (1..NumRows(s)) /\ s.masks # {}
        /\ s.corrects \subseteq SUBSET (1..NumRows(s)) /\ s.corrects # {}
        /\ s.feedbacks \subseteq SUBSET (1..NumRows(s)) /\ s.feedbacks # {}
        \* a soft gate is positive for every row; a hard one for those beyond tau_far
        /\ s.fars \subseteq SUBSET (1..NumRows(s)) /\ s.fars # {}
        /\ s.mode \in RoutingModes
        /\ NumRows(s) % s.dp = 0
        \* a response has a token at least
        /\ \A i \in 1..NumRows(s) : s.lens[i] \in Nat \ {0} /\ s.lens[i] + PromptLen <= s.max_token_len
        \* the checks of update_policy, and of the workers' constructors
        /\ ~({"kl", "kl_routing"} \subseteq s.aux) /\ ~({"sdpo_routing", "kl_routing"} \subseteq s.aux)
        /\ s.loss = "sdpo" => s.aux \subseteq {"kl"}
        \* the colocated trainer reads the values; the one-step-off trainer has
        \* none of the columns that other losses ask for; in bypass mode no row
        \* is rejected before the loss
        /\ ~s.one_step_off => s.use_critic
        /\ s.one_step_off => s.loss = "vanilla" /\ s.aux \subseteq {"kl"}
        /\ s.bypass_mode => s.masks = {{}}
        /\ \A role \in Roles :
             /\ {s[role].ppo_mini_batch_size, s[role].ppo_micro_batch_size_per_gpu,
                 s[role].ppo_epochs} \subseteq Nat \ {0}
             /\ s[role].loss_agg_mode \in {"token-mean", "seq-mean-token-mean"}
             /\ MiniBatchSize(s, role) > 0
             /\ ~s.use_dynamic_bsz => MiniBatchSize(s, role) % s[role].ppo_micro_batch_size_per_gpu = 0

\* Weights are whole numbers of 1/Scale: every denominator divides it.
ASSUME ScaleAssumption ==
    /\ PromptLen \in Nat /\ Scale \in Nat \ {0}
    /\ \A s \in Setups, role \in Roles :
          \A den \in 1..MiniBatchSize(s, role), width \in 1..Total([i \in 1..NumRows(s) |-> s.lens[i]]) :
              Scale % (den * width) = 0

VARIABLES
    setup,
    fit,              \* where the training step is
    global_steps,
    done,             \* mini-batches this update has been through, over its epochs
    stage,            \* "split" a mini-batch, "backward" through its parts, or "raised"
    micro,            \* its micro-batches that the ranks have been through
    gradient,         \* rank -> what has been accumulated
    far,              \* rows whose far gate is positive
    weights,          \* role -> optimizer steps in its weights
    skipped,          \* role -> optimizer steps left out (history)
    unscaled,         \* the actor's scaler has not been updated since unscale_
    rollout_version,  \* the weights that generated the prefetched batch
    old,              \* the weights behind old_log_probs, the values, the rollout
    masked,           \* rows that rejection sampling took out of response_mask
    correct,          \* rows whose reward reaches the threshold
    feedback,         \* rows with feedback from the environment
    did_update,
    teacher           \* the students mixed into the teacher, in order

updateVars == <<done, stage, micro, gradient, far, did_update>>
optimizerVars == <<weights, skipped, unscaled>>
batchVars == <<rollout_version, old, masked, correct, feedback>>
vars == <<setup, fit, global_steps, updateVars, optimizerVars, batchVars, teacher>>

Rows == 1..NumRows(setup)
Ranks == 1..setup.dp
uid(r) == (r - 1) \div setup.n + 1

--------------------------------------------------------------------------------
\* How a batch is divided.

Tokens(s) == [i \in 1..NumRows(s) |-> s.lens[i] + PromptLen]
Order(s) ==
    IF s.balance_batch THEN BalancedOrder(Tokens(s), s.dp) ELSE [i \in 1..NumRows(s) |-> i]
MiniBatches(s, role, d) == Split(Chunk(Order(s), s.dp)[d], MiniBatchSize(s, role))
NumMiniBatches(s, role) == CeilDiv(NumRows(s) \div s.dp, MiniBatchSize(s, role))

\* Mutant: a rank takes the number it would take alone.
OwnCount(wanted, d) == wanted[d]

\* all_reduce(MAX): every rank takes as many micro-batches.
MicroBatchCount(wanted, d) == CHOOSE c \in {wanted[e] : e \in DOMAIN wanted} :
                                  \A e \in DOMAIN wanted : wanted[e] <= c

\* What of its rows a rank has in each of its micro-batches.
ByIndex(rows, parts) == [p \in DOMAIN parts |-> AtIndices(rows, parts[p])]
DividedRows(s, role, rows) ==
    LET lens == [d \in 1..s.dp |-> AtIndices(Tokens(s), rows[d])]
        wanted == [d \in 1..s.dp |-> MicroBatchesWanted(lens[d], s.max_token_len)]
    IN [d \in 1..s.dp |->
           IF s.use_dynamic_bsz
           THEN ByIndex(rows[d], MicroBatches(lens[d], MicroBatchCount(wanted, d)))
           ELSE Split(rows[d], s[role].ppo_micro_batch_size_per_gpu)]

\* The micro-batches of mini-batch m: rank -> sequence of parts.
DividedMiniBatch(s, role, m) ==
    DividedRows(s, role, [d \in 1..s.dp |-> MiniBatches(s, role, d)[m]])

Plan == [s \in Setups |-> [role \in Roles |->
            [m \in 1..NumMiniBatches(s, role) |-> DividedMiniBatch(s, role, m)]]]

Updating == fit \in Roles
MiniBatch == (done % NumMiniBatches(setup, fit)) + 1
MicroBatchesOf(d) == Plan[setup][fit][MiniBatch][d]
PerUpdate(role) == NumMiniBatches(setup, role) * setup[role].ppo_epochs

\* on_policy, unless use_rollout_log_probs asks for old_log_probs.
OnPolicy ==
    /\ NumMiniBatches(setup, "actor") = 1 /\ setup.actor.ppo_epochs = 1
    /\ ~setup.use_rollout_log_probs

--------------------------------------------------------------------------------
\* What a loss averages over.

Terms(role) == IF role = "critic" THEN {"value"} ELSE {setup.loss} \cup setup.aux
Distilled == {"sdpo", "sdpo_routing"}

HasSolution(r) ==
    \E q \in correct : uid(q) = uid(r) /\ (setup.dont_reprompt_on_self_success => q # r)

\* _maybe_build_self_distillation_batch: the teacher is shown a correct answer
\* or the feedback.
Reprompted(r) ==
    \/ HasSolution(r)
    \/ r \in feedback /\ (setup.environment_feedback_only_without_solution => ~HasSolution(r))

Routed(r) ==
    CASE setup.mode = "none" -> FALSE
      [] setup.mode = "far_all" -> r \in far
      [] OTHER -> r \in far /\ r \notin correct /\ \E q \in correct : uid(q) = uid(r)

\* The CSPD loss looks at its own selection of prefixes, not at response_mask.
Counts(term, r) ==
    /\ term # "cspd" => r \notin masked
    /\ term \in Distilled => Reprompted(r)
    /\ term \in {"sdpo_routing", "kl_routing"} => Routed(r)
    /\ term = "sft" => r \in correct /\ r \in far

AveragesTokens(role, term) ==
    \/ term \in {"cspd", "sft"}
    \/ setup[role].loss_agg_mode = "token-mean"

Width(role, term, r) ==
    CASE ~AveragesTokens(role, term) -> 1
      [] term = "cspd" /\ setup.lens[r] > setup.max_prefixes -> setup.max_prefixes
      [] OTHER -> setup.lens[r]

Counted(term, rows) == {r \in ToSet(rows) : Counts(term, r)}

\* loss_scale_factor, as a fraction.
LossScale(role, rows) ==
    IF setup.use_dynamic_bsz
    THEN [num |-> Len(rows), den |-> MiniBatchSize(setup, role)]
    ELSE [num |-> 1, den |-> MiniBatchSize(setup, role) \div setup[role].ppo_micro_batch_size_per_gpu]

Weight(role, term, rows, r) ==
    LET factor == LossScale(role, rows)
        width == SumFunction([q \in Counted(term, rows) |-> Width(role, term, q)])
    IN (Scale * factor.num * Width(role, term, r)) \div (factor.den * width)

HasRatio(term) == term \in {"vanilla"} \cup Distilled

\* Mutant: one mini-batch is taken for on-policy whatever the number of epochs.
ReferenceOfOneMiniBatch(role, term) ==
    IF HasRatio(term) /\ NumMiniBatches(setup, role) = 1 THEN weights[role]
    ELSE IF HasRatio(term) \/ role = "critic" THEN old[role] ELSE NoVersion

\* The ratio of a policy loss is against log_prob.detach() when on policy, else
\* against old_log_probs; the value loss is clipped around the old values.
Reference(role, term) ==
    IF HasRatio(term) /\ OnPolicy THEN weights[role]
    ELSE IF HasRatio(term) \/ role = "critic" THEN old[role] ELSE NoVersion

Contributions(role, part, rows) ==
    UNION {{[part |-> part, term |-> term, row |-> r, weight |-> Weight(role, term, rows, r),
             against |-> Reference(role, term)] : r \in Counted(term, rows)} : term \in Terms(role)}

--------------------------------------------------------------------------------
NoGradient == [d \in Ranks |-> {}]

Init ==
    /\ setup \in Setups
    /\ fit = "begin" /\ global_steps = 1
    /\ done = 0 /\ stage = "split" /\ micro = 0 /\ gradient = NoGradient /\ far = {}
    /\ did_update = FALSE
    /\ weights = [role \in Roles |-> 0] /\ skipped = [role \in Roles |-> 0]
    /\ unscaled = FALSE
    /\ rollout_version = 0
    /\ old = [actor |-> 0, critic |-> 0, rollout |-> 0]
    /\ masked = {} /\ correct = {} /\ feedback = {}
    /\ teacher = <<>>

\* Mutant: the actor waits one step too many for the critic.
TrainsAfterWarmup(role) ==
    IF role = "critic" THEN setup.use_critic ELSE setup.critic_warmup < global_steps
Trains(role) ==
    IF role = "critic" THEN setup.use_critic ELSE setup.critic_warmup <= global_steps
AfterCritic == IF Trains("actor") THEN "actor" ELSE "end"

\* The step up to the updates: the batch, generated now or one step ago, its old
\* log probabilities, values, rewards and masks.
BeginStep ==
    /\ fit = "begin"
    /\ masked' \in setup.masks /\ correct' \in setup.corrects /\ feedback' \in setup.feedbacks
    /\ LET generated == IF setup.one_step_off THEN rollout_version ELSE weights.actor
       IN old' = [actor |-> IF setup.bypass_mode THEN generated ELSE weights.actor,
                  critic |-> weights.critic, rollout |-> generated]
    /\ rollout_version' = weights.actor
    /\ fit' = IF Trains("critic") THEN "critic" ELSE AfterCritic
    /\ UNCHANGED <<setup, global_steps, updateVars, optimizerVars, teacher>>

\* Mutant: gradients of the preceding mini-batch stay.
StartMiniBatchWithoutZeroGrad ==
    /\ Updating /\ stage = "split" /\ done < PerUpdate(fit)
    /\ far' \in IF fit = "actor" THEN setup.fars ELSE {{}}
    /\ micro' = 0
    /\ stage' = "backward"
    /\ UNCHANGED <<setup, fit, global_steps, done, gradient, optimizerVars, batchVars, did_update, teacher>>

\* The next mini-batch is divided and the gradients are zeroed.  The far gate
\* compares the current policy with the rollout, row by row: it stays until the
\* optimizer steps.
StartMiniBatch ==
    /\ Updating /\ stage = "split" /\ done < PerUpdate(fit)
    /\ gradient' = NoGradient
    /\ far' \in IF fit = "actor" THEN setup.fars ELSE {{}}
    /\ micro' = 0
    /\ stage' = "backward"
    /\ UNCHANGED <<setup, fit, global_steps, done, optimizerVars, batchVars, did_update, teacher>>

\* Forward and backward of every rank's next micro-batch: the ranks gather the
\* sharded parameters from one another, so that none goes alone.
Backward ==
    /\ Updating /\ stage = "backward"
    /\ \A d \in Ranks : micro < Len(MicroBatchesOf(d))
    /\ gradient' = [d \in Ranks |-> 
                        gradient[d] \cup Contributions(fit, micro + 1, MicroBatchesOf(d)[micro + 1])]
    /\ micro' = micro + 1
    /\ UNCHANGED <<setup, fit, global_steps, done, stage, far, optimizerVars, batchVars, did_update, teacher>>

\* The ranks have been through all of theirs.
Accumulated == Updating /\ stage = "backward" /\ \A d \in Ranks : micro = Len(MicroBatchesOf(d))

\* The actor's optimizer has a ShardedGradScaler in fp16, the critic's never.
Scaled == fit = "actor" /\ setup.float16

\* _optimizer_step: the norm, which all ranks share, is finite, or the step is
\* skipped.  An average over nothing has a gradient of zero and is stepped like
\* any other (masked_sum).  In fp16 the skipped step returns without the update
\* of the scaler.
OptimizerStep ==
    /\ Accumulated
    /\ Scaled => ~unscaled
    /\ \E finite \in BOOLEAN :
         /\ ~setup.overflow => finite
         /\ IF finite
            THEN /\ weights' = [weights EXCEPT ![fit] = @ + 1]
                 /\ did_update' = (did_update \/ fit = "actor")
                 /\ UNCHANGED <<gradient, skipped, unscaled>>
            ELSE /\ skipped' = [skipped EXCEPT ![fit] = @ + 1]
                 /\ gradient' = NoGradient
                 /\ unscaled' = (unscaled \/ Scaled)
                 /\ UNCHANGED <<weights, did_update>>
    /\ done' = done + 1
    /\ stage' = "split"
    /\ UNCHANGED <<setup, fit, global_steps, micro, far, batchVars, teacher>>

\* unscale_ of gradients that the scaler takes for unscaled raises, and the error
\* ends update_policy and fit().
UnscaleRaises ==
    /\ Accumulated /\ Scaled /\ unscaled
    /\ stage' = "raised"
    /\ UNCHANGED <<setup, fit, global_steps, done, micro, gradient, far, did_update,
                   optimizerVars, batchVars, teacher>>

UpdateOver(role) == fit = role /\ stage = "split" /\ done = PerUpdate(role)

\* Mutant: the count of mini-batches goes on in the next update.
ResetUpdateWithoutCount ==
    done' = done /\ gradient' = NoGradient /\ far' = {} /\ micro' = 0 /\ did_update' = FALSE
ResetUpdate == done' = 0 /\ gradient' = NoGradient /\ far' = {} /\ micro' = 0 /\ did_update' = FALSE

EndCritic ==
    /\ UpdateOver("critic")
    /\ ResetUpdate
    /\ fit' = AfterCritic
    /\ UNCHANGED <<setup, global_steps, stage, optimizerVars, batchVars, teacher>>

\* Mutant: the teacher is mixed although no step was applied.
UpdateTeacherAlways ==
    teacher' = IF setup.loss = "sdpo" /\ setup.ema THEN Append(teacher, weights.actor) ELSE teacher

\* _update_teacher
UpdateTeacher ==
    teacher' = IF did_update /\ setup.loss = "sdpo" /\ setup.ema
               THEN Append(teacher, weights.actor) ELSE teacher

EndActor ==
    /\ UpdateOver("actor")
    /\ ResetUpdate
    /\ UpdateTeacher
    /\ fit' = "end"
    /\ UNCHANGED <<setup, global_steps, stage, optimizerVars, batchVars>>

EndStep ==
    /\ fit = "end"
    /\ global_steps' = global_steps + 1
    /\ fit' = IF global_steps >= setup.steps THEN "returned" ELSE "begin"
    /\ UNCHANGED <<setup, updateVars, optimizerVars, batchVars, teacher>>

Next ==
    \/ BeginStep \/ StartMiniBatch \/ Backward \/ OptimizerStep \/ UnscaleRaises
    \/ EndCritic \/ EndActor \/ EndStep

Spec == Init /\ [][Next]_vars /\ WF_vars(Next)

--------------------------------------------------------------------------------
TypeOK ==
    /\ setup \in Setups
    /\ fit \in Roles \cup {"begin", "end", "returned"}
    /\ global_steps \in 1..(setup.steps + 1) /\ micro \in Nat
    /\ stage \in {"split", "backward", "raised"}
    /\ done \in 0..(IF Updating THEN PerUpdate(fit) ELSE 0)
    /\ gradient \in [Ranks -> SUBSET [part : Nat, term : {"value"} \cup PolicyLosses \cup Auxiliary,
                                       row : Rows, weight : Nat, against : Nat \cup {NoVersion}]]
    /\ far \subseteq Rows /\ did_update \in BOOLEAN /\ unscaled \in BOOLEAN
    /\ weights \in [Roles -> Nat] /\ skipped \in [Roles -> Nat]
    /\ rollout_version \in Nat
    /\ old \in [actor : Nat, critic : Nat, rollout : Nat]
    /\ masked \subseteq Rows /\ correct \subseteq Rows /\ feedback \subseteq Rows
    /\ teacher \in Seq(Nat)

WeightOf(contributions) == SumFunction([g \in contributions |-> g.weight])

\* When the optimizer steps, every rank's gradient holds exactly the rows of its
\* part of the mini-batch that the term's mask keeps, each once: none of the
\* preceding mini-batch, none missed by the micro-batches.  Over a full
\* mini-batch of whose micro-batches none is empty for the term the weights add
\* up to 1, and rows weigh the same when sequences are averaged and none is
\* masked, however the rows were divided.
GradientsExact ==
    Accumulated =>
        \A d \in Ranks, term \in Terms(fit) :
            LET rows == MiniBatches(setup, fit, d)[MiniBatch]
                parts == MicroBatchesOf(d)
                got == {g \in gradient[d] : g.term = term}
                full == Len(rows) = MiniBatchSize(setup, fit)
            IN /\ Cardinality(got) = Cardinality(Counted(term, rows))
               /\ {g.row : g \in got} = Counted(term, rows)
               /\ full /\ (\A p \in DOMAIN parts : Counted(term, parts[p]) # {})
                    => WeightOf(got) = Scale
               /\ full /\ ~AveragesTokens(fit, term) /\ Counted(term, rows) = ToSet(rows)
                    => \A g \in got : g.weight * Len(rows) = Scale

Against(version) ==
    \A d \in Ranks : \A g \in gradient[d] : g.against \in {version, NoVersion}

\* Through all mini-batches and epochs of an update a ratio, or the clipping of
\* values, is against the policy or critic of old_log_probs and values, also
\* when the loss takes its own log probabilities for the old ones; unless, in
\* bypass mode, those are the rollout's.
RatioToOld == Updating /\ ~(setup.bypass_mode /\ OnPolicy) => Against(old[fit])

Updates(role) ==
    Cardinality({t \in 1..setup.steps :
        /\ role = "critic" => setup.use_critic
        /\ role = "actor" => setup.critic_warmup <= t
        /\ t < global_steps \/ (t = global_steps /\ fit \in {"end"} \cup ({"actor"} \ {role}))})

\* Every mini-batch of every update is an optimizer step of the role's weights,
\* whatever the masks leave of it; one is skipped only after an overflow.  In fp16
\* the actor skips at most one, and an update that reaches the next step raises.
StepsAccounted ==
    /\ \A role \in Roles :
        /\ weights[role] + skipped[role] =
             Updates(role) * PerUpdate(role) + (IF fit = role THEN done ELSE 0)
        /\ skipped[role] > 0 => setup.overflow
    /\ setup.float16 => skipped.actor <= 1
    /\ stage = "raised" => setup.float16 /\ fit = "actor" /\ skipped.actor = 1

\* Each student mixed into the teacher is newer than the one before it: an
\* update all of whose steps were skipped does not mix a student twice.
TeacherMixesNewStudents ==
    /\ \A i, j \in DOMAIN teacher : i < j => teacher[i] < teacher[j]
    /\ \A i \in DOMAIN teacher : teacher[i] \in 1..weights.actor

\* fit() returns, or in fp16 raises after a skipped step (StepsAccounted): no rank
\* waits in a collective for one that has finished.
UpdatesReturn == <>(fit = "returned" \/ stage = "raised")
================================================================================
