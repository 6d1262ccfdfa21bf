---------------------------- MODULE MCPolicyUpdate -----------------------------
(* Configurations for TLC: three or four prompts of two responses, on two  *)
(* or four ranks.                                                              *)
EXTENDS PolicyUpdate

Update(mini, micro_per_gpu, epochs, mode) ==
  [ppo_mini_batch_size |-> mini, ppo_micro_batch_size_per_gpu |-> micro_per_gpu,
   ppo_epochs |-> epochs, loss_agg_mode |-> mode]
ByTokens == Update(2, 1, 1, "token-mean")
BySequences == Update(2, 1, 1, "seq-mean-token-mean")
Whole(epochs) == Update(3, 1, epochs, "token-mean")

\* Two mini-batches on each rank, of two rows and of one.
Vanilla == [prompts |-> 3, n |-> 2, lens |-> <<1, 3, 2, 3, 1, 2>>, dp |-> 2,
  balance_batch |-> TRUE, use_dynamic_bsz |-> TRUE, max_token_len |-> 5,
  actor |-> ByTokens, critic |-> BySequences, use_critic |-> TRUE, critic_warmup |-> 0,
  loss |-> "vanilla", aux |-> {}, max_prefixes |-> 2, dont_reprompt_on_self_success |-> FALSE,
  ema |-> FALSE, bypass_mode |-> FALSE, one_step_off |-> FALSE, use_rollout_log_probs |-> FALSE,
  masks |-> {{}}, corrects |-> {{}, {1, 3, 4}, {2, 6}, 1..6}, overflow |-> FALSE, float16 |-> FALSE,
  mode |-> "far_failed_with_correct_group", fars |-> {1..6}, feedbacks |-> {{}},
  environment_feedback_only_without_solution |-> FALSE, steps |-> 2]
Large == [Vanilla EXCEPT !.prompts = 4, !.lens = <<3, 1, 1, 2, 3, 3, 1, 2>>,
  !.actor = Update(4, 2, 1, "token-mean"), !.critic = Update(3, 1, 2, "token-mean"),
  !.corrects = {{}, {1}, {2, 3}, {4, 5, 8}, {1, 2, 5, 7}, 1..8}, !.fars = {1..8}]
\* The second rank's rows are the longer ones.
Unbalanced(s) == [s EXCEPT !.balance_batch = FALSE, !.lens = SortSeq(@, <)]
Static(s) == [s EXCEPT !.use_dynamic_bsz = FALSE, !.balance_batch = FALSE]
Rejecting(s) == [s EXCEPT !.masks = {{}, {1}, {1, 2, 4}, {3, 5, 6}, 1..6}, !.corrects = {{}}]
Float16(s) == [s EXCEPT !.float16 = TRUE, !.overflow = TRUE, !.use_critic = TRUE]
Bypass == [Vanilla EXCEPT !.bypass_mode = TRUE, !.one_step_off = TRUE, !.use_critic = FALSE,
  !.corrects = {{}}, !.steps = 3]

MCSetups == {
  [Vanilla EXCEPT !.corrects = {{}}, !.critic_warmup = 2, !.steps = 3],
  [Rejecting(Unbalanced(Vanilla)) EXCEPT !.masks = SUBSET (1..6)],
  Rejecting([Static(Vanilla) EXCEPT !.actor = Update(2, 2, 2, "seq-mean-token-mean")]),
  [Vanilla EXCEPT !.actor = Whole(1), !.critic = Whole(2), !.aux = {"kl", "sft"}],
  [Vanilla EXCEPT !.actor = Whole(2), !.corrects = {{}}, !.overflow = TRUE, !.steps = 1],
  Rejecting([Vanilla EXCEPT !.loss = "cspd"]),
  [Vanilla EXCEPT !.loss = "cspd", !.aux = {"sft"}, !.actor = BySequences],
  [Static(Vanilla) EXCEPT !.aux = {"sft"}],
  [Vanilla EXCEPT !.aux = {"kl_routing", "sft"}, !.corrects = SUBSET (1..6)],
  [Vanilla EXCEPT !.aux = {"kl_routing", "sft"}, !.fars = {{}, {1, 2, 3}, {2, 4, 6}}, !.steps = 1],
  [Vanilla EXCEPT !.aux = {"kl_routing", "sft"}, !.mode = "none"],
  [Unbalanced(Vanilla) EXCEPT !.aux = {"sdpo_routing", "kl"}, !.feedbacks = {{}, {2, 5}}],
  [Static(Vanilla) EXCEPT !.aux = {"sdpo_routing"}, !.actor = BySequences, !.mode = "far_all",
     !.fars = {{1, 4}, {2, 3, 5}}, !.feedbacks = {1..6}, !.steps = 1],
  [Vanilla EXCEPT !.loss = "sdpo", !.ema = TRUE, !.steps = 3, !.dont_reprompt_on_self_success = TRUE],
  [Vanilla EXCEPT !.loss = "sdpo", !.ema = TRUE, !.steps = 3, !.actor = BySequences, !.aux = {"kl"},
     !.feedbacks = {{2, 3, 5}}, !.environment_feedback_only_without_solution = TRUE],
  Float16(Vanilla),
  Float16([Large EXCEPT !.loss = "sdpo", !.ema = TRUE]),
  [Bypass EXCEPT !.bypass_mode = FALSE, !.actor = Whole(1)],
  Bypass,
  [Bypass EXCEPT !.actor = Whole(1), !.use_rollout_log_probs = TRUE],
  [Unbalanced(Large) EXCEPT !.aux = {"kl", "sft"}],
  [Large EXCEPT !.aux = {"kl_routing"}, !.overflow = TRUE, !.steps = 1],
  [Large EXCEPT !.aux = {"sdpo_routing", "sft"}, !.dp = 4],
  [Large EXCEPT !.loss = "sdpo", !.ema = TRUE, !.steps = 3, !.overflow = TRUE],
  [Large EXCEPT !.loss = "cspd", !.masks = {{}, {2, 3, 4}, {1, 5, 6, 7, 8}}],
  [Static(Large) EXCEPT !.aux = {"kl"}, !.actor = Update(4, 2, 2, "seq-mean-token-mean"),
     !.critic = Update(4, 1, 1, "seq-mean-token-mean"),
     !.masks = {{}, {1, 2}, {3, 4, 5, 6}, 1..8}]}
================================================================================
