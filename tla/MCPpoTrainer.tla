----------------------------- MODULE MCPpoTrainer ------------------------------
(* Configurations for TLC, and bounded checks of the algorithms that divide    *)
(* rows, over every list of up to five lengths.                                *)
EXTENDS PpoTrainer

Limit(rpm, one, tpm, estimated, concurrent, outcomes, rows) ==
  [max_tokens |-> [k \in Kinds |-> IF k = "rpm" THEN rpm ELSE tpm],
   cost |-> [k \in Kinds |-> IF k = "rpm" THEN one ELSE estimated],
   max_concurrent |-> concurrent, outcomes |-> outcomes,
   process |-> [q \in Requests |-> 1 + (((q - 1) \div rows) % 2)]]   \* rows: of each process
Unlimited == Limit(0, 1, 0, 1, 1, {"scored"}, 4)
Requests60 == Limit(1, 1, 0, 1, 1, {"scored"}, 4)
Requests30 == Limit(1, 2, 0, 1, 1, {"scored"}, 4)
TwoBuckets == Limit(2, 1, 3, 2, 1, {"scored"}, 4)
Failing == Limit(2, 1, 0, 1, 2, {"scored", "timeout"}, 4)
FailingEach == Limit(2, 1, 0, 1, 2, {"scored", "timeout"}, 1)
PairsEach == Limit(1, 1, 0, 1, 1, {"scored"}, 2)
MCLimits == {Unlimited, Requests60, Requests30, TwoBuckets, Failing, FailingEach, PairsEach}

Plain == [mode |-> "colocated", reward |-> "reward_fn", limits |-> Unlimited,
  prompts |-> 3, n |-> 2, lens |-> <<3, 1, 2, 2, 1, 3>>, mesh |-> [dp |-> 2, sp |-> 2],
  agent_workers |-> 3, batches |-> 4, total_training_steps |-> 4, save_freq |-> 2,
  critic_warmup |-> 0, balance_batch |-> TRUE, prefix_grouper |-> FALSE,
  use_dynamic_bsz |-> TRUE, max_token_len |-> 4, max_restarts |-> 2]
Grouped == [Plain EXCEPT !.prompts = 4, !.lens = <<3, 1, 2, 2, 1, 1, 3, 3>>,
  !.agent_workers = 2, !.prefix_grouper = TRUE, !.max_token_len = 3]
Few == [Plain EXCEPT !.prompts = 1, !.n = 3, !.lens = <<2, 1, 3>>,
  !.mesh = [dp |-> 3, sp |-> 1], !.agent_workers = 1, !.batches = 2,
  !.total_training_steps = 1, !.save_freq = 1, !.max_restarts = 1]
TwoWorkers == [Few EXCEPT !.prompts = 2, !.n = 2, !.lens = <<2, 1, 3, 1>>,
  !.mesh = [dp |-> 2, sp |-> 1], !.agent_workers = 2, !.batches = 1, !.reward = "loop",
  !.limits = PairsEach, !.max_restarts = 0]
Async(s) == [s EXCEPT !.mode = "one_step_off"]

MCSetups == {
  Plain, Async(Plain),
  [Grouped EXCEPT !.critic_warmup = 2, !.total_training_steps = 3],
  Async([Grouped EXCEPT !.critic_warmup = 2, !.save_freq = 3]),
  [Plain EXCEPT !.use_dynamic_bsz = FALSE, !.batches = 6, !.total_training_steps = 5,
                !.save_freq = 1],
  Async([Plain EXCEPT !.total_training_steps = 5, !.save_freq = 0, !.balance_batch = FALSE]),
  Async([Few EXCEPT !.reward = "async", !.limits = Requests60, !.max_restarts = 0]),
  [Few EXCEPT !.reward = "async", !.limits = Requests30],
  [Few EXCEPT !.reward = "blocking", !.limits = Failing],
  [Few EXCEPT !.reward = "blocking", !.limits = TwoBuckets, !.max_restarts = 0],
  [Few EXCEPT !.reward = "blocking", !.limits = Requests60, !.total_training_steps = 2,
              !.max_restarts = 0],
  [Few EXCEPT !.n = 2, !.lens = <<2, 1>>, !.mesh = [dp |-> 2, sp |-> 1], !.reward = "loop",
              !.limits = FailingEach, !.agent_workers = 2],
  Async([Few EXCEPT !.reward = "loop", !.limits = Requests60]),
  TwoWorkers}

\* Each of two agent workers has a limiter of its own.
WorkersSetups == {TwoWorkers}

--------------------------------------------------------------------------------
LenLists(n) == [1..n -> 1..3]
Identity(n) == [i \in 1..n |-> i]

\* Every row is in one part, no part is empty, and the sums of two parts differ
\* by at most the work of one row (get_seqlen_balanced_partitions).
ASSUME PartitionsAreBalanced ==
    \A n \in 1..5 : \A lens \in LenLists(n) : \A k \in 1..n :
        LET load == Workloads(lens)
            parts == get_seqlen_balanced_partitions(load, k, FALSE)
            Work(i) == Total(AtIndices(load, parts[i]))
        IN /\ PartitionsPass(parts, n)
           /\ Total([i \in 1..k |-> Len(parts[i])]) = n
           /\ \A i, j \in 1..k : Work(i) - Work(j) <= calculate_workload(3)

\* Asked for parts of one size, it returns them (karmarkar_karp).
ASSUME EqualPartsAreEqual ==
    \A nk \in {<<4, 2>>, <<6, 2>>, <<6, 3>>} : \A lens \in LenLists(nk[1]) :
        LET parts == get_seqlen_balanced_partitions(Workloads(lens), nk[2], TRUE)
        IN /\ PartitionsPass(parts, nk[1])
           /\ \A i \in 1..nk[2] : Len(parts[i]) * nk[2] = nk[1]

\* Padding for any number of agent workers is undone after them (_validate).
ASSUME PaddingIsUndone ==
    \A n \in 1..5, d \in 1..7 :
        LET padded == PadToDivisor(Identity(n), d)
        IN /\ Divides(padded, d)
           /\ Unpad(Concat(Chunk(padded, d)), PadSize(Identity(n), d)) = Identity(n)

\* The docstring of rearrange_micro_batches calls max_token_len the largest sum
\* of a micro-batch; it only determines how many there are.
ASSUME MaxTokenLenIsExceeded ==
    LET lens == <<3, 3, 3>>
        batches == MicroBatches(lens, MicroBatchesWanted(lens, 5))
    IN \E m \in DOMAIN batches : Total(AtIndices(lens, batches[m])) > 5
================================================================================
