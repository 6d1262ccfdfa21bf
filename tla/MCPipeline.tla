------------------------------ MODULE MCPipeline ------------------------------
(* Configurations of the pipeline for TLC.                                 *)
EXTENDS FullyAsyncPipeline

(* Two steps of one sample make a version, so with three required samples  *)
(* the staleness threshold is 1/2.                                         *)
Partial == [
  pending_capacity |-> 6, max_concurrent_samples |-> 2, partial_rollout |-> TRUE,
  max_failures |-> 0, required_samples |-> 1, trigger_steps |-> 2, test_freq |-> 1,
  use_trainer_do_validate |-> FALSE]
Stale == [Partial EXCEPT !.partial_rollout = FALSE, !.required_samples = 2,
                         !.trigger_steps = 1]
(* Three samples make a version: threshold 0.                              *)
OnPolicy == [Stale EXCEPT !.pending_capacity = 2, !.max_failures = 1,
                          !.required_samples = 1, !.trigger_steps = 3,
                          !.test_freq = 2, !.use_trainer_do_validate = TRUE]

MCPassing == {Partial, Stale, OnPolicy}
MCStale == {Stale}
MCInterrupted == {[Partial EXCEPT !.pending_capacity = 4, !.max_concurrent_samples = 3]}
MCFinalValidation == {[Partial EXCEPT !.pending_capacity = 4, !.test_freq = 3,
                                      !.use_trainer_do_validate = TRUE]}
===============================================================================
