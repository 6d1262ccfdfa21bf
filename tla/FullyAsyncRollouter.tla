------------------------- MODULE FullyAsyncRollouter -------------------------
(***************************************************************************)
(* The FullyAsyncRollouter actor (fully_async_rollouter.py): one event     *)
(* loop on which the feeder, the processor, the monitor loop, the main     *)
(* coroutine, one task per sample being generated, and the remote calls    *)
(* pause / update_param_version / resume are interleaved at their awaits.  *)
(*                                                                         *)
(* The asyncio lock is a FIFO lock with direct hand-off: `lock` is its     *)
(* holder, `waiters` the coroutines queued for it.  `turn` is the          *)
(* coroutine that the event loop is in the middle of: a coroutine keeps    *)
(* the loop until it awaits something that is not ready, so other          *)
(* coroutines of this actor act only when turn = Nobody.  The message      *)
(* queue is another actor and acts at any time.                            *)
(*                                                                         *)
(* A sample is its number 1..TotalSamples in feeding order; 0 stands for   *)
(* the "DONE" mark in pending_queue.                                       *)
(***************************************************************************)
EXTENDS Integers, Sequences, FiniteSets

CONSTANTS
  TotalSamples,      \* total_rollout_steps
  MaxRequired,       \* max_required_samples, which is also max_queue_size
  Setups,            \* configurations: pending_capacity (maxsize of pending_queue),
                     \* max_concurrent_samples, partial_rollout, max_failures (bound:
                     \* generations that raise), and the trainer's
  MaxVersion         \* bound: parameter versions

ASSUME SizeAssumption ==
  /\ TotalSamples \in Nat
  /\ MaxRequired \in Nat \ {0}
  /\ \A s \in Setups :
       /\ s.pending_capacity \in Nat \ {0}
       /\ s.max_concurrent_samples \in 1 .. MaxRequired
       /\ s.partial_rollout \in BOOLEAN
       /\ s.max_failures \in Nat
  /\ MaxVersion \in Nat

Ids == 1 .. TotalSamples
Done == 0
NotStarted == -1
Nobody == "nobody"
Coroutines == {"processor", "monitor", "rpc", "main"}
Versions == 0 .. MaxVersion

(* A finished sample as put_sample gets it; id 0 is the closing None.      *)
Sample == [id : 0 .. TotalSamples, born : Versions, version : Versions]

VARIABLES
  setup,                   \* the configuration, which no step changes
  lock, waiters, turn,
  \* fields of the actor
  current_param_version, staleness_samples, paused, running,
  monitor_loop_trigger, pending_queue, cancel_queue,
  total_generated_samples, dropped_stale_samples,
  \* active_tasks: the unfinished tasks, and the number of finished ones
  \* that are still in the set
  phase,      \* of each sample's task: none, gen, put (generated), sent
  finished,   \* finished tasks not yet taken out of active_tasks
  raised,     \* samples of those among them that ended in an exception
  born,       \* version under which the sample's generation first started
  stamp,      \* version stamped when its generation ended
  failures,
  \* program counters and locals
  fed,        \* feeder: samples put into pending_queue so far; DONE last
  pp, why, hand, reaped,   \* processor
  mp,         \* monitor loop
  mainp,      \* _streaming_generation_main
  rp, rpc_version, rpc_size,   \* remote calls, their argument, len() so far
  server_paused,           \* the rollout servers' pause flag
  \* the message queue actor
  queue, mq_version, mq_produced, mq_consumed, mq_dropped, mq_call, mq_ret,
  mq_val, mq_running, mq_cleared

lockVars == <<lock, waiters, turn>>
taskVars == <<phase, finished, raised, born, stamp, failures>>
procVars == <<pp, why, hand, reaped>>
rpcVars == <<rp, rpc_version, rpc_size, server_paused>>
mqVars == <<queue, mq_version, mq_produced, mq_consumed, mq_dropped, mq_call,
            mq_ret, mq_val, mq_running, mq_cleared>>
countVars == <<total_generated_samples, dropped_stale_samples>>
flagVars == <<current_param_version, staleness_samples, paused, running,
              monitor_loop_trigger>>
sampleQueues == <<pending_queue, cancel_queue, fed>>

rollouterVars == <<lockVars, flagVars, sampleQueues, countVars, taskVars,
                   procVars, mp, mainp, rpcVars, mqVars>>

MQ == INSTANCE MessageQueue WITH
  Samples <- Sample, Results <- Versions, Consumers <- {"trainer"}, None <- "closed",
  MaxQueueSize <- MaxRequired, MaxProduced <- TotalSamples + 1,
  MaxResults <- MaxVersion + 1,
  val_queue <- mq_val, running <- mq_running, cleared_samples <- mq_cleared,
  current_param_version <- mq_version, total_produced <- mq_produced,
  total_consumed <- mq_consumed, dropped_samples <- mq_dropped,
  call <- mq_call, ret <- mq_ret

Init ==
  /\ setup \in Setups
  /\ lock = Nobody /\ waiters = <<>> /\ turn = Nobody
  /\ current_param_version = 0 /\ staleness_samples = 0
  /\ paused = FALSE /\ running = TRUE /\ monitor_loop_trigger = TRUE
  /\ pending_queue = <<>> /\ cancel_queue = <<>> /\ fed = 0
  /\ total_generated_samples = 0 /\ dropped_stale_samples = 0
  /\ phase = [i \in Ids |-> "none"]
  /\ finished = 0 /\ raised = {} /\ failures = 0
  /\ born = [i \in Ids |-> NotStarted] /\ stamp = [i \in Ids |-> 0]
  /\ pp = "check" /\ why = "pause" /\ hand = Done /\ reaped = FALSE
  /\ mp = "top" /\ mainp = "stream"
  /\ rp = "idle" /\ rpc_version = 0 /\ rpc_size = 0 /\ server_paused = FALSE
  /\ queue = <<>> /\ mq_version = 0 /\ mq_produced = 0 /\ mq_consumed = 0
  /\ mq_dropped = 0 /\ mq_cleared = 0 /\ mq_running = TRUE
  /\ mq_call = [c \in {"trainer"} |-> "idle"]
  /\ mq_ret = [c \in {"trainer"} |-> "closed"]
  /\ mq_val = <<0>>   \* left there by the synchronization of version 0
-----------------------------------------------------------------------------
(* The event loop and the lock.                                            *)

MayRun(p) == turn \in {Nobody, p}

(* asyncio.Lock.acquire: immediate when free, otherwise the coroutine      *)
(* suspends in FIFO order.                                                 *)
Acquire(p) ==
  IF lock = Nobody
  THEN lock' = p /\ turn' = p /\ UNCHANGED waiters
  ELSE waiters' = Append(waiters, p) /\ turn' = Nobody /\ UNCHANGED lock

(* asyncio.Lock.release: the longest waiter, if any, owns the lock next.   *)
Release ==
  IF waiters = <<>>
  THEN lock' = Nobody /\ UNCHANGED waiters
  ELSE lock' = Head(waiters) /\ waiters' = Tail(waiters)

Holds(p) == lock = p /\ MayRun(p)

(* The coroutine p goes on without suspending; it suspends.                *)
Stay(p) == turn' = p
Yield == turn' = Nobody

Unfinished == {i \in Ids : phase[i] # "none"}
ActiveTasks == Cardinality(Unfinished) + finished

(* Mutant: whoever unpauses forgets notify_all().                          *)
NotifyAllForgotten == UNCHANGED pp

(* condition.notify_all(): only the processor ever waits on the condition. *)
NotifyAll == pp' = IF pp = "wait resume" THEN "resumed" ELSE pp

(* Mutants: the comparison with max_required_samples is off by one; the    *)
(* staleness count is not looked at.                                       *)
ShouldPauseLate == Len(queue) >= MaxRequired \/ staleness_samples > MaxRequired
ShouldPauseOnFullQueue == Len(queue) >= MaxRequired

(* _should_pause_generation: the queue's size is read by a blocking call.  *)
ShouldPause == Len(queue) >= MaxRequired \/ staleness_samples >= MaxRequired
-----------------------------------------------------------------------------
(* _feed_samples: asyncio.Queue.put suspends only on a full queue, so the  *)
(* feeder runs until pending_queue is full or the DONE mark is in it.      *)
Feed ==
  LET room == setup.pending_capacity - Len(pending_queue)
      left == TotalSamples + 1 - fed
      n == IF room < left THEN room ELSE left
  IN
  /\ turn = Nobody
  /\ n > 0
  /\ pending_queue' = pending_queue \o
       [k \in 1 .. n |-> IF fed + k <= TotalSamples THEN fed + k ELSE Done]
  /\ fed' = fed + n
  /\ UNCHANGED <<lockVars, flagVars, cancel_queue, countVars, taskVars, procVars,
                 mp, mainp, rpcVars, mqVars>>
-----------------------------------------------------------------------------
(* _process_single_sample_streaming, the task of sample i.                 *)

(* Mutant: the sample is stamped with the version of its first start.      *)
TaskGeneratedStampedAtStart(i) ==
  /\ turn = Nobody
  /\ phase[i] = "gen"
  /\ phase' = [phase EXCEPT ![i] = "put"]
  /\ stamp' = [stamp EXCEPT ![i] = born[i]]
  /\ UNCHANGED <<lockVars, flagVars, sampleQueues, countVars, finished, raised,
                 born, failures, procVars, mp, mainp, rpcVars, mqVars>>

(* The generation ends (the sample is stamped with the version of this     *)
(* moment and sent to the queue).                                          *)
TaskGenerated(i) ==
  /\ turn = Nobody
  /\ phase[i] = "gen"
  /\ phase' = [phase EXCEPT ![i] = "put"]
  /\ stamp' = [stamp EXCEPT ![i] = current_param_version]
  /\ UNCHANGED <<lockVars, flagVars, sampleQueues, countVars, finished, raised,
                 born, failures, procVars, mp, mainp, rpcVars, mqVars>>

(* The queue actor accepts the sample; its answer tells whether it was     *)
(* full, and the task counts accordingly when the answer arrives.          *)
TaskPut(i) ==
  /\ phase[i] = "put"
  /\ phase' = [phase EXCEPT ![i] = IF MQ!Full THEN "sent, full" ELSE "sent"]
  /\ MQ!PutSample([id |-> i, born |-> born[i], version |-> stamp[i]])
  /\ UNCHANGED <<lockVars, flagVars, sampleQueues, countVars, finished, raised,
                 born, stamp, failures, procVars, mp, mainp, rpcVars>>

TaskDone(i) ==
  /\ turn = Nobody
  /\ \/ /\ phase[i] = "sent"
        /\ total_generated_samples' = total_generated_samples + 1
        /\ UNCHANGED dropped_stale_samples
     \/ /\ phase[i] = "sent, full"
        /\ dropped_stale_samples' = dropped_stale_samples + 1
        /\ UNCHANGED total_generated_samples
  /\ phase' = [phase EXCEPT ![i] = "none"]
  /\ finished' = finished + 1
  /\ UNCHANGED <<lockVars, flagVars, sampleQueues, raised, born, stamp, failures,
                 procVars, mp, mainp, rpcVars, mqVars>>

(* Mutant: the interrupted sample is kept and its partial output is sent   *)
(* to the queue as well (the `else` of the cancelled branch is missing).   *)
TaskCancelledAndSent(i) ==
  /\ turn = Nobody
  /\ phase[i] = "gen"
  /\ server_paused
  /\ cancel_queue' = Append(cancel_queue, i)
  /\ phase' = [phase EXCEPT ![i] = "put"]
  /\ UNCHANGED <<lockVars, flagVars, pending_queue, fed, countVars, finished, raised,
                 born, stamp, failures, procVars, mp, mainp, rpcVars, mqVars>>

(* The servers are paused in the middle of the generation: the partial     *)
(* output goes to cancel_queue.                                            *)
TaskCancelled(i) ==
  /\ turn = Nobody
  /\ phase[i] = "gen"
  /\ server_paused
  /\ cancel_queue' = Append(cancel_queue, i)
  /\ phase' = [phase EXCEPT ![i] = "none"]
  /\ finished' = finished + 1
  /\ UNCHANGED <<lockVars, flagVars, pending_queue, fed, countVars, raised, born,
                 stamp, failures, procVars, mp, mainp, rpcVars, mqVars>>

(* The generation (agent loop, tool, reward) raises.                       *)
TaskRaises(i) ==
  /\ turn = Nobody
  /\ phase[i] = "gen"
  /\ failures < setup.max_failures
  /\ failures' = failures + 1
  /\ raised' = raised \cup {i}
  /\ phase' = [phase EXCEPT ![i] = "none"]
  /\ finished' = finished + 1
  /\ UNCHANGED <<lockVars, flagVars, sampleQueues, countVars, born, stamp,
                 procVars, mp, mainp, rpcVars, mqVars>>
-----------------------------------------------------------------------------
(* _processor_worker.  `why` tells which of its three identical loops over *)
(* active_tasks it is in: before a pause, before it ends, or because       *)
(* max_concurrent_samples tasks are active.                                *)

ProcessorUnchanged ==
  UNCHANGED <<current_param_version, running, monitor_loop_trigger, fed, countVars,
              stamp, failures, mp, mainp, rpcVars, mqVars>>

ProcessorCheck ==
  /\ pp = "check"
  /\ MayRun("processor")
  /\ IF paused \/ ShouldPause
     THEN /\ pp' = "set paused"
          /\ Acquire("processor")
          /\ UNCHANGED <<cancel_queue, hand>>
     ELSE IF cancel_queue # <<>>
     THEN /\ pp' = "taken"
          /\ Stay("processor")
          /\ hand' = Head(cancel_queue)
          /\ cancel_queue' = Tail(cancel_queue)
          /\ UNCHANGED <<lock, waiters>>
     ELSE /\ pp' = "get"
          /\ IF pending_queue = <<>> THEN Yield ELSE Stay("processor")
          /\ UNCHANGED <<lock, waiters, cancel_queue, hand>>
  /\ UNCHANGED <<staleness_samples, paused, pending_queue, phase, finished, raised,
                 born, why, reaped>>
  /\ ProcessorUnchanged

(* pending_queue.get() returns.                                            *)
ProcessorGet ==
  /\ pp = "get"
  /\ MayRun("processor")
  /\ pending_queue # <<>>
  /\ hand' = Head(pending_queue)
  /\ pending_queue' = Tail(pending_queue)
  /\ staleness_samples' = staleness_samples + 1
  /\ pp' = "taken"
  /\ Stay("processor")
  /\ UNCHANGED <<lock, waiters, paused, cancel_queue, phase, finished, raised,
                 born, why, reaped>>
  /\ ProcessorUnchanged

(* What is in hand decides: DONE, too many active tasks, or submit.        *)
ProcessorTaken ==
  /\ pp = "taken"
  /\ MayRun("processor")
  /\ \/ /\ hand = Done
        /\ pp' = "drain" /\ why' = "done"
     \/ /\ hand # Done
        /\ pp' = "drain" /\ why' = "full"
  /\ Stay("processor")
  /\ UNCHANGED <<lock, waiters, staleness_samples, paused, pending_queue,
                 cancel_queue, phase, finished, raised, born, hand, reaped>>
  /\ ProcessorUnchanged

ProcessorSetPaused ==
  /\ pp = "set paused"
  /\ Holds("processor")
  /\ paused' = TRUE
  /\ Release
  /\ pp' = "drain" /\ why' = "pause"
  /\ Stay("processor")
  /\ UNCHANGED <<staleness_samples, pending_queue, cancel_queue, phase, finished,
                 raised, born, hand, reaped>>
  /\ ProcessorUnchanged

DrainCondition ==
  IF why = "full" THEN ActiveTasks >= setup.max_concurrent_samples ELSE ActiveTasks > 0

(* The head of `while self.active_tasks` / `while len(...) >= max`.        *)
ProcessorDrain ==
  /\ pp = "drain"
  /\ MayRun("processor")
  /\ \/ /\ DrainCondition
        /\ pp' = "reap"
        /\ Acquire("processor")
     \/ /\ ~DrainCondition
        /\ why = "done"
        /\ pp' = "ended"
        /\ Yield
        /\ UNCHANGED <<lock, waiters>>
     \/ /\ ~DrainCondition
        /\ why # "done"
        /\ pp' = IF why = "pause" THEN "wait unpaused" ELSE "submit"
        /\ Acquire("processor")
  /\ UNCHANGED <<staleness_samples, paused, pending_queue, cancel_queue, phase,
                 finished, raised, born, why, hand, reaped>>
  /\ ProcessorUnchanged

(* With the lock: asyncio.wait on what is active, holding the lock.  If    *)
(* pause() emptied active_tasks meanwhile, the loop variable done_tasks is *)
(* the one of an earlier wait, and unbound if there was none.              *)
ProcessorReap ==
  /\ pp = "reap"
  /\ Holds("processor")
  /\ IF ActiveTasks > 0
     THEN /\ pp' = "wait task"
          /\ Yield
          /\ UNCHANGED <<lock, waiters>>
     ELSE /\ pp' = IF reaped THEN "drain" ELSE "dead"
          /\ Release
          /\ IF reaped THEN Stay("processor") ELSE Yield
  /\ UNCHANGED <<staleness_samples, paused, pending_queue, cancel_queue, phase,
                 finished, raised, born, why, hand, reaped>>
  /\ ProcessorUnchanged

(* asyncio.wait(FIRST_COMPLETED) returns; awaiting a task that raised      *)
(* raises in the processor.                                                *)
ProcessorWaited ==
  /\ pp = "wait task"
  /\ Holds("processor")
  /\ finished > 0
  /\ finished' = 0
  /\ raised' = {}
  /\ reaped' = TRUE
  /\ Release
  /\ IF raised = {}
     THEN pp' = "drain" /\ Stay("processor")
     ELSE pp' = "dead" /\ Yield
  /\ UNCHANGED <<staleness_samples, paused, pending_queue, cancel_queue, phase,
                 born, why, hand>>
  /\ ProcessorUnchanged

(* `while self.paused: await self.condition.wait()`, with the lock, before *)
(* the next round (why = "pause") or before a task is created.             *)
ProcessorWaitUnpaused ==
  /\ pp \in {"wait unpaused", "submit"}
  /\ Holds("processor")
  /\ paused
  /\ pp' = "wait resume"
  /\ Release
  /\ Yield
  /\ UNCHANGED <<staleness_samples, paused, pending_queue, cancel_queue, phase,
                 finished, raised, born, why, hand, reaped>>
  /\ ProcessorUnchanged

ProcessorResumed ==
  /\ pp = "resumed"
  /\ MayRun("processor")
  /\ pp' = IF why = "pause" THEN "wait unpaused" ELSE "submit"
  /\ Acquire("processor")
  /\ UNCHANGED <<staleness_samples, paused, pending_queue, cancel_queue, phase,
                 finished, raised, born, why, hand, reaped>>
  /\ ProcessorUnchanged

ProcessorNextRound ==
  /\ pp = "wait unpaused"
  /\ Holds("processor")
  /\ ~paused
  /\ pp' = "check"
  /\ Release
  /\ Stay("processor")
  /\ UNCHANGED <<staleness_samples, paused, pending_queue, cancel_queue, phase,
                 finished, raised, born, why, hand, reaped>>
  /\ ProcessorUnchanged

(* The task is created and starts at once in the order of the event loop:  *)
(* it carries the version of this moment; a resumed sample keeps the       *)
(* version under which it was first started.                               *)
ProcessorSubmit ==
  /\ pp = "submit"
  /\ Holds("processor")
  /\ ~paused
  /\ phase' = [phase EXCEPT ![hand] = "gen"]
  /\ born' = [born EXCEPT ![hand] = IF @ = NotStarted THEN current_param_version ELSE @]
  /\ hand' = Done
  /\ pp' = "check"
  /\ Release
  /\ Stay("processor")
  /\ UNCHANGED <<staleness_samples, paused, pending_queue, cancel_queue, finished,
                 raised, why, reaped>>
  /\ ProcessorUnchanged

Processor ==
  \/ ProcessorCheck \/ ProcessorGet \/ ProcessorTaken \/ ProcessorSetPaused
  \/ ProcessorDrain \/ ProcessorReap \/ ProcessorWaited \/ ProcessorWaitUnpaused
  \/ ProcessorResumed \/ ProcessorNextRound \/ ProcessorSubmit
-----------------------------------------------------------------------------
(* _streaming_generation_main, once the processor has ended or died: the   *)
(* closing None goes through put_sample like any sample, then running is   *)
(* cleared.                                                                *)
MainUnchanged ==
  UNCHANGED <<current_param_version, staleness_samples, paused,
              monitor_loop_trigger, sampleQueues, countVars, taskVars, procVars,
              mp, rpcVars>>

MainPutNone ==
  /\ mainp = "stream"
  /\ pp \in {"ended", "dead"}
  /\ mainp' = "stop"
  /\ MQ!PutSample([id |-> Done, born |-> 0, version |-> current_param_version])
  /\ UNCHANGED <<lockVars, running>>
  /\ MainUnchanged

MainStop ==
  /\ mainp = "stop"
  /\ turn = Nobody
  /\ mainp' = "stopping"
  /\ Acquire("main")
  /\ UNCHANGED <<running, mqVars>>
  /\ MainUnchanged

MainStopped ==
  /\ mainp = "stopping"
  /\ Holds("main")
  /\ running' = FALSE
  /\ mainp' = "stopped"
  /\ Release
  /\ Yield
  /\ UNCHANGED mqVars
  /\ MainUnchanged

Main == MainPutNone \/ MainStop \/ MainStopped
-----------------------------------------------------------------------------
(* _async_monitor_loop *)
MonitorUnchanged ==
  UNCHANGED <<current_param_version, staleness_samples, running,
              monitor_loop_trigger, sampleQueues, countVars, taskVars,
              why, hand, reaped, mainp, rpcVars, mqVars>>

MonitorTop ==
  /\ mp = "top"
  /\ MayRun("monitor")
  /\ mp' = "check running"
  /\ Acquire("monitor")
  /\ UNCHANGED <<paused, pp>>
  /\ MonitorUnchanged

MonitorCheckRunning ==
  /\ mp = "check running"
  /\ Holds("monitor")
  /\ mp' = IF running THEN "sleep" ELSE "ended"
  /\ Release
  /\ Yield
  /\ UNCHANGED <<paused, pp>>
  /\ MonitorUnchanged

(* The sleep ends; the trigger is read here, the lock may be granted later.*)
MonitorTick ==
  /\ mp = "sleep"
  /\ turn = Nobody
  /\ IF monitor_loop_trigger /\ ~ShouldPause
     THEN mp' = "unpause" /\ Acquire("monitor")
     ELSE mp' = "top" /\ Stay("monitor") /\ UNCHANGED <<lock, waiters>>
  /\ UNCHANGED <<paused, pp>>
  /\ MonitorUnchanged

MonitorUnpause ==
  /\ mp = "unpause"
  /\ Holds("monitor")
  /\ paused' = FALSE
  /\ NotifyAll
  /\ Release
  /\ mp' = "top"
  /\ Stay("monitor")
  /\ MonitorUnchanged

Monitor == MonitorTop \/ MonitorCheckRunning \/ MonitorTick \/ MonitorUnpause
-----------------------------------------------------------------------------
(* pause() *)
RpcUnchanged ==
  UNCHANGED <<running, sampleQueues, countVars, phase, born, stamp, failures,
              why, hand, reaped, mp, mainp, rpc_version, mqVars>>

PauseCall ==
  /\ rp = "pause"
  /\ turn = Nobody
  /\ rp' = "pausing"
  /\ Acquire("rpc")
  /\ UNCHANGED <<current_param_version, staleness_samples, paused,
                 monitor_loop_trigger, finished, raised, pp, rpc_size,
                 server_paused>>
  /\ RpcUnchanged

(* With the lock: no new task may start; a partial rollout interrupts the  *)
(* running ones at the servers.                                            *)
Pausing ==
  /\ rp = "pausing"
  /\ Holds("rpc")
  /\ paused' = TRUE
  /\ server_paused' = (server_paused \/ setup.partial_rollout)
  /\ rp' = "gather"
  /\ Yield
  /\ UNCHANGED <<lock, waiters, current_param_version, staleness_samples,
                 monitor_loop_trigger, finished, raised, pp, rpc_size>>
  /\ RpcUnchanged

(* asyncio.gather over active_tasks with return_exceptions=True, then      *)
(* active_tasks.clear(): an exception of a task is discarded with it.      *)
PauseGathered ==
  /\ rp = "gather"
  /\ Holds("rpc")
  /\ Unfinished = {}
  /\ finished' = 0
  /\ raised' = {}
  /\ rp' = "clear kv"
  /\ Yield
  /\ UNCHANGED <<lock, waiters, current_param_version, staleness_samples, paused,
                 monitor_loop_trigger, pp, rpc_size, server_paused>>
  /\ RpcUnchanged

PauseReturns ==
  /\ rp = "clear kv"
  /\ Holds("rpc")
  /\ monitor_loop_trigger' = FALSE
  /\ rp' = "paused"
  /\ Release
  /\ Yield
  /\ UNCHANGED <<current_param_version, staleness_samples, paused, finished,
                 raised, pp, rpc_size, server_paused>>
  /\ RpcUnchanged

(* update_param_version(): the new staleness_samples is a sum whose last   *)
(* term is awaited from the queue actor after the first two were read.     *)
UpdateCall ==
  /\ rp = "update"
  /\ turn = Nobody
  /\ rp' = "updating"
  /\ Acquire("rpc")
  /\ UNCHANGED <<current_param_version, staleness_samples, paused,
                 monitor_loop_trigger, finished, raised, pp, rpc_size,
                 server_paused>>
  /\ RpcUnchanged

Updating ==
  /\ rp = "updating"
  /\ Holds("rpc")
  /\ current_param_version' = rpc_version
  /\ rpc_size' = ActiveTasks + Len(cancel_queue)
  /\ rp' = "queue size"
  /\ Yield
  /\ UNCHANGED <<lock, waiters, staleness_samples, paused, monitor_loop_trigger,
                 finished, raised, pp, server_paused>>
  /\ RpcUnchanged

UpdateQueueSize ==
  /\ rp = "queue size"
  /\ rpc_size' = rpc_size + Len(queue)
  /\ rp' = "reset"
  /\ UNCHANGED <<lockVars, current_param_version, staleness_samples, paused,
                 monitor_loop_trigger, finished, raised, pp, server_paused>>
  /\ RpcUnchanged

UpdateReset ==
  /\ rp = "reset"
  /\ Holds("rpc")
  /\ staleness_samples' = rpc_size
  /\ rpc_size' = 0
  /\ rp' = "put validate"
  /\ Yield
  /\ UNCHANGED <<lock, waiters, current_param_version, paused,
                 monitor_loop_trigger, finished, raised, pp, server_paused>>
  /\ RpcUnchanged

(* The validation result (with or without metrics) goes to the queue actor *)
(* before the lock is given up.                                            *)
UpdatePutValidate ==
  /\ rp = "put validate"
  /\ MQ!PutValidate(rpc_version)
  /\ rp' = "updated"
  /\ UNCHANGED <<lockVars, flagVars, sampleQueues, countVars, taskVars, procVars,
                 mp, mainp, rpc_version, rpc_size, server_paused>>

(* The end of update_param_version() makes resume() run, which got it as a *)
(* dependency.                                                             *)
UpdateReturns ==
  /\ rp = "updated"
  /\ Holds("rpc")
  /\ rp' = "resume"
  /\ Release
  /\ Yield
  /\ UNCHANGED <<current_param_version, staleness_samples, paused,
                 monitor_loop_trigger, finished, raised, pp, rpc_size,
                 server_paused>>
  /\ RpcUnchanged

ResumeCall ==
  /\ rp = "resume"
  /\ turn = Nobody
  /\ rp' = "resuming"
  /\ Acquire("rpc")
  /\ UNCHANGED <<current_param_version, staleness_samples, paused,
                 monitor_loop_trigger, finished, raised, pp, rpc_size,
                 server_paused>>
  /\ RpcUnchanged

ResumeServers ==
  /\ rp = "resuming"
  /\ Holds("rpc")
  /\ server_paused' = FALSE
  /\ rp' = "unpause"
  /\ IF setup.partial_rollout THEN Yield ELSE Stay("rpc")
  /\ UNCHANGED <<lock, waiters, current_param_version, staleness_samples, paused,
                 monitor_loop_trigger, finished, raised, pp, rpc_size>>
  /\ RpcUnchanged

ResumeReturns ==
  /\ rp = "unpause"
  /\ Holds("rpc")
  /\ paused' = FALSE
  /\ monitor_loop_trigger' = TRUE
  /\ NotifyAll
  /\ rp' = "idle"
  /\ Release
  /\ Yield
  /\ UNCHANGED <<current_param_version, staleness_samples, finished, raised,
                 rpc_size, server_paused>>
  /\ RpcUnchanged

Rpc ==
  \/ PauseCall \/ Pausing \/ PauseGathered \/ PauseReturns
  \/ UpdateCall \/ Updating \/ UpdateQueueSize \/ UpdateReset
  \/ UpdatePutValidate \/ UpdateReturns
  \/ ResumeCall \/ ResumeServers \/ ResumeReturns

Task(i) ==
  TaskGenerated(i) \/ TaskPut(i) \/ TaskDone(i) \/ TaskCancelled(i) \/ TaskRaises(i)

RollouterNext ==
  Feed \/ Processor \/ Main \/ Monitor \/ Rpc \/ \E i \in Ids : Task(i)
=============================================================================
