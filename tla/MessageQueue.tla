---------------------------- MODULE MessageQueue ----------------------------
(***************************************************************************)
(* The MessageQueue actor of the fully asynchronous policy                 *)
(* (fully_async_policy/message_queue.py): a bounded FIFO that drops its    *)
(* oldest sample when full, consumers that wait on one condition, and an   *)
(* unbounded side queue of validation results.                             *)
(*                                                                         *)
(* Every method body runs under the actor's asyncio lock and suspends only *)
(* in Condition.wait, so one method call is one action, except get_sample, *)
(* which is split where it waits.                                          *)
(***************************************************************************)
EXTENDS Naturals, Sequences

CONSTANTS
  Samples,       \* what put_sample accepts
  Versions,      \* parameter versions
  Results,       \* validation results
  Consumers,     \* callers of get_sample
  None,          \* the None that get_sample returns once closed
  MaxQueueSize,  \* max_queue_size
  MaxProduced,   \* bound: calls of put_sample
  MaxResults     \* bound: validation results queued at once

ASSUME CapacityAssumption == MaxQueueSize \in Nat \ {0}
ASSUME BoundAssumption == MaxProduced \in Nat /\ MaxResults \in Nat
ASSUME NoneAssumption == None \notin Samples
ASSUME VersionAssumption == 0 \in Versions

VARIABLES
  queue,                  \* deque(maxlen = max_queue_size)
  val_queue,              \* deque() of validation results
  running,                \* FALSE once shutdown() was called
  current_param_version,
  total_produced, total_consumed, dropped_samples,
  cleared_samples,        \* history: what clear_queue() discarded (the code
                          \* only logs it)
  call,                   \* where each consumer is in get_sample
  ret                     \* what its last get_sample returned

counters == <<total_produced, total_consumed, dropped_samples, cleared_samples>>
vars == <<queue, val_queue, running, current_param_version, counters, call, ret>>

Init ==
  /\ queue = <<>>
  /\ val_queue = <<>>
  /\ running = TRUE
  /\ current_param_version = 0
  /\ total_produced = 0
  /\ total_consumed = 0
  /\ dropped_samples = 0
  /\ cleared_samples = 0
  /\ call = [c \in Consumers |-> "idle"]
  /\ ret = [c \in Consumers |-> None]

Full == Len(queue) >= MaxQueueSize

(* Mutant: notify() wakes only one of the consumers.                       *)
NotifyOne ==
  LET parked == {c \in Consumers : call[c] = "waiting"} IN
  call' = IF parked = {} THEN call ELSE [call EXCEPT ![CHOOSE c \in parked : TRUE] = "woken"]

(* notify_all(): every consumer parked in Condition.wait becomes runnable. *)
NotifyAll ==
  call' = [c \in Consumers |-> IF call[c] = "waiting" THEN "woken" ELSE call[c]]

(* Mutant: the drop is not counted.                                        *)
PutSampleUncounted(s) ==
  /\ total_produced < MaxProduced
  /\ queue' = Append(IF Full THEN Tail(queue) ELSE queue, s)
  /\ total_produced' = total_produced + 1
  /\ NotifyAll
  /\ UNCHANGED <<val_queue, running, current_param_version, total_consumed,
                 dropped_samples, cleared_samples, ret>>

(* put_sample: a full queue loses its head, the new sample is appended     *)
(* either way; the method then returns ~Full.                              *)
PutSample(s) ==
  /\ total_produced < MaxProduced
  /\ queue' = Append(IF Full THEN Tail(queue) ELSE queue, s)
  /\ dropped_samples' = dropped_samples + (IF Full THEN 1 ELSE 0)
  /\ total_produced' = total_produced + 1
  /\ NotifyAll
  /\ UNCHANGED <<val_queue, running, current_param_version, total_consumed,
                 cleared_samples, ret>>

(* Mutant: pop() instead of popleft().                                     *)
TakeNewest(c) ==
  /\ queue # <<>>
  /\ queue' = SubSeq(queue, 1, Len(queue) - 1)
  /\ total_consumed' = total_consumed + 1
  /\ ret' = [ret EXCEPT ![c] = queue[Len(queue)]]
  /\ call' = [call EXCEPT ![c] = "idle"]

(* Mutant: the head is read and not removed.                               *)
TakeCopy(c) ==
  /\ queue # <<>>
  /\ total_consumed' = total_consumed + 1
  /\ ret' = [ret EXCEPT ![c] = Head(queue)]
  /\ call' = [call EXCEPT ![c] = "idle"]
  /\ UNCHANGED queue

(* The three ways one turn of get_sample's loop ends: with the head of the *)
(* queue, parked on the condition, or with None.                           *)
Take(c) ==
  /\ queue # <<>>
  /\ queue' = Tail(queue)
  /\ total_consumed' = total_consumed + 1
  /\ ret' = [ret EXCEPT ![c] = Head(queue)]
  /\ call' = [call EXCEPT ![c] = "idle"]

Park(c) ==
  /\ queue = <<>>
  /\ running
  /\ call' = [call EXCEPT ![c] = "waiting"]
  /\ UNCHANGED <<queue, total_consumed, ret>>

ReturnNone(c) ==
  /\ queue = <<>>
  /\ ~running
  /\ ret' = [ret EXCEPT ![c] = None]
  /\ call' = [call EXCEPT ![c] = "idle"]
  /\ UNCHANGED <<queue, total_consumed>>

GetBody(c) ==
  /\ Take(c) \/ Park(c) \/ ReturnNone(c)
  /\ UNCHANGED <<val_queue, running, current_param_version, total_produced,
                 dropped_samples, cleared_samples>>

(* get_sample is called; get_sample goes on after Condition.wait.          *)
GetSample(c) == call[c] = "idle" /\ GetBody(c)
GetSampleResumed(c) == call[c] = "woken" /\ GetBody(c)

(* Mutant: the version is counted up instead of being set.                 *)
UpdateParamVersionByOne(v) ==
  /\ current_param_version' = current_param_version + 1
  /\ UNCHANGED <<queue, val_queue, running, counters, call, ret>>

UpdateParamVersion(v) ==
  /\ current_param_version' = v
  /\ UNCHANGED <<queue, val_queue, running, counters, call, ret>>

(* clear_queue: no counter changes and nobody is notified.                 *)
ClearQueue ==
  /\ queue' = <<>>
  /\ cleared_samples' = cleared_samples + Len(queue)
  /\ UNCHANGED <<val_queue, running, current_param_version, total_produced,
                 total_consumed, dropped_samples, call, ret>>

(* Mutant: the waiting consumers are not told.                             *)
ShutdownSilently ==
  /\ running' = FALSE
  /\ UNCHANGED <<queue, val_queue, current_param_version, counters, call, ret>>

Shutdown ==
  /\ running' = FALSE
  /\ NotifyAll
  /\ UNCHANGED <<queue, val_queue, current_param_version, counters, ret>>

PutValidate(r) ==
  /\ Len(val_queue) < MaxResults
  /\ val_queue' = Append(val_queue, r)
  /\ UNCHANGED <<queue, running, current_param_version, counters, call, ret>>

(* get_validate never waits: with nothing queued it returns None.          *)
GetValidate ==
  /\ val_queue # <<>>
  /\ val_queue' = Tail(val_queue)
  /\ UNCHANGED <<queue, running, current_param_version, counters, call, ret>>

Next ==
  \/ \E s \in Samples : PutSample(s)
  \/ \E c \in Consumers : GetSample(c)
  \/ \E c \in Consumers : GetSampleResumed(c)
  \/ \E v \in Versions : UpdateParamVersion(v)
  \/ ClearQueue
  \/ Shutdown
  \/ \E r \in Results : PutValidate(r)
  \/ GetValidate

(* A coroutine woken by notify_all is run by the event loop sooner or      *)
(* later; nobody is obliged to call a method.                              *)
Fairness == \A c \in Consumers : WF_vars(GetSampleResumed(c))

Spec == Init /\ [][Next]_vars /\ Fairness
-----------------------------------------------------------------------------
(* Types and ranges of the actor's fields.                                 *)
TypeOK ==
  /\ queue \in Seq(Samples)
  /\ val_queue \in Seq(Results)
  /\ running \in BOOLEAN
  /\ current_param_version \in Versions
  /\ total_produced \in Nat
  /\ total_consumed \in Nat
  /\ dropped_samples \in Nat
  /\ cleared_samples \in Nat
  /\ call \in [Consumers -> {"idle", "waiting", "woken"}]
  /\ ret \in [Consumers -> Samples \cup {None}]

(* put_sample makes room before it appends, so the queue never holds more  *)
(* than max_queue_size samples: the deque's own maxlen, which would drop   *)
(* the oldest sample without counting it, never acts.                      *)
WithinCapacity == Len(queue) <= MaxQueueSize

(* get_statistics' counters account for every sample: each one put is      *)
(* still queued, was consumed, was dropped by a later put, or was cleared. *)
Accounting ==
  total_produced = total_consumed + dropped_samples + cleared_samples + Len(queue)

(* Both: no sample is lost without being counted.                          *)
QueueAccounted == WithinCapacity /\ Accounting

(* No lost wakeup: a consumer sleeps in Condition.wait only while the      *)
(* queue is open and empty (put_sample and shutdown notify under the lock  *)
(* under which get_sample tested the queue).                               *)
NoLostWakeup ==
  \A c \in Consumers : call[c] = "waiting" => queue = <<>> /\ running

(* A consumer that a sample or a shutdown has woken gets out of get_sample *)
(* or is parked again because another consumer was faster; once the queue  *)
(* is shut down, every consumer gets out.                                  *)
ShutdownReleasesConsumers ==
  \A c \in Consumers : ~running ~> call[c] = "idle"
=============================================================================
