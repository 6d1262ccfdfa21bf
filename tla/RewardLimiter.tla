----------------------------- MODULE RewardLimiter -----------------------------
(* The rate-limited reward manager: AsyncTokenBucket and the coroutine         *)
(* run_single of RateLimitedRewardManager (reward_manager/limited.py), one per *)
(* row to score.  A row passes the bucket of requests, the bucket of tokens    *)
(* and the semaphore, and is then scored by a call that may time out or fail.  *)
(*                                                                             *)
(* Time is counted in ticks in which a bucket gains one unit, so a wait is the *)
(* number of units missing.  No await lies inside the lock of a bucket: one    *)
(* round of acquire() is one action, and sleeping is outside it.               *)
(*                                                                             *)
(* Buckets and semaphore are attributes of the class: there is one of each in  *)
(* every process that scores rows, whatever the documentation says.            *)
EXTENDS Integers, FiniteSets

CONSTANTS
    Requests,   \* the rows to score
    Processes,  \* the processes that score rows
    Limits,     \* the configurations: units a bucket holds (0: no such limit),
                \* units one row costs, calls at a time, ways a call may end, and
                \* which process scores which row
    MaxTime     \* bound of the clock

Kinds == {"rpm", "tpm"}
Buckets == Processes \X Kinds
Outcomes == {"scored", "timeout", "error"}
NoTime == -1

ASSUME LimiterAssumption ==
    /\ IsFiniteSet(Requests)
    /\ MaxTime \in Nat
    /\ Limits \subseteq [max_tokens : [Kinds -> Nat], cost : [Kinds -> Nat \ {0}],
                         max_concurrent : Nat \ {0}, outcomes : SUBSET Outcomes,
                         process : [Requests -> Processes]]

VARIABLES
    limits,       \* the configuration
    now,          \* the event loops' clock
    tokens,       \* units in each bucket; negative after an oversized request
    last_update,  \* when tokens was last refilled
    at,           \* what each row waits for
    wake,         \* when its sleep ends
    paid,         \* it sleeps off units already taken (oversized request)
    granted,      \* when each row passed each bucket (history)
    outcome       \* how its call ended

limiterVars == <<limits, now, tokens, last_update, at, wake, paid, granted, outcome>>
bucketVars == <<tokens, last_update>>

FullBuckets(l) == [b \in Buckets |-> l.max_tokens[b[2]]]

NobodyWaits ==
    /\ at = [q \in Requests |-> "idle"]
    /\ wake = [q \in Requests |-> 0]
    /\ paid = [q \in Requests |-> FALSE]
    /\ granted = [q \in Requests |-> [b \in Buckets |-> NoTime]]
    /\ outcome = [q \in Requests |-> "none"]

LimiterInit(l) ==
    /\ limits = l
    /\ now = 0
    /\ tokens = FullBuckets(l)
    /\ last_update = [b \in Buckets |-> NoTime]
    /\ NobodyWaits

Least(x, y) == IF x <= y THEN x ELSE y
Greatest(x, y) == IF x >= y THEN x ELSE y

\* A bucket is named by its process and its kind.
MaxTokens(b) == limits.max_tokens[b[2]]
Cost(b) == limits.cost[b[2]]
Place(q) == <<limits.process[q], at[q]>>

Enabled(b) == MaxTokens(b) > 0
Oversized(b) == Cost(b) > MaxTokens(b)
Elapsed(b) == IF last_update[b] = NoTime THEN 0 ELSE now - last_update[b]
Refilled(b) == Least(MaxTokens(b), tokens[b] + Elapsed(b))
Following(b) == IF b[2] = "rpm" THEN "tpm" ELSE "semaphore"

Submit(Q) ==
    /\ \A q \in Q : at[q] = "idle"
    /\ at' = [q \in Requests |-> IF q \in Q THEN "rpm" ELSE at[q]]
    /\ wake' = [q \in Requests |-> IF q \in Q THEN now ELSE wake[q]]
    /\ UNCHANGED <<limits, now, bucketVars, paid, granted, outcome>>

Pass(q, b) ==
    /\ at' = [at EXCEPT ![q] = Following(b)]
    /\ paid' = [paid EXCEPT ![q] = FALSE]
    /\ wake' = [wake EXCEPT ![q] = IF Following(b) \in Kinds THEN now ELSE 0]

Sleep(q, b, missing, debt) ==
    /\ wake' = [wake EXCEPT ![q] = now + missing]
    /\ paid' = [paid EXCEPT ![q] = debt]
    /\ UNCHANGED <<at, granted>>

PassUnlimited(q, b) ==
    /\ Place(q) = b
    /\ ~Enabled(b)
    /\ Pass(q, b)
    /\ UNCHANGED <<limits, now, bucketVars, granted, outcome>>

\* Mutant: the time of the refill is not kept, and counts again.
RefillKeepingTime(b, taken) ==
    /\ tokens' = [tokens EXCEPT ![b] = Refilled(b) - taken]
    /\ last_update' = [last_update EXCEPT ![b] = IF @ = NoTime THEN now ELSE @]

Refill(b, taken) ==
    /\ tokens' = [tokens EXCEPT ![b] = Refilled(b) - taken]
    /\ last_update' = [last_update EXCEPT ![b] = now]

Ready(q, b) ==
    /\ Place(q) = b
    /\ Enabled(b)
    /\ wake[q] <= now
    /\ ~paid[q]

Grant(q, b) ==
    /\ Pass(q, b)
    /\ granted' = [granted EXCEPT ![q][b] = now]

\* A round of the loop of acquire(): refill, and take the units or sleep as long
\* as the missing ones take to come.
Acquire(q, b) ==
    /\ Ready(q, b)
    /\ ~Oversized(b)
    /\ IF Refilled(b) >= Cost(b)
         THEN Refill(b, Cost(b)) /\ Grant(q, b)
         ELSE Refill(b, 0) /\ Sleep(q, b, Cost(b) - Refilled(b), FALSE)
    /\ UNCHANGED <<limits, now, outcome>>

\* A request larger than the bucket takes its units at once, leaving a debt, and
\* then sleeps it off.
AcquireOversized(q, b) ==
    /\ Ready(q, b)
    /\ Oversized(b)
    /\ Refill(b, Cost(b))
    /\ Sleep(q, b, Cost(b) - Refilled(b), TRUE)
    /\ UNCHANGED <<limits, now, outcome>>

DebtSleptOff(q, b) ==
    /\ Place(q) = b
    /\ paid[q]
    /\ wake[q] <= now
    /\ Grant(q, b)
    /\ UNCHANGED <<limits, now, bucketVars, outcome>>

Calling(p) == {q \in Requests : Place(q) = <<p, "calling">>}

StartCall(q) ==
    /\ at[q] = "semaphore"
    /\ Cardinality(Calling(limits.process[q])) < limits.max_concurrent
    /\ at' = [at EXCEPT ![q] = "calling"]
    /\ UNCHANGED <<limits, now, bucketVars, wake, paid, granted, outcome>>

\* The call answers, exceeds its timeout, or raises: the last two score 0.0.
EndCall(q) ==
    /\ at[q] = "calling"
    /\ at' = [at EXCEPT ![q] = "done"]
    /\ \E o \in limits.outcomes : outcome' = [outcome EXCEPT ![q] = o]
    /\ UNCHANGED <<limits, now, bucketVars, wake, paid, granted>>

\* Who sleeps off a debt is resumed in the tick its time comes, any other waiter
\* at the latest in the next one: the event loop is not kept from its timers.
TimersServed ==
    \A q \in Requests : at[q] \in Kinds => wake[q] >= IF paid[q] THEN now + 1 ELSE now

Tick ==
    /\ now < MaxTime
    /\ \E q \in Requests : at[q] \in Kinds
    /\ TimersServed
    /\ now' = now + 1
    /\ UNCHANGED <<limits, bucketVars, at, wake, paid, granted, outcome>>

Scored(Q) == \A q \in Q : at[q] = "done"

\* The results are taken.  The buckets belong to the class: they stay with the
\* processes, or start full in new ones, with their clock.
ReleaseRequests(new_process) ==
    /\ at' = [q \in Requests |-> "idle"]
    /\ wake' = [q \in Requests |-> 0]
    /\ paid' = [q \in Requests |-> FALSE]
    /\ granted' = [q \in Requests |-> [b \in Buckets |-> NoTime]]
    /\ outcome' = [q \in Requests |-> "none"]
    /\ IF new_process
         THEN /\ now' = 0
              /\ tokens' = FullBuckets(limits)
              /\ last_update' = [b \in Buckets |-> NoTime]
         ELSE UNCHANGED <<now, bucketVars>>
    /\ UNCHANGED limits

LimiterStep ==
    \/ \E q \in Requests, b \in Buckets :
          \/ PassUnlimited(q, b)
          \/ Acquire(q, b)
          \/ AcquireOversized(q, b)
          \/ DebtSleptOff(q, b)
    \/ \E q \in Requests : StartCall(q) \/ EndCall(q)
    \/ Tick

LimiterNext ==
    \/ LimiterStep
    \/ \E Q \in SUBSET Requests : Submit(Q)
    \/ \E new_process \in BOOLEAN : ReleaseRequests(new_process)

LimiterSpec == (\E l \in Limits : LimiterInit(l)) /\ [][LimiterNext]_limiterVars

--------------------------------------------------------------------------------
\* What the manager's docstring promises of max_rpm and max_tpm, for the rows of
\* one process, with the slack the bucket gives: in no interval do the rows let
\* through cost more than what the bucket holds (or one row, when a row is larger
\* than the bucket) and what the interval refills.  Waiters sleep outside the
\* lock, so several of them wake for the same units.
PassedBetween(b, s, t) == {q \in Requests : granted[q][b] >= s /\ granted[q][b] <= t}
RateBounded ==
    \A b \in Buckets : Enabled(b) =>
        \A s \in 0..now : \A t \in s..now :
            Cost(b) * Cardinality(PassedBetween(b, s, t))
                <= Greatest(MaxTokens(b), Cost(b)) + (t - s)

\* The same of all processes together: "rate limits are enforced consistently
\* across multiple workers in distributed training" (limited.py).  Expected to be
\* violated where several processes score rows.
RateBoundedAcrossWorkers ==
    \A k \in Kinds : limits.max_tokens[k] > 0 =>
        \A s \in 0..now : \A t \in s..now :
            limits.cost[k] * Cardinality(UNION {PassedBetween(<<p, k>>, s, t) : p \in Processes})
                <= Greatest(limits.max_tokens[k], limits.cost[k]) + (t - s)
================================================================================
