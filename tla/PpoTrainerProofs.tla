---------------------------- MODULE PpoTrainerProofs ---------------------------
(* Proofs about the training loops, for any configurations, numbers of batches *)
(* and steps, crashes and checkpoints; first those about the rate limiter they *)
(* use, for any numbers of rows, capacities and costs.                         *)
EXTENDS PpoTrainer, DataLemmas

--------------------------------------------------------------------------------
(* Proof that the token buckets keep the rates, for any number of rows, any    *)
(* capacities and costs, and whatever the order in which waiters are resumed.  *)
(*                                                                             *)
(* A bucket that has been refilled up to now will have been empty at           *)
(* EmptyAt(b), a time that never goes back: waiting leaves it alone or, when   *)
(* the bucket is full, moves it on, and a row that takes its units moves it by *)
(* their number.  A row claims the moment at which it is let through: now, or, *)
(* if it is larger than the bucket, the moment at which the bucket is even     *)
(* again.                                                                      *)

Slack(b) == Greatest(MaxTokens(b), Cost(b))
EmptyAt(b) == now - Refilled(b)

\* The rows whose moment at bucket b lies after s, or from s to t.
ClaimsFrom(b, s) ==
    {q \in Requests : \/ granted[q][b] >= s
                      \/ Place(q) = b /\ paid[q] /\ wake[q] >= s}
ClaimsBetween(b, s, t) ==
    {q \in Requests : \/ granted[q][b] >= s /\ granted[q][b] <= t
                      \/ Place(q) = b /\ paid[q] /\ wake[q] >= s /\ wake[q] <= t}

Places == {"idle", "rpm", "tpm", "semaphore", "calling", "done"}
LimiterTypeOK ==
    /\ limits \in Limits
    /\ now \in Nat
    /\ tokens \in [Buckets -> Int]
    /\ last_update \in [Buckets -> Int]
    /\ at \in [Requests -> Places]
    /\ wake \in [Requests -> Int]
    /\ paid \in [Requests -> BOOLEAN]
    /\ granted \in [Requests -> [Buckets -> Int]]
    /\ limits.process \in [Requests -> Processes]

\* Nothing happens in the future, and no bucket holds more than it can; only one
\* whose requests are oversized has debts.
BucketsInv ==
    \A b \in Buckets :
        /\ last_update[b] <= now
        /\ tokens[b] <= MaxTokens(b)
        /\ ~Oversized(b) => tokens[b] >= 0

\* Who sleeps off a debt is resumed on time.
DebtInv ==
    \A q \in Requests : paid[q] =>
        /\ Place(q) \in Buckets
        /\ Oversized(Place(q))
        /\ wake[q] >= now

FromInv(b) ==
    \A s \in Nat : \/ ClaimsFrom(b, s) = {}
                   \/ Cost(b) * Cardinality(ClaimsFrom(b, s)) <= Slack(b) + (EmptyAt(b) - s)
BetweenInv(b) ==
    \A s, t \in Nat :
        s <= t => Cost(b) * Cardinality(ClaimsBetween(b, s, t)) <= Slack(b) + (t - s)
ClaimsInv == \A b \in Buckets : Enabled(b) => FromInv(b) /\ BetweenInv(b)

LimiterInv == LimiterTypeOK /\ BucketsInv /\ DebtInv /\ ClaimsInv

--------------------------------------------------------------------------------
(* Facts about a bucket.                                                       *)

\* What a configuration is.
LEMMA LimitTypes ==
    ASSUME limits \in Limits, NEW b \in Buckets
    PROVE  /\ MaxTokens(b) \in Nat
           /\ Cost(b) \in Nat \ {0}
  BY LimiterAssumption DEF Buckets, MaxTokens, Cost

\* What a bucket holds is a number, not more than its capacity.
LEMMA RefilledType ==
    ASSUME LimiterTypeOK, NEW b \in Buckets
    PROVE  /\ Refilled(b) \in Int
           /\ Refilled(b) <= MaxTokens(b)
           /\ EmptyAt(b) \in Int
           /\ Slack(b) \in Nat
           /\ Slack(b) >= Cost(b)
           /\ Slack(b) >= MaxTokens(b)
  BY LimitTypes DEF LimiterTypeOK, Refilled, Elapsed, NoTime, Least, Greatest, EmptyAt, Slack,
     Cost, MaxTokens

\* Sets of rows are finite.
LEMMA ClaimsFinite ==
    ASSUME NEW S \in SUBSET Requests
    PROVE  IsFiniteSet(S) /\ Cardinality(S) \in Nat
  BY LimiterAssumption, FS_Subset, FS_CardinalityType

\* One row more costs at most one row's units more.
LEMMA OneMore ==
    ASSUME NEW A \in SUBSET Requests, NEW B \in SUBSET Requests, NEW q \in Requests,
           B \subseteq A \union {q}, NEW c \in Nat
    PROVE  c * Cardinality(B) <= c * Cardinality(A) + c
<1>1. IsFiniteSet(A) /\ Cardinality(A) \in Nat /\ Cardinality(B) \in Nat
  BY ClaimsFinite
<1>2. IsFiniteSet(A \union {q}) /\ Cardinality(A \union {q}) <= Cardinality(A) + 1
  BY <1>1, FS_AddElement
<1>3. Cardinality(B) <= Cardinality(A) + 1
  BY <1>1, <1>2, FS_Subset, FS_CardinalityType
<1>4. \A x, y \in Nat : x <= y + 1 => c * x <= c * y + c
  OBVIOUS
<1> QED
  BY <1>1, <1>3, <1>4

\* Fewer rows cost less.
LEMMA NoMore ==
    ASSUME NEW A \in SUBSET Requests, NEW B \in SUBSET Requests, B \subseteq A, NEW c \in Nat
    PROVE  c * Cardinality(B) <= c * Cardinality(A)
<1>1. IsFiniteSet(A) /\ Cardinality(A) \in Nat /\ Cardinality(B) \in Nat
  BY ClaimsFinite
<1>2. Cardinality(B) <= Cardinality(A)
  BY <1>1, FS_Subset
<1>3. \A x, y \in Nat : x <= y => c * x <= c * y
  OBVIOUS
<1> QED
  BY <1>1, <1>2, <1>3

--------------------------------------------------------------------------------
(* Three kinds of steps, seen from one bucket.                                 *)

\* Nobody claims anything new, and the bucket is no fuller than time allows.
LEMMA QuietStep ==
    ASSUME LimiterTypeOK, LimiterTypeOK', NEW b \in Buckets, FromInv(b), BetweenInv(b),
           limits' = limits,
           EmptyAt(b)' >= EmptyAt(b),
           \A s \in Nat : ClaimsFrom(b, s)' \subseteq ClaimsFrom(b, s),
           \A s, t \in Nat : ClaimsBetween(b, s, t)' \subseteq ClaimsBetween(b, s, t)
    PROVE  FromInv(b)' /\ BetweenInv(b)'
<1> DEFINE c == Cost(b)
<1>1. /\ c \in Nat /\ Cost(b)' = c
      /\ Slack(b) \in Nat /\ Slack(b)' = Slack(b)
      /\ EmptyAt(b) \in Int /\ EmptyAt(b)' \in Int
  BY LimitTypes, RefilledType DEF LimiterTypeOK, Cost, MaxTokens, Slack, EmptyAt, Refilled,
     Elapsed, Least
<1>2. ASSUME NEW s \in Nat, ClaimsFrom(b, s)' # {}
      PROVE  c * Cardinality(ClaimsFrom(b, s)') <= Slack(b) + (EmptyAt(b)' - s)
  <2>1. ClaimsFrom(b, s) # {} /\ ClaimsFrom(b, s) \in SUBSET Requests
    BY <1>2 DEF ClaimsFrom, Place
  <2>2. c * Cardinality(ClaimsFrom(b, s)) <= Slack(b) + (EmptyAt(b) - s)
    BY <2>1 DEF FromInv
  <2>3. c * Cardinality(ClaimsFrom(b, s)') <= c * Cardinality(ClaimsFrom(b, s))
    BY <1>1, <2>1, NoMore
  <2>4. /\ c * Cardinality(ClaimsFrom(b, s)') \in Int
        /\ c * Cardinality(ClaimsFrom(b, s)) \in Int
    BY <1>1, <2>1, ClaimsFinite
  <2> HIDE DEF c
  <2> QED
    BY <1>1, <2>2, <2>3, <2>4
<1>3. ASSUME NEW s \in Nat, NEW t \in Nat, s <= t
      PROVE  c * Cardinality(ClaimsBetween(b, s, t)') <= Slack(b) + (t - s)
  <2>1. ClaimsBetween(b, s, t) \in SUBSET Requests
    BY DEF ClaimsBetween, Place
  <2>2. c * Cardinality(ClaimsBetween(b, s, t)) <= Slack(b) + (t - s)
    BY <1>3 DEF BetweenInv
  <2>3. c * Cardinality(ClaimsBetween(b, s, t)') <= c * Cardinality(ClaimsBetween(b, s, t))
    BY <1>1, <2>1, NoMore
  <2>4. /\ c * Cardinality(ClaimsBetween(b, s, t)') \in Int
        /\ c * Cardinality(ClaimsBetween(b, s, t)) \in Int
    BY <1>1, <2>1, ClaimsFinite
  <2> HIDE DEF c
  <2> QED
    BY <1>1, <2>2, <2>3, <2>4
<1> QED
  BY <1>1, <1>2, <1>3 DEF FromInv, BetweenInv

\* Row q claims the moment T, and takes its units.
LEMMA ClaimStep ==
    ASSUME LimiterTypeOK, LimiterTypeOK', NEW b \in Buckets, FromInv(b), BetweenInv(b),
           limits' = limits,
           NEW q \in Requests, NEW T \in Nat,
           EmptyAt(b)' = EmptyAt(b) + Cost(b),
           EmptyAt(b)' <= T,
           Cost(b) + T <= Slack(b) + EmptyAt(b)',
           \A s \in Nat : ClaimsFrom(b, s)' \subseteq
               ClaimsFrom(b, s) \union (IF s <= T THEN {q} ELSE {}),
           \A s, t \in Nat : ClaimsBetween(b, s, t)' \subseteq
               ClaimsBetween(b, s, t) \union (IF s <= T /\ T <= t THEN {q} ELSE {}),
           \A s, t \in Nat : ClaimsBetween(b, s, t)' \subseteq ClaimsFrom(b, s)'
    PROVE  FromInv(b)' /\ BetweenInv(b)'
<1> DEFINE c == Cost(b)
<1>1. /\ c \in Nat /\ Cost(b)' = c
      /\ Slack(b) \in Nat /\ Slack(b)' = Slack(b)
      /\ EmptyAt(b) \in Int /\ EmptyAt(b)' \in Int
  BY LimitTypes, RefilledType DEF LimiterTypeOK, Cost, MaxTokens, Slack, EmptyAt, Refilled,
     Elapsed, Least
<1>a. /\ \A s \in Nat : /\ ClaimsFrom(b, s) \in SUBSET Requests
                        /\ ClaimsFrom(b, s)' \in SUBSET Requests
                        /\ c * Cardinality(ClaimsFrom(b, s)) \in Int
                        /\ c * Cardinality(ClaimsFrom(b, s)') \in Int
  <2>1. \A s \in Nat : /\ ClaimsFrom(b, s) \in SUBSET Requests
                       /\ ClaimsFrom(b, s)' \in SUBSET Requests
    BY DEF ClaimsFrom, Place
  <2>2. \A s \in Nat : /\ Cardinality(ClaimsFrom(b, s)) \in Nat
                       /\ Cardinality(ClaimsFrom(b, s)') \in Nat
    BY <2>1, ClaimsFinite
  <2>3. \A n \in Nat : c * n \in Int
    BY <1>1
  <2> HIDE DEF c
  <2> QED
    BY <2>1, <2>2, <2>3
<1>b. \A s, t \in Nat : /\ ClaimsBetween(b, s, t) \in SUBSET Requests
                        /\ ClaimsBetween(b, s, t)' \in SUBSET Requests
                        /\ c * Cardinality(ClaimsBetween(b, s, t)) \in Int
                        /\ c * Cardinality(ClaimsBetween(b, s, t)') \in Int
  <2>1. \A s, t \in Nat : /\ ClaimsBetween(b, s, t) \in SUBSET Requests
                          /\ ClaimsBetween(b, s, t)' \in SUBSET Requests
    BY DEF ClaimsBetween, Place
  <2>2. \A s, t \in Nat : /\ Cardinality(ClaimsBetween(b, s, t)) \in Nat
                          /\ Cardinality(ClaimsBetween(b, s, t)') \in Nat
    BY <2>1, ClaimsFinite
  <2>3. \A n \in Nat : c * n \in Int
    BY <1>1
  <2> HIDE DEF c
  <2> QED
    BY <2>1, <2>2, <2>3
<1>2. ASSUME NEW s \in Nat, ClaimsFrom(b, s)' # {}
      PROVE  c * Cardinality(ClaimsFrom(b, s)') <= Slack(b) + (EmptyAt(b)' - s)
  <2>1. CASE ClaimsFrom(b, s) # {}
    <3>1. c * Cardinality(ClaimsFrom(b, s)) <= Slack(b) + (EmptyAt(b) - s)
      BY <2>1 DEF FromInv
    <3>2. c * Cardinality(ClaimsFrom(b, s)') <= c * Cardinality(ClaimsFrom(b, s)) + c
      <4>1. ClaimsFrom(b, s)' \subseteq ClaimsFrom(b, s) \union {q}
        OBVIOUS
      <4> QED
        BY <1>1, <1>a, <4>1, OneMore
    <3>3. EmptyAt(b)' = EmptyAt(b) + c
      OBVIOUS
    <3> HIDE DEF c
    <3> QED
      BY <1>1, <1>a, <3>1, <3>2, <3>3
  <2>2. CASE ClaimsFrom(b, s) = {}
    <3>1. s <= T /\ ClaimsFrom(b, s)' = {q}
      BY <1>2, <2>2
    <3>2. Cardinality(ClaimsFrom(b, s)') = 1
      BY <3>1, FS_Singleton
    <3>3. c + T <= Slack(b) + EmptyAt(b)'
      OBVIOUS
    <3> HIDE DEF c
    <3> QED
      BY <1>1, <3>1, <3>2, <3>3
  <2> QED
    BY <2>1, <2>2
<1>3. ASSUME NEW s \in Nat, NEW t \in Nat, s <= t
      PROVE  c * Cardinality(ClaimsBetween(b, s, t)') <= Slack(b) + (t - s)
  <2>1. CASE T <= t /\ ClaimsFrom(b, s)' # {}
    <3>1. c * Cardinality(ClaimsBetween(b, s, t)') <= c * Cardinality(ClaimsFrom(b, s)')
      BY <1>1, <1>a, <1>b, NoMore
    <3>2. c * Cardinality(ClaimsFrom(b, s)') <= Slack(b) + (EmptyAt(b)' - s)
      BY <1>2, <2>1
    <3> HIDE DEF c
    <3> QED
      BY <1>1, <1>a, <1>b, <2>1, <3>1, <3>2
  <2>2. CASE ClaimsFrom(b, s)' = {}
    <3>1. Cardinality(ClaimsBetween(b, s, t)') = 0
      <4>1. ClaimsBetween(b, s, t)' = {}
        BY <2>2
      <4> QED
        BY <4>1, FS_EmptySet
    <3> HIDE DEF c
    <3> QED
      BY <1>1, <1>3, <3>1
  <2>3. CASE ~(T <= t)
    <3>1. ClaimsBetween(b, s, t)' \subseteq ClaimsBetween(b, s, t)
      BY <2>3
    <3>2. c * Cardinality(ClaimsBetween(b, s, t)') <= c * Cardinality(ClaimsBetween(b, s, t))
      BY <1>1, <1>b, <3>1, NoMore
    <3>3. c * Cardinality(ClaimsBetween(b, s, t)) <= Slack(b) + (t - s)
      BY <1>3 DEF BetweenInv
    <3> HIDE DEF c
    <3> QED
      BY <1>1, <1>b, <3>2, <3>3
  <2> QED
    BY <2>1, <2>2, <2>3
<1> QED
  BY <1>1, <1>2, <1>3 DEF FromInv, BetweenInv

\* Nobody claims anything at all.
LEMMA NoClaims ==
    ASSUME LimiterTypeOK, NEW b \in Buckets,
           \A s \in Nat : ClaimsFrom(b, s) = {},
           \A s, t \in Nat : ClaimsBetween(b, s, t) = {}
    PROVE  FromInv(b) /\ BetweenInv(b)
<1>1. Cardinality({}) = 0
  BY FS_EmptySet
<1>2. Cost(b) \in Nat /\ Slack(b) \in Nat
  BY LimitTypes, RefilledType DEF LimiterTypeOK, Cost
<1>3. FromInv(b)
  BY DEF FromInv
<1>4. ASSUME NEW s \in Nat, NEW t \in Nat, s <= t
      PROVE  Cost(b) * Cardinality(ClaimsBetween(b, s, t)) <= Slack(b) + (t - s)
  <2>1. Cardinality(ClaimsBetween(b, s, t)) = 0
    BY <1>1
  <2> QED
    BY <1>2, <1>4, <2>1
<1> QED
  BY <1>3, <1>4 DEF BetweenInv

--------------------------------------------------------------------------------
(* The actions.                                                                *)

\* Refilling a bucket and taking units from it leaves that much less in it, and
\* the other bucket alone.
LEMMA RefillEffect ==
    ASSUME LimiterTypeOK, NEW b \in Buckets, NEW taken \in Nat, Refill(b, taken),
           limits' = limits, now' = now
    PROVE  /\ Refilled(b)' = Refilled(b) - taken
           /\ tokens'[b] = Refilled(b) - taken /\ last_update'[b] = now
           /\ \A a \in Buckets \ {b} : /\ Refilled(a)' = Refilled(a)
                                       /\ tokens'[a] = tokens[a]
                                       /\ last_update'[a] = last_update[a]
           /\ tokens' \in [Buckets -> Int] /\ last_update' \in [Buckets -> Int]
<1>1. Refilled(b) \in Int /\ Refilled(b) <= MaxTokens(b) /\ MaxTokens(b) \in Nat
  BY RefilledType, LimitTypes DEF LimiterTypeOK
<1>2. /\ tokens'[b] = Refilled(b) - taken /\ last_update'[b] = now
      /\ \A a \in Buckets \ {b} : tokens'[a] = tokens[a] /\ last_update'[a] = last_update[a]
      /\ tokens' \in [Buckets -> Int] /\ last_update' \in [Buckets -> Int]
  BY <1>1 DEF Refill, LimiterTypeOK
<1>3. Refilled(b)' = Least(MaxTokens(b), Refilled(b) - taken)
  BY <1>1, <1>2 DEF Refilled, Elapsed, LimiterTypeOK, MaxTokens, Cost
<1>4. Refilled(b)' = Refilled(b) - taken
  BY <1>1, <1>3 DEF Least
<1>5. \A a \in Buckets \ {b} : Refilled(a)' = Refilled(a)
  BY <1>2 DEF Refilled, Elapsed, MaxTokens, Cost
<1> QED
  BY <1>2, <1>4, <1>5

\* A bucket that is left alone is not emptier than it was.
LEMMA BucketLeftAlone ==
    ASSUME LimiterTypeOK, NEW b \in Buckets, UNCHANGED <<limits, now>>,
           tokens'[b] = tokens[b], last_update'[b] = last_update[b]
    PROVE  EmptyAt(b)' >= EmptyAt(b)
<1>1. EmptyAt(b)' = EmptyAt(b)
  BY DEF EmptyAt, Refilled, Elapsed, MaxTokens, Cost
<1> QED
  BY <1>1, RefilledType

\* A step that changes no bucket and no clock, lets no row through and lets
\* nobody sleep off a debt who did not do so before.
LEMMA QuietInv ==
    ASSUME LimiterInv, LimiterTypeOK', DebtInv',
           UNCHANGED <<limits, now, bucketVars, granted>>,
           \A q \in Requests : paid'[q] => paid[q] /\ at'[q] = at[q] /\ wake'[q] = wake[q]
    PROVE  LimiterInv'
<1>1. BucketsInv'
  BY DEF LimiterInv, BucketsInv, bucketVars, Oversized, Cost, MaxTokens, Place
<1>2. ASSUME NEW b \in Buckets, Enabled(b)'
      PROVE  FromInv(b)' /\ BetweenInv(b)'
  <2>1. FromInv(b) /\ BetweenInv(b)
    BY <1>2 DEF LimiterInv, ClaimsInv, Enabled, MaxTokens
  <2>2. \A s \in Nat : ClaimsFrom(b, s)' \subseteq ClaimsFrom(b, s)
    BY DEF ClaimsFrom, Place
  <2>3. \A s, t \in Nat : ClaimsBetween(b, s, t)' \subseteq ClaimsBetween(b, s, t)
    BY DEF ClaimsBetween, Place
  <2>4. EmptyAt(b)' >= EmptyAt(b)
    BY BucketLeftAlone DEF LimiterInv, bucketVars
  <2> QED
    BY <2>1, <2>2, <2>3, <2>4, QuietStep DEF LimiterInv
<1> QED
  BY <1>1, <1>2 DEF LimiterInv, ClaimsInv

\* Rows arrive.
LEMMA SubmitInv ==
    ASSUME LimiterInv, NEW Q \in SUBSET Requests, Submit(Q)
    PROVE  LimiterInv'
<1>1. LimiterTypeOK'
  BY DEF LimiterInv, LimiterTypeOK, Submit, bucketVars, Places
<1>2. \A q \in Requests : paid'[q] => paid[q] /\ at'[q] = at[q] /\ wake'[q] = wake[q]
  BY DEF LimiterInv, LimiterTypeOK, DebtInv, Submit, Buckets, Kinds, Place
<1>3. DebtInv'
  BY <1>2 DEF LimiterInv, DebtInv, Submit, Oversized, Cost, MaxTokens, Place
<1> QED
  BY <1>1, <1>2, <1>3, QuietInv DEF Submit

\* A bucket that is not configured is passed at once.
LEMMA PassUnlimitedInv ==
    ASSUME LimiterInv, NEW q \in Requests, NEW b \in Buckets, PassUnlimited(q, b)
    PROVE  LimiterInv'
<1>1. LimiterTypeOK'
  BY DEF LimiterInv, LimiterTypeOK, PassUnlimited, Pass, bucketVars, Places, Following, Buckets,
     Kinds, Place
<1>2. \A r \in Requests : paid'[r] => paid[r] /\ at'[r] = at[r] /\ wake'[r] = wake[r]
  BY DEF LimiterInv, LimiterTypeOK, PassUnlimited, Pass
<1>3. DebtInv'
  BY <1>2 DEF LimiterInv, DebtInv, PassUnlimited, Oversized, Cost, MaxTokens, Place
<1> QED
  BY <1>1, <1>2, <1>3, QuietInv DEF PassUnlimited

\* The call to the reward function begins, or ends.
LEMMA CallInv ==
    ASSUME LimiterInv, NEW q \in Requests, StartCall(q) \/ EndCall(q)
    PROVE  LimiterInv'
<1>1. LimiterTypeOK'
  BY DEF LimiterInv, LimiterTypeOK, StartCall, EndCall, bucketVars, Places
<1>2. \A r \in Requests : paid'[r] => paid[r] /\ at'[r] = at[r] /\ wake'[r] = wake[r]
  BY DEF LimiterInv, LimiterTypeOK, DebtInv, StartCall, EndCall, Buckets, Kinds, Place
<1>3. DebtInv'
  BY <1>2 DEF LimiterInv, DebtInv, StartCall, EndCall, Oversized, Cost, MaxTokens, Place
<1> QED
  BY <1>1, <1>2, <1>3, QuietInv DEF StartCall, EndCall

\* The clock goes on: a bucket gains no more than the time that passed.
LEMMA TickInv ==
    ASSUME LimiterInv, Tick
    PROVE  LimiterInv'
<1>1. LimiterTypeOK'
  BY DEF LimiterInv, LimiterTypeOK, Tick, bucketVars
<1>2. BucketsInv'
  BY DEF LimiterInv, LimiterTypeOK, BucketsInv, Tick, bucketVars, Oversized, Cost, MaxTokens, Place
<1>3. DebtInv'
  <2>1. ASSUME NEW q \in Requests, NEW b \in Buckets, Place(q) = b
        PROVE  at[q] \in Kinds
    BY <2>1 DEF Place, Buckets
  <2> QED
    BY <2>1 DEF LimiterInv, LimiterTypeOK, DebtInv, Tick, TimersServed, Oversized, Cost, MaxTokens,
       Place
<1>4. ASSUME NEW b \in Buckets, Enabled(b)'
      PROVE  FromInv(b)' /\ BetweenInv(b)'
  <2>1. FromInv(b) /\ BetweenInv(b)
    BY <1>4 DEF LimiterInv, ClaimsInv, Enabled, Tick, MaxTokens
  <2>2. \A s \in Nat : ClaimsFrom(b, s)' \subseteq ClaimsFrom(b, s)
    BY DEF ClaimsFrom, Tick, Place
  <2>3. \A s, t \in Nat : ClaimsBetween(b, s, t)' \subseteq ClaimsBetween(b, s, t)
    BY DEF ClaimsBetween, Tick, Place
  <2>4. EmptyAt(b)' >= EmptyAt(b)
    <3>1. /\ MaxTokens(b) \in Nat /\ now \in Nat /\ now' = now + 1
          /\ tokens[b] \in Int /\ tokens'[b] = tokens[b]
          /\ last_update[b] \in Int /\ last_update'[b] = last_update[b] /\ limits' = limits
      BY LimitTypes DEF LimiterInv, LimiterTypeOK, Tick, bucketVars
    <3> QED
      BY <3>1 DEF EmptyAt, Refilled, Elapsed, Least, NoTime, MaxTokens, Cost
  <2> QED
    BY <1>1, <2>1, <2>2, <2>3, <2>4, QuietStep DEF LimiterInv, Tick
<1> QED
  BY <1>1, <1>2, <1>3, <1>4 DEF LimiterInv, ClaimsInv

\* A round of acquire(): the row claims this moment, or sleeps and claims nothing.
LEMMA AcquireInv ==
    ASSUME LimiterInv, NEW q \in Requests, NEW b \in Buckets, Acquire(q, b)
    PROVE  LimiterInv'
<1> DEFINE R == Refilled(b)
<1>1. /\ R \in Int /\ R <= MaxTokens(b) /\ R >= 0 /\ EmptyAt(b) = now - R
      /\ Cost(b) \in Nat \ {0} /\ MaxTokens(b) \in Nat
      /\ Slack(b) >= MaxTokens(b) /\ Slack(b) \in Nat /\ now \in Nat
  BY RefilledType, LimitTypes DEF LimiterInv, LimiterTypeOK, BucketsInv, Acquire, Refilled, Least,
     Elapsed, NoTime, Cost, EmptyAt, MaxTokens
<1>2. CASE R >= Cost(b)
  <2>0. Refill(b, Cost(b)) /\ Grant(q, b) /\ limits' = limits /\ now' = now
    BY <1>2 DEF Acquire
  <2>1. /\ Refilled(b)' = R - Cost(b)
        /\ tokens'[b] = R - Cost(b) /\ last_update'[b] = now
        /\ \A a \in Buckets \ {b} : tokens'[a] = tokens[a] /\ last_update'[a] = last_update[a]
        /\ tokens' \in [Buckets -> Int] /\ last_update' \in [Buckets -> Int]
    BY <1>1, <2>0, RefillEffect DEF LimiterInv
  <2>2. LimiterTypeOK'
    BY <2>0, <2>1 DEF LimiterInv, LimiterTypeOK, Grant, Pass, Places, Following, Buckets, Kinds,
       Place
  <2>3. BucketsInv'
    BY <1>1, <1>2, <2>0, <2>1 DEF LimiterInv, LimiterTypeOK, BucketsInv, Oversized, Cost,
       MaxTokens, Place
  <2>4. DebtInv'
    BY <2>0 DEF LimiterInv, LimiterTypeOK, DebtInv, Grant, Pass, Oversized, Cost, MaxTokens, Place
  <2>5. ASSUME NEW a \in Buckets, Enabled(a)', a # b
        PROVE  FromInv(a)' /\ BetweenInv(a)'
    <3>1. FromInv(a) /\ BetweenInv(a)
      BY <2>0, <2>5 DEF LimiterInv, ClaimsInv, Enabled, MaxTokens
    <3>2. \A r \in Requests : granted'[r][a] = granted[r][a]
      BY <2>0, <2>5 DEF LimiterInv, LimiterTypeOK, Grant
    <3>3. \A r \in Requests : paid'[r] => paid[r] /\ at'[r] = at[r] /\ wake'[r] = wake[r]
      BY <2>0 DEF LimiterInv, LimiterTypeOK, Grant, Pass
    <3>4. \A s \in Nat : ClaimsFrom(a, s)' \subseteq ClaimsFrom(a, s)
      BY <2>0, <3>2, <3>3 DEF ClaimsFrom, Place
    <3>5. \A s, t \in Nat : ClaimsBetween(a, s, t)' \subseteq ClaimsBetween(a, s, t)
      BY <2>0, <3>2, <3>3 DEF ClaimsBetween, Place
    <3>6. EmptyAt(a)' >= EmptyAt(a)
      BY <2>0, <2>1, <2>5, BucketLeftAlone DEF LimiterInv
    <3> QED
      BY <2>0, <2>2, <3>1, <3>4, <3>5, <3>6, QuietStep DEF LimiterInv
  <2>6. ASSUME Enabled(b)'
        PROVE  FromInv(b)' /\ BetweenInv(b)'
    <3>1. FromInv(b) /\ BetweenInv(b)
      BY <2>0, <2>6 DEF LimiterInv, ClaimsInv, Enabled, MaxTokens
    <3>2. \A r \in Requests \ {q} : granted'[r][b] = granted[r][b]
      BY <2>0 DEF LimiterInv, LimiterTypeOK, Grant
    <3>3. granted'[q][b] = now
      BY <2>0 DEF LimiterInv, LimiterTypeOK, Grant
    <3>4. \A r \in Requests : paid'[r] => paid[r] /\ at'[r] = at[r] /\ wake'[r] = wake[r]
      BY <2>0 DEF LimiterInv, LimiterTypeOK, Grant, Pass
    <3>5. ~paid'[q]
      BY <2>0 DEF LimiterInv, LimiterTypeOK, Grant, Pass
    <3>6. \A s \in Nat : ClaimsFrom(b, s)' \subseteq
               ClaimsFrom(b, s) \union (IF s <= now THEN {q} ELSE {})
      BY <2>0, <3>2, <3>3, <3>4, <3>5 DEF ClaimsFrom, Place
    <3>7. \A s, t \in Nat : ClaimsBetween(b, s, t)' \subseteq
               ClaimsBetween(b, s, t) \union (IF s <= now /\ now <= t THEN {q} ELSE {})
      BY <2>0, <3>2, <3>3, <3>4, <3>5 DEF ClaimsBetween, Place
    <3>8. \A s, t \in Nat : ClaimsBetween(b, s, t)' \subseteq ClaimsFrom(b, s)'
      BY DEF ClaimsFrom, ClaimsBetween, Place
    <3>9. EmptyAt(b)' = now - (R - Cost(b))
      BY <2>0, <2>1 DEF EmptyAt
    <3>10. /\ EmptyAt(b)' = EmptyAt(b) + Cost(b)
           /\ EmptyAt(b)' <= now
           /\ Cost(b) + now <= Slack(b) + EmptyAt(b)'
      <4> HIDE DEF R
      <4> QED
        BY <1>1, <1>2, <3>9
    <3> QED
      BY <1>1, <2>0, <2>2, <3>1, <3>6, <3>7, <3>8, <3>10, ClaimStep DEF LimiterInv
  <2> QED
    BY <2>2, <2>3, <2>4, <2>5, <2>6 DEF LimiterInv, ClaimsInv
<1>3. CASE ~(R >= Cost(b))
  <2>0. /\ Refill(b, 0) /\ Sleep(q, b, Cost(b) - R, FALSE)
        /\ limits' = limits /\ now' = now
    BY <1>3 DEF Acquire
  <2>1. /\ Refilled(b)' = R
        /\ tokens'[b] = R /\ last_update'[b] = now
        /\ \A a \in Buckets \ {b} : /\ Refilled(a)' = Refilled(a)
                                    /\ tokens'[a] = tokens[a] /\ last_update'[a] = last_update[a]
        /\ tokens' \in [Buckets -> Int] /\ last_update' \in [Buckets -> Int]
    BY <1>1, <2>0, RefillEffect DEF LimiterInv
  <2>2. LimiterTypeOK'
    BY <1>1, <2>0, <2>1 DEF LimiterInv, LimiterTypeOK, Sleep
  <2>3. BucketsInv'
    BY <1>1, <2>0, <2>1 DEF LimiterInv, LimiterTypeOK, BucketsInv, Oversized, Cost, MaxTokens, Place
  <2>4. \A r \in Requests : paid'[r] => paid[r] /\ at'[r] = at[r] /\ wake'[r] = wake[r]
    BY <2>0 DEF LimiterInv, LimiterTypeOK, Sleep
  <2>5. DebtInv'
    BY <2>0, <2>4 DEF LimiterInv, DebtInv, Oversized, Cost, MaxTokens, Place
  <2>6. ASSUME NEW a \in Buckets, Enabled(a)'
        PROVE  FromInv(a)' /\ BetweenInv(a)'
    <3>1. FromInv(a) /\ BetweenInv(a)
      BY <2>0, <2>6 DEF LimiterInv, ClaimsInv, Enabled, MaxTokens
    <3>2. \A s \in Nat : ClaimsFrom(a, s)' \subseteq ClaimsFrom(a, s)
      BY <2>0, <2>4 DEF ClaimsFrom, Sleep, Place
    <3>3. \A s, t \in Nat : ClaimsBetween(a, s, t)' \subseteq ClaimsBetween(a, s, t)
      BY <2>0, <2>4 DEF ClaimsBetween, Sleep, Place
    <3>4. EmptyAt(a)' >= EmptyAt(a)
      <4>1. EmptyAt(a)' = EmptyAt(a)
        BY <2>0, <2>1 DEF EmptyAt
      <4> QED
        BY <4>1, RefilledType DEF LimiterInv
    <3> QED
      BY <2>0, <2>2, <3>1, <3>2, <3>3, <3>4, QuietStep DEF LimiterInv
  <2> QED
    BY <2>2, <2>3, <2>5, <2>6 DEF LimiterInv, ClaimsInv
<1> QED
  BY <1>2, <1>3

\* A row larger than the bucket takes its units and claims the moment at which
\* the debt is paid.
LEMMA AcquireOversizedInv ==
    ASSUME LimiterInv, NEW q \in Requests, NEW b \in Buckets, AcquireOversized(q, b)
    PROVE  LimiterInv'
<1> DEFINE R == Refilled(b)
<1> DEFINE T == now + (Cost(b) - R)
<1>0. /\ Refill(b, Cost(b)) /\ Sleep(q, b, Cost(b) - R, TRUE)
      /\ limits' = limits /\ now' = now /\ Place(q) = b /\ Oversized(b)
  BY DEF AcquireOversized, Ready, Cost
<1>1. /\ R \in Int /\ R <= MaxTokens(b) /\ EmptyAt(b) = now - R
      /\ Cost(b) \in Nat \ {0} /\ MaxTokens(b) \in Nat
      /\ Cost(b) > MaxTokens(b)
      /\ Slack(b) >= Cost(b) /\ Slack(b) \in Nat /\ now \in Nat
  BY <1>0, RefilledType, LimitTypes DEF LimiterInv, LimiterTypeOK, Oversized, Cost, EmptyAt,
     MaxTokens, Place
<1>2. T \in Nat /\ T >= now
  <2> HIDE DEF R
  <2> QED
    BY <1>1
<1>3. /\ Refilled(b)' = R - Cost(b)
      /\ tokens'[b] = R - Cost(b) /\ last_update'[b] = now
      /\ \A a \in Buckets \ {b} : tokens'[a] = tokens[a] /\ last_update'[a] = last_update[a]
      /\ tokens' \in [Buckets -> Int] /\ last_update' \in [Buckets -> Int]
  BY <1>0, <1>1, RefillEffect DEF LimiterInv
<1>4. /\ wake' = [wake EXCEPT ![q] = T] /\ paid' = [paid EXCEPT ![q] = TRUE]
      /\ at' = at /\ granted' = granted
  BY <1>0 DEF Sleep
<1>5. LimiterTypeOK'
  BY <1>0, <1>2, <1>3, <1>4 DEF LimiterInv, LimiterTypeOK
<1>6. BucketsInv'
  BY <1>0, <1>1, <1>3 DEF LimiterInv, LimiterTypeOK, BucketsInv, Oversized, Cost, MaxTokens, Place
<1>7. DebtInv'
  <2> HIDE DEF T
  <2> QED
    BY <1>0, <1>2, <1>4 DEF LimiterInv, LimiterTypeOK, DebtInv, Oversized, Cost, MaxTokens, Place
<1>8. ASSUME NEW a \in Buckets, Enabled(a)', a # b
      PROVE  FromInv(a)' /\ BetweenInv(a)'
  <2>1. FromInv(a) /\ BetweenInv(a)
    BY <1>0, <1>8 DEF LimiterInv, ClaimsInv, Enabled, MaxTokens
  <2>2. \A r \in Requests : Place(r)' = a /\ paid'[r] => paid[r] /\ Place(r) = a /\ wake'[r] = wake[r]
    <3> HIDE DEF T
    <3> QED
      BY <1>0, <1>4, <1>8 DEF LimiterInv, LimiterTypeOK, Place
  <2>3. \A s \in Nat : ClaimsFrom(a, s)' \subseteq ClaimsFrom(a, s)
    BY <1>4, <2>2 DEF ClaimsFrom, Place
  <2>4. \A s, t \in Nat : ClaimsBetween(a, s, t)' \subseteq ClaimsBetween(a, s, t)
    BY <1>4, <2>2 DEF ClaimsBetween, Place
  <2>5. EmptyAt(a)' >= EmptyAt(a)
    BY <1>0, <1>3, <1>8, BucketLeftAlone DEF LimiterInv
  <2> QED
    BY <1>0, <1>5, <2>1, <2>3, <2>4, <2>5, QuietStep DEF LimiterInv
<1>9. ASSUME Enabled(b)'
      PROVE  FromInv(b)' /\ BetweenInv(b)'
  <2>1. FromInv(b) /\ BetweenInv(b)
    BY <1>0, <1>9 DEF LimiterInv, ClaimsInv, Enabled, MaxTokens
  <2>2. /\ wake'[q] = T
        /\ \A r \in Requests \ {q} : paid'[r] = paid[r] /\ wake'[r] = wake[r]
    <3> HIDE DEF T
    <3> QED
      BY <1>4 DEF LimiterInv, LimiterTypeOK
  <2>3. \A s \in Nat : ClaimsFrom(b, s)' \subseteq
             ClaimsFrom(b, s) \union (IF s <= T THEN {q} ELSE {})
    <3> HIDE DEF T
    <3> QED
      BY <1>0, <1>2, <1>4, <2>2 DEF ClaimsFrom, Place
  <2>4. \A s, t \in Nat : ClaimsBetween(b, s, t)' \subseteq
             ClaimsBetween(b, s, t) \union (IF s <= T /\ T <= t THEN {q} ELSE {})
    <3> HIDE DEF T
    <3> QED
      BY <1>0, <1>2, <1>4, <2>2 DEF ClaimsBetween, Place
  <2>5. \A s, t \in Nat : ClaimsBetween(b, s, t)' \subseteq ClaimsFrom(b, s)'
    BY DEF ClaimsFrom, ClaimsBetween, Place
  <2>6. EmptyAt(b)' = now - (R - Cost(b))
    BY <1>0, <1>3 DEF EmptyAt
  <2>7. /\ EmptyAt(b)' = EmptyAt(b) + Cost(b)
        /\ EmptyAt(b)' <= T
        /\ Cost(b) + T <= Slack(b) + EmptyAt(b)'
    <3> HIDE DEF R
    <3> QED
      BY <1>1, <2>6
  <2> HIDE DEF T
  <2> QED
    BY <1>0, <1>2, <1>5, <2>1, <2>3, <2>4, <2>5, <2>7, ClaimStep DEF LimiterInv
<1> QED
  BY <1>5, <1>6, <1>7, <1>8, <1>9 DEF LimiterInv, ClaimsInv

\* Who has slept off its debt is let through at the moment it claimed.
LEMMA DebtSleptOffInv ==
    ASSUME LimiterInv, NEW q \in Requests, NEW b \in Buckets, DebtSleptOff(q, b)
    PROVE  LimiterInv'
<1>1. /\ Place(q) = b /\ paid[q] /\ wake[q] = now
      /\ limits' = limits /\ now' = now /\ tokens' = tokens /\ last_update' = last_update
  <2>1. Place(q) = b /\ paid[q] /\ wake[q] <= now
    BY DEF DebtSleptOff
  <2>2. wake[q] >= now /\ wake[q] \in Int /\ now \in Int
    BY <2>1 DEF LimiterInv, LimiterTypeOK, DebtInv
  <2>3. limits' = limits /\ now' = now /\ tokens' = tokens /\ last_update' = last_update
    BY DEF DebtSleptOff, bucketVars
  <2> QED
    BY <2>1, <2>2, <2>3
<1>2. LimiterTypeOK'
  BY <1>1 DEF LimiterInv, LimiterTypeOK, DebtSleptOff, Grant, Pass, Places, Following, Buckets,
     Kinds, Place
<1>3. BucketsInv'
  BY <1>1 DEF LimiterInv, BucketsInv, Oversized, Cost, MaxTokens, Place
<1>4. /\ ~paid'[q] /\ granted'[q][b] = now
      /\ \A a \in Buckets \ {b} : granted'[q][a] = granted[q][a]
      /\ \A r \in Requests \ {q} : /\ paid'[r] = paid[r] /\ at'[r] = at[r] /\ wake'[r] = wake[r]
                                    /\ granted'[r] = granted[r]
  BY DEF LimiterInv, LimiterTypeOK, DebtSleptOff, Grant, Pass
<1>5. DebtInv'
  BY <1>1, <1>4 DEF LimiterInv, DebtInv, Oversized, Cost, MaxTokens, Place
<1>6. ASSUME NEW a \in Buckets, Enabled(a)'
      PROVE  FromInv(a)' /\ BetweenInv(a)'
  <2>1. FromInv(a) /\ BetweenInv(a)
    BY <1>1, <1>6 DEF LimiterInv, ClaimsInv, Enabled, MaxTokens
  <2>2. \A s \in Nat : ClaimsFrom(a, s)' \subseteq ClaimsFrom(a, s)
    BY <1>1, <1>4 DEF ClaimsFrom, Place
  <2>3. \A s, t \in Nat : ClaimsBetween(a, s, t)' \subseteq ClaimsBetween(a, s, t)
    BY <1>1, <1>4 DEF ClaimsBetween, Place
  <2>4. EmptyAt(a)' >= EmptyAt(a)
    BY <1>1, BucketLeftAlone DEF LimiterInv
  <2> QED
    BY <1>1, <1>2, <2>1, <2>2, <2>3, <2>4, QuietStep DEF LimiterInv
<1> QED
  BY <1>2, <1>3, <1>5, <1>6 DEF LimiterInv, ClaimsInv

\* Where nobody was let through and nobody has a debt, nobody claims anything.
LEMMA NobodyClaims ==
    ASSUME LimiterTypeOK, NEW b \in Buckets,
           \A q \in Requests : ~paid[q] /\ granted[q][b] = NoTime
    PROVE  FromInv(b) /\ BetweenInv(b)
<1>1. \A s \in Nat : ClaimsFrom(b, s) = {}
  BY DEF ClaimsFrom, NoTime, Place
<1>2. \A s, t \in Nat : ClaimsBetween(b, s, t) = {}
  BY DEF ClaimsBetween, NoTime, Place
<1> QED
  BY <1>1, <1>2, NoClaims

\* The results are taken; a new process starts with full buckets.
LEMMA ReleaseInv ==
    ASSUME LimiterInv, NEW new_process \in BOOLEAN, ReleaseRequests(new_process)
    PROVE  LimiterInv'
<1>1. /\ limits' = limits
      /\ \A q \in Requests : ~paid'[q] /\ \A b \in Buckets : granted'[q][b] = NoTime
  BY DEF ReleaseRequests
<1>2. /\ FullBuckets(limits) \in [Buckets -> Nat]
      /\ \A b \in Buckets : FullBuckets(limits)[b] = MaxTokens(b)
  BY LimitTypes DEF LimiterInv, LimiterTypeOK, FullBuckets, MaxTokens
<1>3. \/ UNCHANGED <<now, tokens, last_update>>
      \/ /\ now' = 0 /\ tokens' = FullBuckets(limits)
         /\ last_update' = [b \in Buckets |-> NoTime]
  BY DEF ReleaseRequests, bucketVars
<1>4. LimiterTypeOK'
  BY <1>1, <1>2, <1>3 DEF LimiterInv, LimiterTypeOK, ReleaseRequests, Places, NoTime
<1>5. BucketsInv'
  BY <1>1, <1>2, <1>3 DEF LimiterInv, BucketsInv, Oversized, NoTime, Cost, MaxTokens, Place
<1>6. DebtInv'
  BY <1>1 DEF DebtInv
<1>7. \A b \in Buckets : FromInv(b)' /\ BetweenInv(b)'
  <2> TAKE b \in Buckets
  <2>1. \A s \in Nat : ClaimsFrom(b, s)' = {}
    BY <1>1 DEF ClaimsFrom, NoTime, Place
  <2>2. \A s, t \in Nat : ClaimsBetween(b, s, t)' = {}
    BY <1>1 DEF ClaimsBetween, NoTime, Place
  <2>3. /\ \A s \in Nat : ClaimsFrom(b, s) \in SUBSET Requests
        /\ Cost(b)' \in Nat /\ Slack(b)' \in Nat
    BY <1>1, <1>4, LimitTypes, RefilledType DEF LimiterInv, LimiterTypeOK, Cost, Slack,
       ClaimsFrom, Place, MaxTokens
  <2>4. FromInv(b)'
    BY <2>1 DEF FromInv
  <2>5. ASSUME NEW s \in Nat, NEW t \in Nat, s <= t
        PROVE  Cost(b)' * Cardinality(ClaimsBetween(b, s, t)') <= Slack(b)' + (t - s)
    <3>1. Cardinality(ClaimsBetween(b, s, t)') = 0
      BY <2>2, FS_EmptySet
    <3> QED
      BY <2>3, <2>5, <3>1
  <2> QED
    BY <2>4, <2>5 DEF BetweenInv
<1> QED
  BY <1>4, <1>5, <1>6, <1>7 DEF LimiterInv, ClaimsInv

--------------------------------------------------------------------------------
(* The theorem.                                                                *)

\* The invariant holds when a process starts.
LEMMA LimiterInitInv ==
    ASSUME NEW l \in Limits, LimiterInit(l)
    PROVE  LimiterInv
<1>1. LimiterTypeOK
  <2>1. l.max_tokens \in [Kinds -> Nat]
    BY LimiterAssumption
  <2>2. FullBuckets(l) \in [Buckets -> Int]
    BY <2>1 DEF FullBuckets, Buckets
  <2> QED
    BY <2>2, LimiterAssumption DEF LimiterInit, NobodyWaits, LimiterTypeOK, Places, NoTime
<1>2. BucketsInv
  <2>1. l.max_tokens \in [Kinds -> Nat] /\ limits = l
    BY LimiterAssumption DEF LimiterInit
  <2>2. \A b \in Buckets : b[2] \in Kinds
    BY DEF Buckets
  <2> QED
    BY <2>1, <2>2 DEF LimiterInit, BucketsInv, NoTime, FullBuckets, MaxTokens
<1>3. DebtInv
  BY DEF LimiterInit, NobodyWaits, DebtInv
<1>4. \A b \in Buckets : FromInv(b) /\ BetweenInv(b)
  BY <1>1, NobodyClaims DEF LimiterInit, NobodyWaits
<1> QED
  BY <1>1, <1>2, <1>3, <1>4 DEF LimiterInv, ClaimsInv

\* A step of the limiter keeps it.
LEMMA LimiterStepInv ==
    ASSUME LimiterInv, LimiterStep
    PROVE  LimiterInv'
<1>1. ASSUME NEW q \in Requests, NEW b \in Buckets,
             \/ PassUnlimited(q, b)
             \/ Acquire(q, b)
             \/ AcquireOversized(q, b)
             \/ DebtSleptOff(q, b)
      PROVE  LimiterInv'
  BY <1>1, PassUnlimitedInv, AcquireInv, AcquireOversizedInv, DebtSleptOffInv
<1>2. ASSUME NEW q \in Requests, StartCall(q) \/ EndCall(q)
      PROVE  LimiterInv'
  BY <1>2, CallInv
<1> QED
  BY <1>1, <1>2, TickInv DEF LimiterStep

\* So does a step that leaves it alone.
LEMMA LimiterStutterInv ==
    ASSUME LimiterInv, UNCHANGED limiterVars
    PROVE  LimiterInv'
<1>1. LimiterTypeOK' /\ DebtInv'
  BY DEF LimiterInv, LimiterTypeOK, DebtInv, Oversized, limiterVars, Cost, MaxTokens, Place
<1>2. \A q \in Requests : paid'[q] => paid[q] /\ at'[q] = at[q] /\ wake'[q] = wake[q]
  BY DEF limiterVars
<1> QED
  BY <1>1, <1>2, QuietInv DEF limiterVars, bucketVars

\* Every step of the specification keeps it.
LEMMA LimiterNextInv ==
    ASSUME LimiterInv, [LimiterNext]_limiterVars
    PROVE  LimiterInv'
  BY LimiterStepInv, SubmitInv, ReleaseInv, LimiterStutterInv DEF LimiterNext

\* The rows let through in an interval are among those who claim a moment of it.
LEMMA ClaimsBoundRate ==
    ASSUME LimiterInv
    PROVE  RateBounded
<1> SUFFICES ASSUME NEW b \in Buckets, Enabled(b), NEW s \in 0..now, NEW t \in s..now
             PROVE  Cost(b) * Cardinality(PassedBetween(b, s, t))
                        <= Greatest(MaxTokens(b), Cost(b)) + (t - s)
  BY DEF RateBounded
<1>1. s \in Nat /\ t \in Nat /\ s <= t
  BY DEF LimiterInv, LimiterTypeOK
<1>2. Cost(b) * Cardinality(ClaimsBetween(b, s, t)) <= Slack(b) + (t - s)
  BY <1>1 DEF LimiterInv, ClaimsInv, BetweenInv
<1>3. Cost(b) \in Nat /\ Slack(b) \in Nat
  BY LimitTypes, RefilledType DEF LimiterInv, LimiterTypeOK, Cost
<1>4. /\ PassedBetween(b, s, t) \in SUBSET Requests /\ ClaimsBetween(b, s, t) \in SUBSET Requests
      /\ PassedBetween(b, s, t) \subseteq ClaimsBetween(b, s, t)
  BY DEF PassedBetween, ClaimsBetween, Place
<1>5. Cost(b) * Cardinality(PassedBetween(b, s, t)) <= Cost(b) * Cardinality(ClaimsBetween(b, s, t))
  BY <1>3, <1>4, NoMore
<1>6. /\ Cost(b) * Cardinality(PassedBetween(b, s, t)) \in Int
      /\ Cost(b) * Cardinality(ClaimsBetween(b, s, t)) \in Int
  BY <1>3, <1>4, ClaimsFinite
<1>7. Cost(b) * Cardinality(PassedBetween(b, s, t)) <= Slack(b) + (t - s)
  BY <1>1, <1>2, <1>3, <1>5, <1>6
<1> QED
  BY <1>7 DEF Cost, Slack, MaxTokens

\* In no interval do the rows that a process lets through cost more than what its
\* bucket holds and what the interval refills (max_rpm and max_tpm of the
\* rate-limited reward manager, with the slack of AsyncTokenBucket), for any number
\* of processes and rows and any limits.  Of all processes together nothing is said.
THEOREM RateIsBounded == LimiterSpec => []RateBounded
<1>1. (\E l \in Limits : LimiterInit(l)) => LimiterInv
  BY LimiterInitInv
<1>2. LimiterInv /\ [LimiterNext]_limiterVars => LimiterInv'
  BY LimiterNextInv
<1>3. LimiterInv => RateBounded
  BY ClaimsBoundRate
<1> QED
  BY <1>1, <1>2, <1>3, PTL DEF LimiterSpec

--------------------------------------------------------------------------------
(* The rate limit holds in the training loops, whatever they submit and when   *)
(* they take the results: they use the limiter as its specification lets them. *)

\* Every row that is submitted is one of the limiter's.
LEMMA RowsAreRequests ==
    ASSUME setup \in Setups, setup.reward # "reward_fn"
    PROVE  AllRows \in SUBSET Requests
  BY TrainerAssumption DEF AllRows, NumRows

\* Every action of the loops is a step of the limiter, or leaves it alone.
LEMMA LoopUsesLimiter ==
    ASSUME setup \in Setups, Loop
    PROVE  /\ setup' = setup
           /\ \/ UNCHANGED limiterVars
              \/ \E Q \in SUBSET Requests : Submit(Q)
              \/ \E new_process \in BOOLEAN : ReleaseRequests(new_process)
<1>1. CASE LaunchRewards
  <2>1. Submit(AllRows) /\ setup' = setup /\ setup.reward # "reward_fn"
    BY <1>1 DEF LaunchRewards
  <2> QED
    BY <2>1, RowsAreRequests
<1>2. CASE BlockingRewards
  BY <1>2 DEF BlockingRewards, CollectRewards
<1>3. CASE CollectThenComputeAdvantage
  BY <1>3 DEF CollectThenComputeAdvantage, CollectRewards
<1>4. CASE \/ LoadCheckpoint \/ FirstGeneration \/ DrawBatch \/ DataExhausted
           \/ TakeBatch \/ TakeNothing \/ SyncAndGenerateNext
  BY <1>4 DEF LoadCheckpoint, FirstGeneration, DrawBatch, DataExhausted,
     TakeBatch, TakeNothing, SyncAndGenerateNext
<1>5. CASE \/ ScoresAtHand \/ ComputeLogProb \/ ComputeAdvantage
           \/ UpdateRefused \/ UpdateActor \/ EndStep
  BY <1>5 DEF ScoresAtHand, ComputeLogProb, ComputeAdvantage, UpdateRefused, UpdateActor, EndStep
<1> QED
  BY <1>1, <1>2, <1>3, <1>4, <1>5 DEF Loop

\* So is every other action.
LEMMA TrainerUsesLimiter ==
    ASSUME setup \in Setups, [Next]_vars
    PROVE  setup' = setup /\ [LimiterNext]_limiterVars
<1>1. CASE Loop
  BY <1>1, LoopUsesLimiter DEF LimiterNext
<1>2. CASE FinishGeneration
  BY <1>2 DEF FinishGeneration, LimiterNext
<1>3. ASSUME NEW r \in Requests, RowGenerated(r)
      PROVE  setup' = setup /\ [LimiterNext]_limiterVars
  BY <1>3 DEF RowGenerated, LimiterNext, trainerVars
<1>4. CASE Limiter
  BY <1>4 DEF Limiter, LimiterNext, trainerVars
<1>5. CASE Crash
  BY <1>5 DEF Crash, LimiterNext
<1>6. CASE UNCHANGED vars
  BY <1>6 DEF vars, trainerVars
<1> QED
  BY <1>1, <1>2, <1>3, <1>4, <1>5, <1>6 DEF Next, Generation, Finished

\* In no interval do the rows that one process scores for the training loops cost
\* more than what its bucket holds and what the interval refills: whatever loop,
\* place of the rewards, number of agent loop workers with a reward worker each,
\* and crashes (RateLimitedRewardManager under fit).
THEOREM TrainingIsRateBounded == Spec => []RateBounded
<1> DEFINE Inv == setup \in Setups /\ LimiterInv
<1>1. Init => Inv
  BY TrainerAssumption, LimiterInitInv DEF Init
<1>2. Inv /\ [Next]_vars => Inv'
  <2> SUFFICES ASSUME Inv, [Next]_vars
               PROVE  Inv'
    OBVIOUS
  <2>1. setup' = setup /\ [LimiterNext]_limiterVars
    BY TrainerUsesLimiter
  <2>2. LimiterInv'
    BY <2>1, LimiterNextInv
  <2> QED
    BY <2>1, <2>2
<1>3. Inv => RateBounded
  BY ClaimsBoundRate
<1> QED
  BY <1>1, <1>2, <1>3, PTL DEF Spec

--------------------------------------------------------------------------------
(* Where a batch can be while the loop is at fit.                              *)

Training == {"reward", "scoring", "old_log_prob", "adv", "update"}
WithBatch == Training \union {"sync"}
IsBatch(b) ==
    b = [id |-> b.id, rows |-> b.rows, uids |-> b.uids, rm_scores |-> b.rm_scores,
         version |-> b.version, last_version |-> b.last_version, state |-> b.state]
flowVars == <<setup, progressVars, future, batch, actor_version, rollout_version, saved, restarts>>

\* No generation is under way where one is started, and in the colocated loop
\* none while a batch is trained.
FlowInv ==
    /\ setup \in Setups
    /\ IsBatch(future)
    /\ fit \in {"start", "first", "next", "sync"} => future.state = "none"
    /\ ~OneStepOff => /\ fit \notin {"first", "sync"}
                      /\ future.state # "none" => fit \in {"await", "ragged_rewards"}

\* Between taking a batch and updating with it nothing else moves.
TrainingStep ==
    /\ fit \in Training /\ fit' \in Training
    /\ UNCHANGED flowVars
\* The run ends.
EndingStep ==
    /\ fit' \in {"out_of_data", "no_next_batch", "ragged_rewards"}
    /\ fit' # "ragged_rewards" => fit \in {"next", "await"} /\ future.state = "none"
    /\ UNCHANGED flowVars
\* The loop waits, for a row, a generation or the limiter.
WaitingStep == UNCHANGED trainerVars

\* Every step is one of these, or one of the actions that draw, take or train a batch.
LEMMA StepsOfTheLoop ==
    ASSUME FlowInv, [Next]_vars
    PROVE  \/ TrainingStep \/ EndingStep \/ WaitingStep
           \/ LoadCheckpoint \/ FirstGeneration \/ DrawBatch \/ TakeBatch \/ SyncAndGenerateNext
           \/ UpdateActor \/ EndStep \/ FinishGeneration \/ Crash
<1>1. CASE ScoresAtHand \/ ComputeLogProb \/ ComputeAdvantage
  BY <1>1 DEF ScoresAtHand, ComputeLogProb, ComputeAdvantage, TrainingStep, Training, flowVars
<1>2. CASE LaunchRewards \/ BlockingRewards \/ CollectThenComputeAdvantage
  BY <1>2 DEF LaunchRewards, BlockingRewards, CollectThenComputeAdvantage, TrainingStep, Training,
     flowVars
<1>3. CASE DataExhausted \/ TakeNothing \/ UpdateRefused
  <2>1. CASE DataExhausted
    BY <2>1 DEF DataExhausted, EndingStep, flowVars, stepVars, FlowInv
  <2>2. CASE TakeNothing
    BY <2>2 DEF TakeNothing, EndingStep, flowVars, stepVars
  <2>3. CASE UpdateRefused
    BY <2>3 DEF UpdateRefused, EndingStep, flowVars, stepVars
  <2> QED
    BY <1>3, <2>1, <2>2, <2>3
<1>4. CASE Limiter \/ UNCHANGED vars
  BY <1>4 DEF Limiter, vars, WaitingStep
<1>5. ASSUME NEW r \in Requests, RowGenerated(r)
      PROVE  WaitingStep
  BY <1>5 DEF RowGenerated, WaitingStep
<1> QED
  BY <1>1, <1>2, <1>3, <1>4, <1>5 DEF Next, Loop, Generation, Finished

\* What starting a generation does.
LEMMA Started ==
    ASSUME NEW version, StartGeneration(version)
    PROVE  /\ IsBatch(future')
           /\ \/ /\ position' = position + 1 /\ future'.id = position + 1
                 /\ future'.version = version /\ future'.state = "generating"
              \/ future'.state = "none" /\ position' = position
<1>1. CASE position < setup.batches
  <2>1. /\ position' = position + 1
        /\ future' = [NoBatch EXCEPT !.id = position + 1, !.version = version,
                                     !.state = "generating"]
    BY <1>1 DEF StartGeneration
  <2> DEFINE n == position + 1
  <2>2. future' = [id |-> n, rows |-> <<>>, uids |-> <<>>, rm_scores |-> <<>>,
                   version |-> version, last_version |-> 0, state |-> "generating"]
    <3> HIDE DEF n
    <3> QED
      BY <2>1, Zenon DEF NoBatch, n
  <2> QED
    BY <2>1, <2>2, Zenon DEF IsBatch
<1>2. CASE ~(position < setup.batches)
  BY <1>2 DEF StartGeneration, NoBatch, IsBatch
<1> QED
  BY <1>1, <1>2

\* What the end of a generation does.
LEMMA Generates ==
    ASSUME IsBatch(future), FinishGeneration
    PROVE  /\ IsBatch(future') /\ future'.id = future.id /\ future'.version = future.version
           /\ future.state = "generating"
           /\ \/ future'.state = "failed"
              \/ future'.state = "ready" /\ future'.last_version = rollout_version
           /\ UNCHANGED <<setup, fit, progressVars, stepVars, actor_version, rollout_version,
                          saved, restarts>>
<1>1. CASE setup.reward = "loop" /\ ~ChunkKeysFit
  BY <1>1 DEF FinishGeneration, IsBatch
<1>2. CASE ~(setup.reward = "loop" /\ ~ChunkKeysFit)
  BY <1>2 DEF FinishGeneration, IsBatch
<1> QED
  BY <1>1, <1>2

\* FlowInv is an invariant.
LEMMA FlowInit == Init => FlowInv
  BY TrainerAssumption DEF Init, FlowInv, NoBatch, IsBatch, OneStepOff

\* Every step keeps it.
LEMMA FlowNext ==
    ASSUME FlowInv, [Next]_vars
    PROVE  FlowInv'
<1>1. CASE TrainingStep
  BY <1>1 DEF TrainingStep, FlowInv, flowVars, IsBatch, OneStepOff, Training
<1>2. CASE EndingStep
  BY <1>2 DEF EndingStep, FlowInv, flowVars, IsBatch, OneStepOff
<1>3. CASE WaitingStep
  BY <1>3 DEF WaitingStep, FlowInv, trainerVars, IsBatch, OneStepOff
<1>4. CASE LoadCheckpoint
  BY <1>4 DEF LoadCheckpoint, FlowInv, IsBatch, OneStepOff
<1>5. CASE FirstGeneration
  <2>1. IsBatch(future') /\ fit = "first" /\ fit' = "await" /\ setup' = setup
    BY <1>5, Started DEF FirstGeneration
  <2> QED
    BY <2>1 DEF FlowInv, IsBatch, OneStepOff
<1>6. CASE DrawBatch
  <2>1. IsBatch(future') /\ fit' = "await" /\ setup' = setup
    BY <1>6, Started DEF DrawBatch
  <2> QED
    BY <2>1 DEF FlowInv, IsBatch, OneStepOff
<1>7. CASE TakeBatch
  BY <1>7 DEF TakeBatch, FlowInv, NoBatch, IsBatch, OneStepOff
<1>8. CASE SyncAndGenerateNext
  <2>1. IsBatch(future') /\ fit = "sync" /\ fit' = "reward" /\ setup' = setup
    BY <1>8, Started DEF SyncAndGenerateNext, FlowInv, IsBatch
  <2> QED
    BY <2>1 DEF FlowInv, IsBatch, OneStepOff
<1>9. CASE UpdateActor
  BY <1>9 DEF UpdateActor, FlowInv, IsBatch, OneStepOff
<1>10. CASE EndStep
  BY <1>10 DEF EndStep, FlowInv, IsBatch, OneStepOff
<1>11. CASE FinishGeneration
  BY <1>11, Generates DEF FlowInv, IsBatch, OneStepOff
<1>12. CASE Crash
  BY <1>12 DEF Crash, FlowInv, NoBatch, IsBatch, OneStepOff
<1> QED
  BY <1>1, <1>2, <1>3, <1>4, <1>5, <1>6, <1>7, <1>8, <1>9, <1>10, <1>11, <1>12, StepsOfTheLoop

--------------------------------------------------------------------------------
(* The age of the weights a batch was generated by.                            *)

MaxAge == IF OneStepOff THEN 1 ELSE 0
Recent(b) == actor_version - b.version <= MaxAge

\* A generation has the weights of the rollout, which are those the actor had
\* when it took its last batch: one update separates them from the next batch,
\* and none in the colocated loop.
AgeInv ==
    /\ actor_version \in Nat /\ rollout_version \in Nat /\ saved.version \in Nat
    /\ future.state # "none" => future.version \in Nat
    /\ future.state = "generating" => future.version = rollout_version
    /\ future.state = "ready" => future.version = future.last_version
    /\ fit = "first" => rollout_version = actor_version
    /\ fit \in WithBatch =>
          batch.version \in Nat /\ batch.version = batch.last_version /\ Recent(batch)
    /\ fit \in Training /\ future.state # "none" => future.version >= actor_version
    /\ fit \in {"await", "end"} /\ future.state # "none" => Recent(future)

\* AgeInv holds when the job starts.
LEMMA AgeInit == Init => AgeInv
  BY DEF Init, AgeInv, NoBatch, WithBatch, Training

\* Every step keeps it.
LEMMA AgeNext ==
    ASSUME FlowInv, AgeInv, [Next]_vars
    PROVE  AgeInv'
<1> USE DEF Training, WithBatch, Recent, MaxAge, OneStepOff
<1>1. CASE TrainingStep
  BY <1>1 DEF TrainingStep, AgeInv, flowVars
<1>2. CASE EndingStep
  BY <1>2 DEF EndingStep, AgeInv, flowVars
<1>3. CASE WaitingStep
  BY <1>3 DEF WaitingStep, AgeInv, trainerVars, stepVars
<1>4. CASE LoadCheckpoint
  BY <1>4 DEF LoadCheckpoint, AgeInv, FlowInv
<1>5. CASE FirstGeneration
  BY <1>5, Started DEF FirstGeneration, AgeInv
<1>6. CASE DrawBatch
  BY <1>6, Started DEF DrawBatch, AgeInv
<1>7. CASE TakeBatch
  BY <1>7 DEF TakeBatch, AgeInv, NoBatch
<1>8. CASE SyncAndGenerateNext
  BY <1>8, Started DEF SyncAndGenerateNext, AgeInv, FlowInv, stepVars
<1>9. CASE UpdateActor
  BY <1>9 DEF UpdateActor, AgeInv, FlowInv, stepVars
<1>10. CASE EndStep
  BY <1>10 DEF EndStep, AgeInv, Checkpoint
<1>11. CASE FinishGeneration
  BY <1>11, Generates DEF AgeInv, FlowInv, stepVars
<1>12. CASE Crash
  BY <1>12 DEF Crash, AgeInv, NoBatch
<1> QED
  BY <1>1, <1>2, <1>3, <1>4, <1>5, <1>6, <1>7, <1>8, <1>9, <1>10, <1>11, <1>12, StepsOfTheLoop

\* A batch is generated by one version of the weights, which is at most one
\* update old in the one-step-off loop and current in the colocated loop
\* (sync_rollout_weights, and the order of fit()).
THEOREM WeightsAreRecent == Spec => []WeightsAge
<1>1. Init => FlowInv /\ AgeInv
  BY FlowInit, AgeInit
<1>2. FlowInv /\ AgeInv /\ [Next]_vars => (FlowInv /\ AgeInv)'
  BY FlowNext, AgeNext
<1>3. AgeInv => WeightsAge
  BY DEF AgeInv, WeightsAge, WithBatch, Training, Recent, MaxAge
<1> QED
  BY <1>1, <1>2, <1>3, PTL DEF Spec

--------------------------------------------------------------------------------
(* The batches in the weights.                                                 *)

Increasing(seq) == \A i, j \in DOMAIN seq : i < j => seq[i] < seq[j]
UpTo(seq, bound) == \A i \in DOMAIN seq : seq[i] <= bound

InHand == IF fit \in WithBatch THEN 1 ELSE 0
Ahead == IF future.state = "none" THEN 0 ELSE 1
\* The batches drawn that are behind the loop.
Passed == position - (Ahead + InHand)
LostNow == IF OneStepOff THEN restarts ELSE 0
LostIfSaved == IF OneStepOff THEN (IF fit = "start" THEN restarts ELSE restarts + 1) ELSE 0
Running == fit \notin {"start", "ragged_rewards"}

\* Batches get into the weights in the order they are drawn.  Those behind the
\* loop that are not in the weights were lost at a restart, at most one at each:
\* a checkpoint of the one-step-off loop takes the batch ahead for passed.
SavedInv ==
    /\ restarts \in Nat /\ saved.position \in Nat
    /\ saved.trained \in Seq(Nat) /\ Increasing(saved.trained)
    /\ UpTo(saved.trained, saved.position)
    /\ saved.position - Len(saved.trained) <= LostIfSaved
    /\ saved.step = Len(saved.trained)
TrainedInv ==
    /\ position \in Nat /\ global_steps \in Nat
    /\ trained \in Seq(Nat) /\ Increasing(trained)
    /\ fit = "start" => trained = <<>>
    /\ trained # <<>> => trained[Len(trained)] - Len(trained) <= LostNow
RunInv ==
    Running =>
        /\ Passed \in Nat
        /\ UpTo(trained, Passed)
        /\ Passed - Len(trained) <= LostNow
        /\ future.state # "none" => future.id = position
        /\ fit \in WithBatch => batch.id = position - Ahead
StepInv ==
    /\ Running /\ fit # "end" /\ fit # "returned" => Len(trained) = global_steps - 1
    /\ fit = "end" => Len(trained) = global_steps
AccountInv == SavedInv /\ TrainedInv /\ RunInv /\ StepInv

\* AccountInv holds when the job starts.
LEMMA AccountInit == Init => AccountInv
<1> SUFFICES ASSUME Init PROVE AccountInv
  OBVIOUS
<1>1. /\ position = 0 /\ restarts = 0 /\ global_steps = 0 /\ trained = <<>> /\ fit = "start"
      /\ saved.step = 0 /\ saved.position = 0 /\ saved.trained = <<>>
  BY DEF Init
<1>2. <<>> \in Seq(Nat) /\ Len(<<>>) = 0 /\ DOMAIN <<>> = {}
  OBVIOUS
<1> QED
  BY <1>1, <1>2 DEF AccountInv, SavedInv, TrainedInv, RunInv, StepInv, Increasing, UpTo,
     LostIfSaved, Running

\* A batch behind all those in the weights is added.
LEMMA AppendAscending ==
    ASSUME NEW s \in Seq(Nat), NEW bound \in Nat, Increasing(s), UpTo(s, bound)
    PROVE  LET t == Append(s, bound + 1)
           IN /\ t \in Seq(Nat) /\ Increasing(t) /\ UpTo(t, bound + 1)
              /\ Len(t) = Len(s) + 1 /\ t # <<>> /\ t[Len(t)] = bound + 1
<1> DEFINE t == Append(s, bound + 1)
<1>1. /\ t \in Seq(Nat) /\ Len(t) = Len(s) + 1 /\ Len(s) \in Nat
      /\ DOMAIN t = 1..(Len(s) + 1) /\ DOMAIN s = 1..Len(s)
      /\ \A i \in 1..Len(s) : t[i] = s[i] /\ s[i] \in Nat
      /\ t[Len(s) + 1] = bound + 1
  OBVIOUS
<1>2. UpTo(t, bound + 1)
  <2> HIDE DEF t
  <2> QED
    BY <1>1 DEF UpTo
<1>3. Increasing(t)
  <2> SUFFICES ASSUME NEW i \in DOMAIN t, NEW j \in DOMAIN t, i < j
               PROVE  t[i] < t[j]
    BY DEF Increasing
  <2> HIDE DEF t
  <2>0. i \in 1..(Len(s) + 1) /\ j \in 1..(Len(s) + 1) /\ Len(s) \in Nat
    BY <1>1
  <2>1. i \in 1..Len(s) /\ t[i] = s[i] /\ s[i] <= bound /\ s[i] \in Nat
    BY <1>1, <2>0 DEF UpTo
  <2>2. CASE j = Len(s) + 1
    BY <1>1, <2>1, <2>2
  <2>3. CASE j # Len(s) + 1
    <3>1. j \in 1..Len(s) /\ t[j] = s[j]
      BY <1>1, <2>3
    <3>2. s[i] < s[j]
      BY <1>1, <2>1, <3>1 DEF Increasing
    <3> QED
      BY <2>1, <3>1, <3>2
  <2> QED
    BY <2>2, <2>3
<1> QED
  BY <1>1, <1>2, <1>3

\* The last batch is one of the batches.
LEMMA LastUpTo ==
    ASSUME NEW s \in Seq(Nat), NEW bound \in Nat, UpTo(s, bound), s # <<>>
    PROVE  s[Len(s)] \in Nat /\ s[Len(s)] <= bound
<1>1. Len(s) \in DOMAIN s
  OBVIOUS
<1> QED
  BY <1>1 DEF UpTo

\* Nothing that counts changes in a step inside one phase of the loop.
LEMMA AccountQuiet ==
    ASSUME FlowInv, AccountInv, TrainingStep \/ EndingStep \/ WaitingStep
    PROVE  AccountInv'
<1> USE DEF WithBatch, Training, InHand, Ahead, Passed, LostNow, LostIfSaved, Running, OneStepOff
<1>1. CASE TrainingStep
  <2>1. SavedInv'
    BY <1>1 DEF TrainingStep, AccountInv, SavedInv, flowVars
  <2>2. TrainedInv'
    BY <1>1 DEF TrainingStep, AccountInv, TrainedInv, flowVars, progressVars
  <2>3. RunInv'
    BY <1>1 DEF TrainingStep, AccountInv, RunInv, flowVars, progressVars
  <2>4. StepInv'
    BY <1>1 DEF TrainingStep, AccountInv, StepInv, flowVars, progressVars
  <2> QED
    BY <2>1, <2>2, <2>3, <2>4 DEF AccountInv
<1>2. CASE EndingStep
  <2>1. SavedInv'
    BY <1>2 DEF EndingStep, AccountInv, SavedInv, flowVars
  <2>2. TrainedInv'
    BY <1>2 DEF EndingStep, AccountInv, TrainedInv, flowVars, progressVars
  <2>3. RunInv'
    BY <1>2 DEF EndingStep, AccountInv, RunInv, flowVars, progressVars
  <2>4. StepInv'
    BY <1>2 DEF EndingStep, AccountInv, StepInv, flowVars, progressVars
  <2> QED
    BY <2>1, <2>2, <2>3, <2>4 DEF AccountInv
<1>3. CASE WaitingStep
  BY <1>3 DEF WaitingStep, AccountInv, SavedInv, TrainedInv, RunInv, StepInv, trainerVars, stepVars,
     progressVars
<1> QED
  BY <1>1, <1>2, <1>3

\* The other steps, one by one.
LEMMA AccountNext ==
    ASSUME FlowInv, AccountInv, [Next]_vars
    PROVE  AccountInv'
<1> USE DEF WithBatch, Training, InHand, Ahead, Passed, LostNow, LostIfSaved, Running, OneStepOff
<1>1. CASE LoadCheckpoint
  <2>1. SavedInv'
    BY <1>1 DEF LoadCheckpoint, AccountInv, SavedInv
  <2>2. TrainedInv'
    <3>1. /\ fit = "start" /\ fit' # "start" /\ trained' = saved.trained
          /\ position' = saved.position /\ restarts' = restarts /\ setup' = setup
      BY <1>1 DEF LoadCheckpoint
    <3>2. /\ saved.position \in Nat /\ saved.trained \in Seq(Nat) /\ Increasing(saved.trained)
          /\ UpTo(saved.trained, saved.position)
          /\ saved.position - Len(saved.trained) <= LostNow /\ LostNow \in Nat
      BY <3>1 DEF AccountInv, SavedInv
    <3>3. saved.trained # <<>> => saved.trained[Len(saved.trained)] - Len(saved.trained) <= LostNow
      <4> HIDE DEF LostNow
      <4>1. Len(saved.trained) \in Nat
        BY <3>2
      <4> QED
        BY <3>2, <4>1, LastUpTo
    <3>4. LostNow' = LostNow
      BY <3>1
    <3>5. global_steps' \in Nat
      BY <1>1, <3>2 DEF LoadCheckpoint, AccountInv, SavedInv
    <3> HIDE DEF LostNow
    <3> QED
      BY <3>1, <3>2, <3>3, <3>4, <3>5 DEF TrainedInv
  <2>3. RunInv'
    BY <1>1 DEF LoadCheckpoint, AccountInv, SavedInv, TrainedInv, RunInv, StepInv, FlowInv
  <2>4. StepInv'
    BY <1>1 DEF LoadCheckpoint, AccountInv, SavedInv, StepInv
  <2> QED
    BY <2>1, <2>2, <2>3, <2>4 DEF AccountInv
<1>2. CASE FirstGeneration
  <2>1. SavedInv'
    BY <1>2, Started DEF FirstGeneration, AccountInv, SavedInv
  <2>2. TrainedInv'
    BY <1>2, Started DEF FirstGeneration, AccountInv, TrainedInv
  <2>3. RunInv'
    <3>1. /\ \/ position' = position + 1 /\ future'.id = position' /\ future'.state # "none"
             \/ future'.state = "none" /\ position' = position
          /\ future.state = "none" /\ trained' = trained /\ restarts' = restarts /\ setup' = setup
          /\ fit = "first" /\ fit' = "await" /\ batch' = batch /\ position \in Nat
      BY <1>2, Started DEF FirstGeneration, AccountInv, TrainedInv, FlowInv, stepVars
    <3>2. Passed' = Passed /\ (position' - Ahead') = (position - Ahead)
      BY <3>1
    <3> QED
      BY <3>1, <3>2 DEF AccountInv, RunInv
  <2>4. StepInv'
    BY <1>2, Started DEF FirstGeneration, AccountInv, StepInv
  <2> QED
    BY <2>1, <2>2, <2>3, <2>4 DEF AccountInv
<1>3. CASE DrawBatch
  <2>1. SavedInv'
    BY <1>3, Started DEF DrawBatch, AccountInv, SavedInv
  <2>2. TrainedInv'
    BY <1>3, Started DEF DrawBatch, AccountInv, TrainedInv
  <2>3. RunInv'
    BY <1>3, Started DEF DrawBatch, AccountInv, TrainedInv, RunInv, FlowInv
  <2>4. StepInv'
    BY <1>3, Started DEF DrawBatch, AccountInv, StepInv
  <2> QED
    BY <2>1, <2>2, <2>3, <2>4 DEF AccountInv
<1>4. CASE TakeBatch
  <2>1. SavedInv'
    BY <1>4 DEF TakeBatch, AccountInv, SavedInv, NoBatch
  <2>2. TrainedInv'
    BY <1>4 DEF TakeBatch, AccountInv, TrainedInv, NoBatch
  <2>3. RunInv'
    BY <1>4 DEF TakeBatch, AccountInv, TrainedInv, RunInv, FlowInv, NoBatch
  <2>4. StepInv'
    BY <1>4 DEF TakeBatch, AccountInv, StepInv, NoBatch
  <2> QED
    BY <2>1, <2>2, <2>3, <2>4 DEF AccountInv
<1>5. CASE SyncAndGenerateNext
  <2>1. SavedInv'
    BY <1>5, Started DEF SyncAndGenerateNext, AccountInv, SavedInv
  <2>2. TrainedInv'
    BY <1>5, Started DEF SyncAndGenerateNext, AccountInv, TrainedInv
  <2>3. RunInv'
    <3>1. /\ \/ position' = position + 1 /\ future'.id = position' /\ future'.state # "none"
             \/ future'.state = "none" /\ position' = position
          /\ future.state = "none"
      <4>1. CASE is_last_step
        BY <1>5, <4>1 DEF SyncAndGenerateNext, FlowInv
      <4>2. CASE ~is_last_step
        BY <1>5, <4>2, Started DEF SyncAndGenerateNext, FlowInv
      <4> QED
        BY <4>1, <4>2
    <3>2. /\ trained' = trained /\ restarts' = restarts /\ setup' = setup
          /\ fit = "sync" /\ fit' = "reward" /\ batch' = batch /\ position \in Nat
      BY <1>5 DEF SyncAndGenerateNext, AccountInv, TrainedInv, stepVars
    <3>3. Passed' = Passed /\ (position' - Ahead') = (position - Ahead)
      BY <3>1, <3>2
    <3> QED
      BY <3>1, <3>2, <3>3 DEF AccountInv, RunInv
  <2>4. StepInv'
    BY <1>5, Started DEF SyncAndGenerateNext, AccountInv, StepInv
  <2> QED
    BY <2>1, <2>2, <2>3, <2>4 DEF AccountInv
<1>6. CASE UpdateActor
  <2> DEFINE t == Append(trained, Passed + 1)
  <2>0. /\ fit = "update" /\ fit' = "end" /\ trained' = Append(trained, batch.id)
        /\ UNCHANGED <<setup, global_steps, position, future, batch, saved, restarts>>
    BY <1>6 DEF UpdateActor, stepVars
  <2>a. /\ trained \in Seq(Nat) /\ Passed \in Nat /\ Increasing(trained) /\ UpTo(trained, Passed)
        /\ batch.id = position - Ahead /\ position \in Nat /\ restarts \in Nat
        /\ Passed - Len(trained) <= LostNow /\ Len(trained) = global_steps - 1
    BY <2>0 DEF AccountInv, SavedInv, TrainedInv, RunInv, StepInv
  <2>b. batch.id = Passed + 1 /\ Passed' = Passed + 1 /\ trained' = t /\ LostNow' = LostNow
    BY <2>0, <2>a
  <2>c. /\ t \in Seq(Nat) /\ Increasing(t) /\ UpTo(t, Passed + 1)
        /\ Len(t) = Len(trained) + 1 /\ Len(trained) \in Nat /\ t[Len(t)] = Passed + 1
    <3> HIDE DEF Passed
    <3> QED
      BY <2>a, AppendAscending
  <2>d. /\ Passed + 1 - Len(t) <= LostNow /\ Passed + 1 \in Nat /\ Len(t) = global_steps
        /\ Len(t) \in Nat /\ LostNow \in Nat
    <3> HIDE DEF t, Passed, LostNow
    <3>1. global_steps = Len(trained) + 1
      BY <2>a, <2>c DEF AccountInv, TrainedInv
    <3>2. LostNow \in Nat
      BY <2>a DEF LostNow
    <3> QED
      BY <2>a, <2>c, <3>1, <3>2
  <2> HIDE DEF t
  <2>1. SavedInv'
    BY <2>0 DEF AccountInv, SavedInv
  <2>2. TrainedInv'
    <3> HIDE DEF Passed, LostNow
    <3>1. trained' \in Seq(Nat) /\ Increasing(trained')
      BY <2>b, <2>c
    <3>2. trained'[Len(trained')] - Len(trained') <= LostNow'
      <4>1. Len(trained') = Len(t) /\ trained'[Len(trained')] = Passed + 1 /\ LostNow' = LostNow
        BY <2>b, <2>c
      <4> QED
        BY <2>a, <2>d, <4>1
    <3>3. position' \in Nat /\ global_steps' \in Nat /\ fit' # "start"
      BY <2>0 DEF AccountInv, TrainedInv
    <3> QED
      BY <3>1, <3>2, <3>3 DEF TrainedInv
  <2>3. RunInv'
    <3>1. future'.state # "none" => future'.id = position'
      BY <2>0 DEF AccountInv, RunInv
    <3>2. Passed' \in Nat /\ UpTo(trained', Passed') /\ Passed' - Len(trained') <= LostNow'
      <4> HIDE DEF Passed, LostNow
      <4>1. Passed' \in Nat
        BY <2>b, <2>d
      <4>2. UpTo(trained', Passed')
        BY <2>b, <2>c
      <4>3. Passed' - Len(trained') <= LostNow'
        <5>1. Len(trained') = Len(t) /\ Passed' = Passed + 1 /\ LostNow' = LostNow
          BY <2>b
        <5> QED
          BY <2>a, <2>d, <5>1
      <4> QED
        BY <4>1, <4>2, <4>3
    <3> QED
      BY <2>0, <3>1, <3>2 DEF RunInv
  <2>4. StepInv'
    BY <2>0, <2>b, <2>d DEF StepInv
  <2> QED
    BY <2>1, <2>2, <2>3, <2>4 DEF AccountInv
<1>7. CASE EndStep
  <2>1. SavedInv'
    <3>1. fit = "end" /\ fit' # "start" /\ restarts' = restarts /\ setup' = setup
      BY <1>7 DEF EndStep
    <3>2. saved' = saved \/ saved' = Checkpoint
      BY <1>7 DEF EndStep
    <3>3. CASE saved' = saved
      BY <3>1, <3>3 DEF AccountInv, SavedInv
    <3>4. CASE saved' = Checkpoint
      <4>1. saved'.position = position /\ saved'.trained = trained /\ saved'.step = global_steps
        BY <3>4 DEF Checkpoint
      <4>2. /\ Passed \in Nat /\ Passed = position - Ahead /\ UpTo(trained, Passed)
            /\ Passed - Len(trained) <= LostNow /\ Len(trained) = global_steps
            /\ position \in Nat /\ trained \in Seq(Nat) /\ Increasing(trained) /\ restarts \in Nat
            /\ ~OneStepOff => Ahead = 0
        <5>1. /\ Passed \in Nat /\ UpTo(trained, Passed) /\ Passed - Len(trained) <= LostNow
              /\ Passed = position - (Ahead + 0)
          BY <3>1 DEF AccountInv, RunInv
        <5>2. /\ position \in Nat /\ trained \in Seq(Nat) /\ Increasing(trained) /\ restarts \in Nat
              /\ Len(trained) = global_steps
          BY <3>1 DEF AccountInv, SavedInv, TrainedInv, StepInv
        <5>3. ~OneStepOff => Ahead = 0
          BY <3>1 DEF FlowInv
        <5>4. Ahead \in 0..1
          OBVIOUS
        <5> HIDE DEF Passed, Ahead, LostNow, OneStepOff
        <5> QED
          BY <5>1, <5>2, <5>3, <5>4
      <4>3. \A i \in DOMAIN trained : trained[i] \in Nat
        BY <4>2
      <4>4. UpTo(trained, position)
        BY <4>2, <4>3 DEF UpTo
      <4>5. position - Len(trained) <= LostIfSaved'
        <5>1. Len(trained) \in Nat
          BY <4>2
        <5> QED
          BY <3>1, <4>2, <5>1
      <4> QED
        BY <3>1, <4>1, <4>2, <4>4, <4>5 DEF SavedInv
    <3> QED
      BY <3>2, <3>3, <3>4
  <2>2. TrainedInv'
    BY <1>7 DEF EndStep, AccountInv, TrainedInv, Checkpoint
  <2>3. RunInv'
    BY <1>7 DEF EndStep, AccountInv, RunInv, Checkpoint
  <2>4. StepInv'
    BY <1>7 DEF EndStep, AccountInv, StepInv, Checkpoint
  <2> QED
    BY <2>1, <2>2, <2>3, <2>4 DEF AccountInv
<1>8. CASE FinishGeneration
  <2>1. SavedInv'
    BY <1>8, Generates DEF FinishGeneration, AccountInv, SavedInv, progressVars
  <2>2. TrainedInv'
    BY <1>8, Generates DEF FinishGeneration, AccountInv, TrainedInv, progressVars
  <2>3. RunInv'
    <3>1. /\ future.state # "none" /\ future'.state # "none" /\ future'.id = future.id
          /\ UNCHANGED <<setup, fit, position, trained, batch, restarts>>
      BY <1>8, Generates DEF FlowInv, progressVars, stepVars
    <3>2. Passed' = Passed /\ Ahead' = Ahead
      BY <3>1
    <3> QED
      BY <3>1, <3>2 DEF AccountInv, RunInv
  <2>4. StepInv'
    BY <1>8, Generates DEF FinishGeneration, AccountInv, StepInv, progressVars
  <2> QED
    BY <2>1, <2>2, <2>3, <2>4 DEF AccountInv
<1>9. CASE Crash
  <2>1. SavedInv'
    BY <1>9 DEF Crash, AccountInv, SavedInv, NoBatch
  <2>2. TrainedInv'
    <3>1. trained' = <<>> /\ position' = 0 /\ global_steps' = 0
      BY <1>9 DEF Crash
    <3>2. <<>> \in Seq(Nat) /\ DOMAIN <<>> = {}
      OBVIOUS
    <3> QED
      BY <3>1, <3>2 DEF TrainedInv, Increasing
  <2>3. RunInv'
    BY <1>9 DEF Crash, AccountInv, RunInv, NoBatch
  <2>4. StepInv'
    BY <1>9 DEF Crash, AccountInv, StepInv, NoBatch
  <2> QED
    BY <2>1, <2>2, <2>3, <2>4 DEF AccountInv
<1> QED
  BY <1>1, <1>2, <1>3, <1>4, <1>5, <1>6, <1>7, <1>8, <1>9, StepsOfTheLoop, AccountQuiet

\* Through crashes and resumes no batch gets into the weights twice, and what they
\* leave out is at most one batch per restart, in the colocated loop none (fit(),
\* _save_checkpoint and _load_checkpoint), for any number of steps, batches and
\* restarts and any frequency of checkpoints.
THEOREM BatchesAreAccounted == Spec => []BatchesAccounted
<1>1. Init => FlowInv /\ AccountInv
  BY FlowInit, AccountInit
<1>2. FlowInv /\ AccountInv /\ [Next]_vars => (FlowInv /\ AccountInv)'
  BY FlowNext, AccountNext
<1>3. AccountInv => BatchesAccounted
  <2> SUFFICES ASSUME AccountInv PROVE BatchesAccounted
    OBVIOUS
  <2>1. \A i, j \in DOMAIN trained : i < j => trained[i] < trained[j]
    BY DEF AccountInv, TrainedInv, Increasing
  <2>2. trained # <<>> => Last(trained) - Len(trained) <= IF OneStepOff THEN restarts ELSE 0
    BY DEF AccountInv, TrainedInv, LostNow, Last
  <2>3. fit \notin {"start", "end"} /\ fit \notin Ended => Len(trained) = global_steps - 1
    BY DEF AccountInv, StepInv, Running, Ended
  <2> QED
    BY <2>1, <2>2, <2>3 DEF BatchesAccounted
<1> QED
  BY <1>1, <1>2, <1>3, PTL DEF Spec

--------------------------------------------------------------------------------
(* The batch the trainer handles: every row once, in the order of the ranks.  *)

RowsIn(s) == s.prompts * s.n

\* What a configuration is.
LEMMA ConfigIs ==
  ASSUME NEW s \in Setups
  PROVE  /\ s.prompts \in Nat \ {0} /\ s.n \in Nat \ {0} /\ s.mesh.dp \in Nat \ {0}
         /\ s.mesh.sp \in Nat \ {0} /\ s.agent_workers \in Nat \ {0} /\ s.max_token_len \in Nat \ {0}
         /\ RowsIn(s) \in Nat \ {0}
         /\ Divided(RowsIn(s), s.mesh.dp) /\ Divided(RowsIn(s), s.agent_workers)
         /\ s.prefix_grouper => Divided(s.prompts, s.mesh.dp)
         /\ \A i \in 1 .. RowsIn(s) : s.lens[i] \in 1 .. s.max_token_len
<1> DEFINE T == /\ {s.prompts, s.n, s.mesh.dp, s.mesh.sp, s.agent_workers, s.total_training_steps,
                    s.batches, s.max_token_len} \subseteq Nat \ {0}
                /\ \A i \in 1 .. RowsIn(s) : s.lens[i] \in 1 .. s.max_token_len
                /\ RowsIn(s) % s.mesh.dp = 0
                /\ RowsIn(s) % s.agent_workers = 0
                /\ s.prefix_grouper => s.prompts % s.mesh.dp = 0
<1>1. T
  BY TrainerAssumption, Zenon DEF RowsIn
<1>2. /\ s.prompts \in Nat \ {0} /\ s.n \in Nat \ {0} /\ s.mesh.dp \in Nat \ {0}
      /\ s.mesh.sp \in Nat \ {0} /\ s.agent_workers \in Nat \ {0} /\ s.max_token_len \in Nat \ {0}
  BY <1>1, Zenon
<1>3. RowsIn(s) \in Nat \ {0}
  <2>1. \A x, y \in Nat \ {0} : x * y \in Nat \ {0}
    OBVIOUS
  <2> QED
    BY <1>2, <2>1, Zenon DEF RowsIn
<1>4. Divided(RowsIn(s), s.mesh.dp) /\ Divided(RowsIn(s), s.agent_workers)
  <2>1. RowsIn(s) \in Nat
    BY <1>3
  <2> QED
    BY <1>1, <1>2, <2>1, DividedIs, Zenon
<1>5. ASSUME s.prefix_grouper  PROVE Divided(s.prompts, s.mesh.dp)
  <2>1. s.prompts \in Nat
    BY <1>2
  <2> QED
    BY <1>1, <1>2, <1>5, <2>1, DividedIs, Zenon
<1> QED
  BY <1>1, <1>2, <1>3, <1>4, <1>5, Zenon

\* Cutting the batch into chunks for the agent loop workers and putting it
\* together leaves it as it was.
LEMMA GeneratedIs ==
  ASSUME NEW s \in Setups
  PROVE  Generated(s) = [p \in 1 .. RowsIn(s) |-> p]
<1>1. PICK N \in Nat : N = RowsIn(s)
  BY ConfigIs
<1>2. PICK c \in Nat \ {0} : c = s.agent_workers
  BY ConfigIs
<1>3. PICK size \in Nat : EqualParts(N, c, size)
  <2>1. Divided(N, c)
    BY <1>1, <1>2, ConfigIs
  <2> QED
    BY <2>1, DividedIs
<1>4. PICK rows : rows = [p \in 1 .. N |-> p]
  OBVIOUS
<1>5. rows \in Seq(Nat) /\ Len(rows) = N
  BY <1>4
<1>6. EqualParts(Len(rows), c, size)
  BY <1>3, <1>5
<1>7. Concat(Chunk(rows, c)) = rows
  BY <1>5, <1>6, ChunksJoined
<1> QED
  BY <1>1, <1>2, <1>4, <1>7, Zenon DEF Generated, RowsIn

\* The lengths of rows of the batch.
LEMMA LensAre ==
  ASSUME NEW s \in Setups, NEW n \in Nat, NEW rows \in [1 .. n -> 1 .. RowsIn(s)]
  PROVE  Lens(s, rows) \in [1 .. n -> Nat \ {0}]
<1>1. \A i \in 1 .. RowsIn(s) : s.lens[i] \in Nat \ {0}
  <2>1. PICK m \in Nat : m = s.max_token_len
    BY ConfigIs
  <2>2. \A i \in 1 .. RowsIn(s) : s.lens[i] \in 1 .. m
    BY <2>1, ConfigIs, Zenon
  <2>3. \A x \in 1 .. m : x \in Nat \ {0}
    OBVIOUS
  <2> QED
    BY <2>2, <2>3, Zenon
<1>2. \A p \in 1 .. n : rows[p] \in 1 .. RowsIn(s)
  BY Zenon
<1>3. \A p \in 1 .. n : s.lens[rows[p]] \in Nat \ {0}
  BY <1>1, <1>2, Zenon
<1>4. DOMAIN rows = 1 .. n
  BY Zenon
<1>5. Lens(s, rows) = [p \in 1 .. n |-> s.lens[rows[p]]]
  BY <1>4, Zenon DEF Lens
<1> QED
  BY <1>3, <1>5, Zenon

\* _balance_batch hands every row to a rank, with and without prefix_grouper.
LEMMA OrdersList ==
  ASSUME NEW s \in Setups
  PROVE  Lists(Orders[s], 1 .. RowsIn(s)) /\ Len(Orders[s]) = RowsIn(s)
<1>1. PICK N \in Nat \ {0} : N = RowsIn(s)
  BY ConfigIs
<1>2. PICK dp \in Nat \ {0} : dp = s.mesh.dp
  BY ConfigIs
<1>3. PICK rows : rows = Generated(s)
  OBVIOUS
<1>4. rows = [p \in 1 .. N |-> p]
  BY <1>1, <1>3, GeneratedIs
<1>5. PICK lens : lens = Lens(s, rows)
  OBVIOUS
<1>6. lens \in [1 .. N -> Nat \ {0}]
  <2>1. rows \in [1 .. N -> 1 .. RowsIn(s)]
    BY <1>1, <1>4
  <2> QED
    BY <1>5, <2>1, LensAre
<1>7. Orders[s] = Order(s)
  BY Zenon DEF Orders
<1>8. Lists(Order(s), 1 .. N)
  <2>1. CASE ~s.balance_batch
    <3>1. Order(s) = [p \in 1 .. N |-> p]
      BY <1>3, <1>4, <2>1, Zenon DEF Order
    <3>2. PICK o : o = [p \in 1 .. N |-> p]
      OBVIOUS
    <3>3. o \in Seq(1 .. N) /\ Len(o) = N /\ \A p \in 1 .. N : o[p] = p
      BY <3>2
    <3>4. Lists(o, 1 .. N)
      BY <3>3 DEF Lists
    <3> QED
      BY <3>1, <3>2, <3>4
  <2>2. CASE s.balance_batch /\ s.prefix_grouper
    <3>1. Order(s) = GroupedOrder(lens, RepeatedUids(s), dp)
      BY <1>2, <1>3, <1>5, <2>2, Zenon DEF Order
    <3>2. RepeatedUids(s) = Copies(s.prompts, s.n)
      BY Zenon DEF RepeatedUids, Copies
    <3>3. PICK prompts \in Nat \ {0} : prompts = s.prompts
      BY ConfigIs
    <3>4. PICK n \in Nat \ {0} : n = s.n
      BY ConfigIs
    <3>5. PICK uids : uids = Copies(prompts, n)
      OBVIOUS
    <3>6. AreCopies(uids, prompts, n) /\ Len(uids) = N
      <4>1. AreCopies(uids, prompts, n)
        BY <3>5, UidsAre
      <4>2. Len(uids) = prompts * n
        BY <4>1, Zenon DEF AreCopies
      <4>3. N = prompts * n
        BY <1>1, <3>3, <3>4, Zenon DEF RowsIn
      <4> QED
        BY <4>1, <4>2, <4>3, Zenon
    <3>7. Divided(prompts, dp)
      BY <1>2, <2>2, <3>3, ConfigIs, Zenon
    <3>8. Lists(GroupedOrder(lens, uids, dp), 1 .. N)
      BY <1>6, <3>6, <3>7, GroupedOrderLists
    <3>9. RepeatedUids(s) = uids
      BY <3>2, <3>3, <3>4, <3>5, Zenon
    <3> QED
      BY <3>1, <3>8, <3>9, Zenon
  <2>3. CASE s.balance_batch /\ ~s.prefix_grouper
    <3>1. Order(s) = BalancedOrder(lens, dp)
      BY <1>2, <1>3, <1>5, <2>3, Zenon DEF Order
    <3>2. PICK groups \in Nat : N = groups * dp
      BY <1>1, <1>2, ConfigIs, Zenon DEF Divided
    <3>3. Lists(BalancedOrder(lens, dp), 1 .. N)
      BY <1>6, <3>2, BalancedOrderLists
    <3> QED
      BY <3>1, <3>3, Zenon
  <2> QED
    BY <2>1, <2>2, <2>3
<1>9. Len(Order(s)) = N
  <2>1. Cardinality(1 .. N) = Len(Order(s))
    BY <1>8, ListLength
  <2>2. Cardinality(1 .. N) = N
    BY UpToIsFinite
  <2> QED
    BY <2>1, <2>2
<1> QED
  BY <1>1, <1>7, <1>8, <1>9, Zenon

\* The rows of a batch are in that order.
LEMMA HandedOut ==
  ASSUME NEW s \in Setups
  PROVE  /\ Reorder(Generated(s), Orders[s]) = Orders[s]
         /\ Orders[s] \in [1 .. RowsIn(s) -> 1 .. RowsIn(s)]
         /\ ToSet(Orders[s]) = 1 .. RowsIn(s)
<1>1. PICK N \in Nat \ {0} : N = RowsIn(s)
  BY ConfigIs
<1>2. PICK order : order = Orders[s]
  OBVIOUS
<1>3. Lists(order, 1 .. N) /\ Len(order) = N
  BY <1>1, <1>2, OrdersList
<1>a. order \in Seq(1 .. N)
  BY <1>3 DEF Lists
<1>4. order \in [1 .. N -> 1 .. N] /\ DOMAIN order = 1 .. N
  BY <1>3, <1>a
<1>5. Generated(s) = [p \in 1 .. N |-> p]
  BY <1>1, GeneratedIs
<1>6. Reorder([p \in 1 .. N |-> p], order) = order
  BY <1>4 DEF Reorder
<1>7. ToSet(order) = 1 .. N
  <2>1. \A x \in 1 .. N : \E p \in 1 .. N : order[p] = x
    BY <1>3 DEF Lists
  <2> QED
    BY <1>4, <2>1 DEF ToSet
<1> QED
  BY <1>1, <1>2, <1>4, <1>5, <1>6, <1>7, Zenon

--------------------------------------------------------------------------------
(* What the ranks compute.                                                    *)

\* The rows of a rank, and their number.
LEMMA RankRows ==
  ASSUME NEW s \in Setups, NEW V, NEW rows \in Seq(V), Len(rows) = RowsIn(s)
  PROVE  \E each \in Nat \ {0} :
            /\ EqualParts(RowsIn(s), s.mesh.dp, each)
            /\ ChunksAre(Chunk(rows, s.mesh.dp), rows, s.mesh.dp, each, V)
<1>1. PICK N \in Nat \ {0} : N = RowsIn(s)
  BY ConfigIs
<1>2. PICK dp \in Nat \ {0} : dp = s.mesh.dp
  BY ConfigIs
<1>3. PICK each \in Nat : EqualParts(N, dp, each) /\ (N > 0 => each > 0)
  <2>1. Divided(N, dp)
    BY <1>1, <1>2, ConfigIs
  <2> QED
    BY <2>1, DividedIs
<1>4. each \in Nat \ {0}
  BY <1>3
<1>5. ChunksAre(Chunk(rows, dp), rows, dp, each, V)
  <2>1. EqualParts(Len(rows), dp, each)
    BY <1>1, <1>3
  <2> QED
    BY <2>1, ChunksJoined
<1> QED
  BY <1>1, <1>2, <1>3, <1>4, <1>5, Zenon

\* Every rank has as many rows, each of a positive length.
LEMMA RankLensAre ==
  ASSUME NEW s \in Setups, NEW each \in Nat, EqualParts(RowsIn(s), s.mesh.dp, each)
  PROVE  \A d \in 1 .. s.mesh.dp : RankLens(s)[d] \in [1 .. each -> Nat \ {0}]
<1>1. PICK N \in Nat \ {0} : N = RowsIn(s)
  BY ConfigIs
<1>2. PICK dp \in Nat \ {0} : dp = s.mesh.dp
  BY ConfigIs
<1>3. PICK rows \in Seq(1 .. N) : rows = Orders[s] /\ Len(rows) = N
  <2>1. Lists(Orders[s], 1 .. N) /\ Len(Orders[s]) = N
    BY <1>1, OrdersList
  <2> QED
    BY <2>1 DEF Lists
<1>4. PICK chunks : chunks = Chunk(rows, dp)
  OBVIOUS
<1>5. ChunksAre(chunks, rows, dp, each, 1 .. N)
  <2>1. EqualParts(Len(rows), dp, each)
    BY <1>1, <1>2, <1>3
  <2> QED
    BY <1>4, <2>1, ChunksJoined
<1>6. RankLens(s) = [d \in DOMAIN chunks |-> Lens(s, chunks[d])]
  <2>1. Reorder(Generated(s), Orders[s]) = rows
    BY <1>3, HandedOut
  <2> QED
    BY <1>2, <1>4, <2>1, Zenon DEF RankLens
<1>7. ASSUME NEW d \in 1 .. dp  PROVE RankLens(s)[d] \in [1 .. each -> Nat \ {0}]
  <2>1. PICK chunk \in Seq(1 .. N) : chunk = chunks[d] /\ Len(chunk) = each
    BY <1>5, Zenon DEF ChunksAre
  <2>2. chunk \in [1 .. each -> 1 .. RowsIn(s)]
    <3>1. chunk \in [1 .. each -> 1 .. N]
      BY <2>1
    <3> QED
      BY <1>1, <3>1, Zenon
  <2>3. Lens(s, chunk) \in [1 .. each -> Nat \ {0}]
    BY <2>2, LensAre
  <2>4. DOMAIN chunks = 1 .. dp
    BY <1>5, Zenon DEF ChunksAre
  <2>5. RankLens(s)[d] = Lens(s, chunk)
    BY <1>6, <2>1, <2>4, Zenon
  <2> QED
    BY <2>3, <2>5, Zenon
<1> QED
  BY <1>2, <1>7, Zenon

\* All ranks cut their rows into the same number of micro-batches, none empty.
LEMMA MicroBatchCountIs ==
  ASSUME NEW s \in Setups, NEW each \in Nat \ {0}, EqualParts(RowsIn(s), s.mesh.dp, each)
  PROVE  MicroBatchCount(s) \in 1 .. each
<1>1. PICK dp \in Nat \ {0} : dp = s.mesh.dp
  BY ConfigIs
<1>2. PICK max \in Nat \ {0} : max = s.max_token_len
  BY ConfigIs
<1> DEFINE wanted == {MicroBatchesWanted(RankLens(s)[d], max) : d \in 1 .. dp}
<1>3. \A d \in 1 .. dp : MicroBatchesWanted(RankLens(s)[d], max) \in 1 .. each
  <2> SUFFICES ASSUME NEW d \in 1 .. dp
               PROVE  MicroBatchesWanted(RankLens(s)[d], max) \in 1 .. each
    OBVIOUS
  <2>1. PICK lens : lens = RankLens(s)[d]
    OBVIOUS
  <2>2. lens \in [1 .. each -> Nat \ {0}]
    BY <1>1, <2>1, RankLensAre
  <2>3. MicroBatchesWanted(lens, max) \in 1 .. each
    BY <2>2, WantedIs
  <2> QED
    BY <2>1, <2>3
<1>4. wanted \subseteq 1 .. each /\ wanted # {}
  <2>1. 1 \in 1 .. dp
    OBVIOUS
  <2> QED
    BY <1>3, <2>1, Zenon
<1> HIDE DEF wanted
<1>5. \E m \in wanted : \A k \in wanted : k <= m
  <2>1. wanted \subseteq Int /\ each \in Int /\ \A y \in wanted : y <= each
    BY <1>4
  <2>2. Max(wanted) \in wanted /\ \A y \in wanted : Max(wanted) >= y
    BY <1>4, <2>1, MaxIs
  <2>3. PICK m \in wanted : m = Max(wanted)
    BY <2>2
  <2>4. \A y \in wanted : y <= m
    <3> SUFFICES ASSUME NEW y \in wanted  PROVE y <= m
      OBVIOUS
    <3>1. m >= y /\ m \in Int /\ y \in Int
      BY <2>1, <2>2, <2>3
    <3> QED
      BY <3>1
  <2> QED
    BY <2>4
<1>6. MicroBatchCount(s) \in wanted
  <2>1. MicroBatchCount(s) = CHOOSE m \in wanted : \A k \in wanted : k <= m
    BY <1>1, <1>2, Zenon DEF MicroBatchCount, wanted
  <2> QED
    BY <1>5, <2>1, Zenon
<1> QED
  BY <1>4, <1>6

\* A rank's micro-batches have each of its rows once.
LEMMA BatchIdxListsAre ==
  ASSUME NEW s \in Setups, NEW each \in Nat \ {0}, EqualParts(RowsIn(s), s.mesh.dp, each),
         NEW d \in 1 .. s.mesh.dp
  PROVE  IsPartition(BatchIdxLists[s][d], each, MicroBatchCount(s)) /\ MicroBatchCount(s) \in Nat \ {0}
<1>1. PICK k \in 1 .. each : k = MicroBatchCount(s)
  BY MicroBatchCountIs
<1>2. PICK lens \in [1 .. each -> Nat \ {0}] : lens = RankLens(s)[d]
  BY RankLensAre
<1>3. BatchIdxLists[s][d] = MicroBatches(lens, k)
  BY <1>1, <1>2, Zenon DEF BatchIdxLists
<1>4. k \in Nat \ {0} /\ k <= each
  OBVIOUS
<1>5. IsPartition(MicroBatches(lens, k), each, k)
  BY <1>4, MicroBatchesAre
<1> QED
  BY <1>1, <1>3, <1>4, <1>5, Zenon

\* A worker has the rows of its rank, whose number is one of the ranks.
LEMMA RankOfWorker ==
  ASSUME NEW mesh, mesh.dp \in Nat \ {0}, mesh.sp \in Nat \ {0}, NEW w \in MeshWorkers(mesh)
  PROVE  DpRank(mesh, w) \in 1 .. mesh.dp
<1>1. PICK dp \in Nat \ {0} : dp = mesh.dp
  OBVIOUS
<1>2. PICK sp \in Nat \ {0} : sp = mesh.sp
  OBVIOUS
<1>3. w \in 1 .. dp * sp
  BY <1>1, <1>2, Zenon DEF MeshWorkers
<1>4. PICK v \in Nat : v = w - 1 /\ v < dp * sp
  <2>1. PICK N \in Nat : N = dp * sp
    <3>1. \A x, y \in Nat : x * y \in Nat
      OBVIOUS
    <3> QED
      BY <3>1
  <2>2. w \in 1 .. N
    BY <1>3, <2>1
  <2>3. w - 1 \in Nat /\ w - 1 < N
    BY <2>2
  <2> QED
    BY <2>1, <2>3
<1>5. PICK q \in Nat : \E r \in 0 .. sp - 1 : v = sp * q + r
  BY Quotient
<1>6. PICK r \in 0 .. sp - 1 : v = sp * q + r
  BY <1>5
<1>7. v \div sp = q
  <2>1. (q * sp + r) \div sp = q
    BY DivMod
  <2>2. sp * q = q * sp
    OBVIOUS
  <2> QED
    BY <1>6, <2>1, <2>2
<1>8. q < dp
  <2> SUFFICES ASSUME q >= dp  PROVE FALSE
    OBVIOUS
  <2>1. PICK e \in Nat : q = dp + e
    <3>1. q - dp \in Nat /\ q = dp + (q - dp)
      OBVIOUS
    <3> QED
      BY <3>1
  <2>2. sp * (dp + e) = dp * sp + sp * e /\ sp * e \in Nat
    <3>1. \A x, y, z \in Nat : z * (x + y) = x * z + z * y /\ z * y \in Nat
      OBVIOUS
    <3> QED
      BY <3>1
  <2>3. PICK b \in Nat : b = sp * e
    BY <2>2
  <2>4. PICK N \in Nat : N = dp * sp
    <3>1. \A x, y \in Nat : x * y \in Nat
      OBVIOUS
    <3> QED
      BY <3>1
  <2>5. sp * q = N + b
    BY <2>1, <2>2, <2>3, <2>4
  <2>6. v < N
    BY <1>4, <2>4
  <2> QED
    BY <1>6, <2>5, <2>6
<1>9. DpRank(mesh, w) = q + 1
  BY <1>2, <1>4, <1>7, Zenon DEF DpRank
<1> QED
  BY <1>1, <1>8, <1>9

\* What the ranks compute comes back in the order of the batch, with static and
\* with dynamic micro-batches.
LEMMA ComputedColumn ==
  ASSUME setup \in Setups, NEW V, NEW rows \in Seq(V), Len(rows) = RowsIn(setup)
  PROVE  ComputeColumn(rows) = rows
<1>1. PICK dp \in Nat \ {0} : dp = setup.mesh.dp
  BY ConfigIs
<1>2. setup.mesh.dp \in Nat \ {0} /\ setup.mesh.sp \in Nat \ {0}
  BY ConfigIs
<1>3. PICK each \in Nat \ {0} : /\ EqualParts(RowsIn(setup), setup.mesh.dp, each)
                              /\ ChunksAre(Chunk(rows, setup.mesh.dp), rows, setup.mesh.dp, each, V)
  BY RankRows
<1> DEFINE sent == DispatchNd(setup.mesh, rows)
           back == [w \in MeshWorkers(setup.mesh) |->
                       ComputeOnRank(sent[w], BatchIdxLists[setup][DpRank(setup.mesh, w)])]
<1>4. ASSUME NEW w \in MeshWorkers(setup.mesh)
      PROVE  ComputeOnRank(sent[w], BatchIdxLists[setup][DpRank(setup.mesh, w)]) = sent[w]
  <2>1. PICK d : d = DpRank(setup.mesh, w)
    OBVIOUS
  <2>2. d \in 1 .. setup.mesh.dp
    BY <1>2, <2>1, RankOfWorker
  <2>3. sent[w] = Chunk(rows, setup.mesh.dp)[d]
    BY <2>1, Zenon DEF DispatchNd
  <2>4. PICK own \in Seq(V) : own = sent[w] /\ Len(own) = each
    BY <1>3, <2>2, <2>3, Zenon DEF ChunksAre
  <2>5. PICK parts : parts = BatchIdxLists[setup][d]
    OBVIOUS
  <2>6. PICK k \in Nat \ {0} : IsPartition(parts, each, k)
    BY <1>3, <2>2, <2>5, BatchIdxListsAre
  <2>7. restore_dynamic_batch(Concat([m \in DOMAIN parts |-> AtIndices(own, parts[m])]), parts) = own
    BY <2>4, <2>6, RestoredBatch
  <2>8. ComputeOnRank(own, parts) = own
    BY <2>7, Zenon DEF ComputeOnRank
  <2> QED
    BY <2>1, <2>4, <2>5, <2>8, Zenon
<1>5. sent = [w \in MeshWorkers(setup.mesh) |-> sent[w]]
  BY Zenon DEF DispatchNd
<1>6. back = sent
  <2> HIDE DEF sent
  <2> QED
    BY <1>4, <1>5, Zenon
<1>7. ComputeColumn(rows) = CollectNd(setup.mesh, sent)
  BY <1>6, Zenon DEF ComputeColumn
<1>8. CollectNd(setup.mesh, sent) = rows
  BY <1>2, <1>3, CollectedDispatch
<1> QED
  BY <1>7, <1>8, Zenon

--------------------------------------------------------------------------------
(* Proof that rows stay aligned, for any batch size, group size, number of     *)
(* ranks, token bound and lengths: the orders and the micro-batches are lists of *)
(* all rows, so every column comes back from the workers in the order in which *)
(* its rows were sent.                                                         *)

\* What a batch is: the rows in the order of the ranks, each with its own uid and,
\* if they were scored while they were generated, its own score.
Aligned(b) ==
    /\ b.rows = Orders[setup]
    /\ b.uids = Uids(b.rows)
    /\ setup.reward = "loop" => b.rm_scores = b.rows

\* What the controller computes for a batch it holds is in the order of the batch.
ColumnsInv ==
    /\ future.state = "ready" => Aligned(future)
    /\ fit \in WithBatch => Aligned(batch)
    /\ fit = "scoring" => reward_rows = batch.rows
    /\ fit \in {"old_log_prob", "adv", "update"} =>
          IF setup.reward = "async" THEN reward_rows = batch.rows ELSE scores = batch.rows
    /\ fit \in {"adv", "update"} => old_log_probs = batch.rows
    /\ fit = "update" => scores = batch.rows /\ advantages = Advantages(batch.rows)

\* A generation that does not fail makes such a batch.
LEMMA GeneratesAligned ==
    ASSUME FlowInv, FinishGeneration, future'.state = "ready"
    PROVE  Aligned(future)'
<1>1. /\ setup' = setup /\ setup \in Setups
      /\ future'.rows = Reorder(Generated(setup), Orders[setup])
      /\ future'.uids = Reorder(RepeatedUids(setup), Orders[setup])
      /\ setup.reward = "loop" => future'.rm_scores = future'.rows
  <2>1. CASE setup.reward = "loop" /\ ~ChunkKeysFit
    BY <2>1 DEF FinishGeneration, FlowInv, IsBatch
  <2>2. CASE ~(setup.reward = "loop" /\ ~ChunkKeysFit)
    BY <2>2 DEF FinishGeneration, FlowInv, IsBatch
  <2> QED
    BY <2>1, <2>2
<1>2. future'.rows = Orders[setup]
  BY <1>1, HandedOut
<1>3. future'.uids = Uids(future'.rows)
  BY <1>1, <1>2, Zenon DEF Reorder, Uids, Prompt
<1>4. \A rows : Uids(rows)' = Uids(rows)
  BY <1>1, Zenon DEF Uids, Prompt
<1> QED
  BY <1>1, <1>2, <1>3, <1>4 DEF Aligned

\* A batch stays what it is while the configuration does.
LEMMA StaysAligned ==
    ASSUME setup' = setup
    PROVE  /\ batch' = batch => (Aligned(batch)' <=> Aligned(batch))
           /\ future' = future => (Aligned(future)' <=> Aligned(future))
           /\ batch' = future => (Aligned(batch)' <=> Aligned(future))
           /\ batch' = batch => \A column : Advantages(column)' = Advantages(column)
<1>1. \A rows : Uids(rows)' = Uids(rows)
  BY Zenon DEF Uids, Prompt
<1> QED
  BY <1>1, Zenon DEF Aligned, Advantages, Group

\* ColumnsInv holds when the job starts.
LEMMA ColumnsInit == Init => ColumnsInv
  BY DEF Init, ColumnsInv, NoBatch, WithBatch, Training

\* The batch in hand is a sequence of all the rows.
LEMMA BatchRows ==
    ASSUME FlowInv, Aligned(batch)
    PROVE  /\ setup \in Setups
           /\ batch.rows \in Seq(1..RowsIn(setup)) /\ Len(batch.rows) = RowsIn(setup)
           /\ ToSet(batch.rows) = 1..RowsIn(setup)
<1>1. setup \in Setups /\ batch.rows = Orders[setup]
  BY DEF FlowInv, Aligned
<1>2. Lists(Orders[setup], 1..RowsIn(setup)) /\ Len(Orders[setup]) = RowsIn(setup)
  BY <1>1, OrdersList
<1>3. Orders[setup] \in Seq(1..RowsIn(setup))
  BY <1>2, Zenon DEF Lists
<1> QED
  BY <1>1, <1>2, <1>3, HandedOut, Zenon

\* Every step keeps ColumnsInv.
LEMMA ColumnsNext ==
    ASSUME FlowInv, ColumnsInv, [Next]_vars
    PROVE  ColumnsInv'
<1> USE DEF WithBatch, Training
<1>0. setup' = setup => /\ batch' = batch => (Aligned(batch)' <=> Aligned(batch))
                        /\ future' = future => (Aligned(future)' <=> Aligned(future))
                        /\ batch' = future => (Aligned(batch)' <=> Aligned(future))
                        /\ batch' = batch => \A column : Advantages(column)' = Advantages(column)
  BY StaysAligned
<1>1. CASE WaitingStep
  BY <1>0, <1>1 DEF WaitingStep, ColumnsInv, trainerVars, stepVars
<1>2. CASE EndingStep
  BY <1>0, <1>2 DEF EndingStep, ColumnsInv, flowVars
<1>3. CASE LoadCheckpoint
  BY <1>0, <1>3 DEF LoadCheckpoint, ColumnsInv
<1>4. CASE FirstGeneration
  BY <1>0, <1>4, Started DEF FirstGeneration, ColumnsInv
<1>5. CASE DrawBatch
  BY <1>0, <1>5, Started DEF DrawBatch, ColumnsInv
<1>6. CASE TakeBatch
  BY <1>0, <1>6 DEF TakeBatch, ColumnsInv, NoBatch
<1>7. CASE SyncAndGenerateNext
  BY <1>0, <1>7, Started DEF SyncAndGenerateNext, ColumnsInv, stepVars
<1>8. CASE ScoresAtHand
  BY <1>0, <1>8 DEF ScoresAtHand, ColumnsInv, Aligned
<1>9. CASE LaunchRewards
  BY <1>0, <1>9 DEF LaunchRewards, ColumnsInv
<1>10. CASE BlockingRewards
  BY <1>0, <1>10 DEF BlockingRewards, CollectRewards, ColumnsInv
<1>11. CASE ComputeLogProb
  <2>1. ComputeColumn(batch.rows) = batch.rows
    <3>1. Aligned(batch)
      BY <1>11 DEF ComputeLogProb, ColumnsInv
    <3> QED
      BY <3>1, BatchRows, ComputedColumn
  <2> QED
    BY <1>0, <1>11, <2>1 DEF ComputeLogProb, ColumnsInv
<1>12. CASE ComputeAdvantage
  BY <1>0, <1>12 DEF ComputeAdvantage, ColumnsInv
<1>13. CASE CollectThenComputeAdvantage
  BY <1>0, <1>13 DEF CollectThenComputeAdvantage, CollectRewards, ColumnsInv
<1>14. CASE UpdateActor
  BY <1>0, <1>14 DEF UpdateActor, ColumnsInv, stepVars
<1>15. CASE EndStep
  BY <1>0, <1>15 DEF EndStep, ColumnsInv
<1>16. CASE FinishGeneration
  BY <1>0, <1>16, Generates, GeneratesAligned DEF FlowInv, ColumnsInv, stepVars
<1>17. CASE Crash
  BY <1>17 DEF Crash, ColumnsInv, NoBatch
<1>18. CASE DataExhausted \/ TakeNothing \/ UpdateRefused
  BY <1>0, <1>18 DEF DataExhausted, TakeNothing, UpdateRefused, ColumnsInv, stepVars
<1>19. CASE Limiter \/ UNCHANGED vars
  <2>1. WaitingStep
    BY <1>19 DEF Limiter, vars, WaitingStep
  <2> QED
    BY <1>1, <2>1
<1>20. ASSUME NEW r \in Requests, RowGenerated(r)
       PROVE  ColumnsInv'
  <2>1. WaitingStep
    BY <1>20 DEF RowGenerated, WaitingStep
  <2> QED
    BY <1>1, <2>1
<1>21. CASE Finished
  <2>1. WaitingStep
    BY <1>21 DEF Finished, vars, WaitingStep
  <2> QED
    BY <1>1, <2>1
<1>22. CASE Next
  BY <1>3, <1>4, <1>5, <1>6, <1>7, <1>8, <1>9, <1>10, <1>11, <1>12, <1>13, <1>14, <1>15, <1>16,
     <1>17, <1>18, <1>19, <1>20, <1>21, <1>22 DEF Next, Loop, Generation
<1> QED
  BY <1>19, <1>22

\* The group of an advantage.
LEMMA GroupsAre ==
    ASSUME FlowInv, Aligned(batch), NEW p \in DOMAIN batch.rows
    PROVE  /\ Advantages(batch.rows)[p].row = batch.rows[p]
           /\ Advantages(batch.rows)[p].group
                = {r \in 1..RowsIn(setup) : Prompt(r) = Prompt(batch.rows[p])}
<1>1. PICK rows : rows = batch.rows
  OBVIOUS
<1>2. ToSet(rows) = 1..RowsIn(setup)
  BY <1>1, BatchRows
<1>3. \A q \in DOMAIN rows : batch.uids[q] = Prompt(rows[q])
  BY <1>1, Zenon DEF Aligned, Uids
<1>4. ToSet(rows) = {rows[q] : q \in DOMAIN rows}
  BY Zenon DEF ToSet
<1>5. Group(rows, p) = {r \in 1..RowsIn(setup) : Prompt(r) = Prompt(rows[p])}
  <2>1. Group(rows, p) = {rows[q] : q \in {q \in DOMAIN rows : batch.uids[q] = batch.uids[p]}}
    BY Zenon DEF Group
  <2>2. p \in DOMAIN rows
    BY <1>1
  <2>3. ASSUME NEW r \in Group(rows, p)
        PROVE  r \in 1..RowsIn(setup) /\ Prompt(r) = Prompt(rows[p])
    <3>1. PICK q \in DOMAIN rows : batch.uids[q] = batch.uids[p] /\ r = rows[q]
      BY <2>1, Zenon
    <3> QED
      BY <1>2, <1>3, <1>4, <2>2, <3>1, Zenon
  <2>4. ASSUME NEW r \in 1..RowsIn(setup), Prompt(r) = Prompt(rows[p])
        PROVE  r \in Group(rows, p)
    <3>1. PICK q \in DOMAIN rows : r = rows[q]
      BY <1>2, <1>4, Zenon
    <3>2. batch.uids[q] = batch.uids[p]
      BY <1>3, <2>2, <2>4, <3>1, Zenon
    <3> QED
      BY <2>1, <3>1, <3>2, Zenon
  <2> QED
    BY <2>3, <2>4, Zenon
<1>6. Advantages(rows)[p] = [row |-> rows[p], group |-> Group(rows, p)]
  BY <1>1, Zenon DEF Advantages
<1> QED
  BY <1>1, <1>5, <1>6

\* For any configuration, numbers of rows and ranks and any lengths of responses:
\* when the workers are given the batch, every row is there once, and its uid, its
\* score, its old log-probabilities and the group of its advantage are its own
\* (_balance_batch, dispatch_nd_compute, restore_dynamic_batch, compute_advantage).
THEOREM RowsStayAligned == Spec => []RowsAligned
<1>1. Init => FlowInv /\ ColumnsInv
  BY FlowInit, ColumnsInit
<1>2. FlowInv /\ ColumnsInv /\ [Next]_vars => (FlowInv /\ ColumnsInv)'
  BY FlowNext, ColumnsNext
<1>3. FlowInv /\ ColumnsInv => RowsAligned
  <2> SUFFICES ASSUME FlowInv, ColumnsInv, fit = "update" PROVE RowsAligned
    BY DEF RowsAligned
  <2>1. Aligned(batch) /\ scores = batch.rows /\ old_log_probs = batch.rows
    BY DEF ColumnsInv, WithBatch, Training
  <2>2. advantages = Advantages(batch.rows)
    BY DEF ColumnsInv
  <2>3. NumRows = RowsIn(setup) /\ AllRows = 1..RowsIn(setup)
    BY Zenon DEF NumRows, AllRows, RowsIn
  <2>4. Len(batch.rows) = NumRows /\ ToSet(batch.rows) = AllRows
    BY <2>1, <2>3, BatchRows
  <2>5. batch.uids = Uids(batch.rows)
    BY <2>1 DEF Aligned
  <2>6. DOMAIN advantages = DOMAIN batch.rows
    BY <2>2, Zenon DEF Advantages
  <2>7. \A p \in DOMAIN advantages :
           /\ advantages[p].row = batch.rows[p]
           /\ advantages[p].group = {r \in AllRows : Prompt(r) = Prompt(batch.rows[p])}
    BY <2>1, <2>2, <2>3, <2>6, GroupsAre, Zenon
  <2> QED
    BY <2>1, <2>4, <2>5, <2>7, Zenon DEF RowsAligned
<1> QED
  BY <1>1, <1>2, <1>3, PTL DEF Spec

--------------------------------------------------------------------------------
(* Proof of the types of the loops' variables: the numbers of steps, the       *)
(* versions of the weights, and the batches and columns, each from the invariants *)
(* above.                                                                      *)

MostSteps == setup.total_training_steps + restarts
AtRest == Ended \union {"start"}

\* A run that returned, started again, trains one step more: it sees that its step
\* is the last only when it has drawn a batch.
StepsInv ==
    /\ restarts \in 0..setup.max_restarts
    /\ is_last_step \in BOOLEAN
    /\ saved.step \in Nat /\ saved.step <= MostSteps
    /\ fit = "start" => saved.step + 1 <= MostSteps
    /\ global_steps \in Nat
    /\ global_steps <= MostSteps + 1
    /\ fit \notin AtRest => global_steps <= MostSteps
    /\ fit \in WithBatch \union {"end"} =>
          (is_last_step <=> global_steps >= setup.total_training_steps)

\* Versions count the batches in the weights, in the actor, the rollout and the
\* checkpoint.
VersionsInv ==
    /\ position \in 0..setup.batches /\ saved.position \in 0..setup.batches
    /\ actor_version \in 0..Len(trained)
    /\ rollout_version \in 0..actor_version
    /\ saved.version \in 0..Len(saved.trained)
    /\ future.version \in 0..actor_version /\ batch.version \in 0..actor_version
    /\ fit = "start" => /\ actor_version = 0 /\ rollout_version = 0
                        /\ future.version = 0 /\ batch.version = 0

\* Batches and columns are made of rows.
BatchOK(b) ==
    /\ b.id \in 0..setup.batches
    /\ b.rows \in Seq(1..RowsIn(setup)) /\ b.rm_scores \in Seq(1..RowsIn(setup))
    /\ b.state \in {"none", "generating", "ready", "failed"}
ColumnsOK ==
    /\ fit \in Ended \union {"start", "first", "next", "await", "sync", "reward", "scoring",
                             "old_log_prob", "adv", "update", "end"}
    /\ ragged \in BOOLEAN
    /\ BatchOK(future) /\ BatchOK(batch)
    /\ reward_rows \in Seq(1..RowsIn(setup))
    /\ scores \in Seq(1..RowsIn(setup))
    /\ old_log_probs \in Seq(1..RowsIn(setup))

\* Numbers of a configuration.
LEMMA ConfigNumbers ==
    ASSUME NEW s \in Setups
    PROVE  /\ s.total_training_steps \in Nat /\ s.total_training_steps > 0
           /\ s.batches \in Nat /\ s.max_restarts \in Nat
<1>1. /\ {s.prompts, s.n, s.mesh.dp, s.mesh.sp, s.agent_workers, s.total_training_steps,
          s.batches, s.max_token_len} \subseteq Nat \ {0}
      /\ {s.save_freq, s.critic_warmup, s.max_restarts} \subseteq Nat
  BY TrainerAssumption, Zenon
<1>2. s.total_training_steps \in Nat \ {0} /\ s.batches \in Nat \ {0} /\ s.max_restarts \in Nat
  BY <1>1, Zenon
<1> QED
  BY <1>2

\* The three hold when the job starts.
LEMMA TypesInit == Init => StepsInv /\ VersionsInv /\ ColumnsOK
<1> SUFFICES ASSUME Init PROVE StepsInv /\ VersionsInv /\ ColumnsOK
  OBVIOUS
<1>1. setup \in Setups
  BY DEF Init
<1>2. <<>> \in Seq(1..RowsIn(setup)) /\ Len(<<>>) = 0
  OBVIOUS
<1>3. StepsInv
  <2>1. /\ fit = "start" /\ restarts = 0 /\ saved.step = 0 /\ global_steps = 0
    BY DEF Init
  <2>4. is_last_step \in BOOLEAN
    BY Zenon DEF Init
  <2>2. setup.total_training_steps \in Nat /\ setup.total_training_steps > 0 /\ setup.max_restarts \in Nat
    BY <1>1, ConfigNumbers
  <2>3. fit \in AtRest /\ fit \notin WithBatch \union {"end"}
    BY <2>1 DEF AtRest, WithBatch, Training
  <2> HIDE DEF AtRest, WithBatch
  <2> QED
    BY <2>1, <2>2, <2>3, <2>4 DEF StepsInv, MostSteps
<1>4. VersionsInv
  BY <1>1, <1>2, ConfigNumbers DEF Init, VersionsInv, NoBatch
<1>5. ColumnsOK
  <2>1. /\ fit = "start" /\ ragged = FALSE /\ future = NoBatch /\ batch = NoBatch
        /\ reward_rows = <<>> /\ scores = <<>> /\ old_log_probs = <<>>
    BY DEF Init, NoColumn
  <2>2. NoBatch.id = 0 /\ NoBatch.rows = <<>> /\ NoBatch.rm_scores = <<>> /\ NoBatch.state = "none"
    BY DEF NoBatch
  <2>3. 0 \in 0..setup.batches
    BY <1>1, ConfigNumbers
  <2> QED
    BY <1>2, <2>1, <2>2, <2>3, Zenon DEF ColumnsOK, BatchOK
<1> QED
  BY <1>3, <1>4, <1>5

\* Every step keeps the numbers of steps.
LEMMA StepsNext ==
    ASSUME FlowInv, StepsInv, [Next]_vars
    PROVE  StepsInv'
<1> USE DEF WithBatch, Training, AtRest, Ended, MostSteps
<1>0. setup \in Setups /\ /\ setup.total_training_steps \in Nat /\ setup.total_training_steps > 0
                         /\ setup.max_restarts \in Nat
  BY ConfigNumbers DEF FlowInv
<1>1. CASE TrainingStep
  BY <1>0, <1>1 DEF TrainingStep, StepsInv, flowVars, progressVars
<1>2. CASE EndingStep
  BY <1>0, <1>2 DEF EndingStep, StepsInv, flowVars, progressVars
<1>3. CASE WaitingStep
  BY <1>0, <1>3 DEF WaitingStep, StepsInv, trainerVars, progressVars
<1>4. CASE LoadCheckpoint
  <2>1. /\ fit = "start" /\ global_steps' = saved.step + 1
        /\ fit' \in {"first", "next"} /\ setup' = setup /\ saved' = saved /\ restarts' = restarts
    BY <1>4 DEF LoadCheckpoint
  <2>2. is_last_step' \in BOOLEAN
    BY <1>4, Zenon DEF LoadCheckpoint
  <2> QED
    BY <1>0, <2>1, <2>2 DEF StepsInv
<1>5. CASE FirstGeneration
  BY <1>0, <1>5 DEF FirstGeneration, StepsInv
<1>6. CASE DrawBatch
  BY <1>0, <1>6 DEF DrawBatch, StepsInv
<1>7. CASE TakeBatch
  <2>1. /\ fit = "await" /\ global_steps' = global_steps /\ fit' \in {"sync", "reward"}
        /\ setup' = setup /\ saved' = saved /\ restarts' = restarts
    BY <1>7 DEF TakeBatch
  <2>4. LastStep \in BOOLEAN /\ (LastStep <=> global_steps >= setup.total_training_steps)
    BY DEF LastStep
  <2>5. is_last_step' = LastStep
    BY <1>7, Zenon DEF TakeBatch
  <2>2. is_last_step' \in BOOLEAN /\ (is_last_step' <=> global_steps >= setup.total_training_steps)
    BY <2>4, <2>5, Zenon
  <2>3. /\ global_steps \in Nat /\ global_steps <= MostSteps /\ restarts \in 0..setup.max_restarts
        /\ saved.step \in Nat /\ saved.step <= MostSteps
    BY <2>1 DEF StepsInv
  <2> QED
    BY <1>0, <2>1, <2>2, <2>3 DEF StepsInv
<1>8. CASE SyncAndGenerateNext
  BY <1>0, <1>8 DEF SyncAndGenerateNext, StepsInv
<1>9. CASE UpdateActor
  BY <1>0, <1>9 DEF UpdateActor, StepsInv
<1>10. CASE EndStep
  BY <1>0, <1>10 DEF EndStep, StepsInv, Checkpoint
<1>11. CASE FinishGeneration
  BY <1>0, <1>11 DEF FinishGeneration, StepsInv, progressVars
<1>12. CASE Crash
  <2>1. /\ fit' = "start" /\ global_steps' = 0 /\ setup' = setup
        /\ saved' = saved /\ restarts' = restarts + 1 /\ restarts < setup.max_restarts
    BY <1>12 DEF Crash
  <2>2. is_last_step' \in BOOLEAN
    BY <1>12, Zenon DEF Crash
  <2> QED
    BY <1>0, <2>1, <2>2 DEF StepsInv
<1> QED
  BY <1>1, <1>2, <1>3, <1>4, <1>5, <1>6, <1>7, <1>8, <1>9, <1>10, <1>11, <1>12, StepsOfTheLoop

\* What a generation that is started has.
LEMMA StartsBatch ==
    ASSUME NEW version, StartGeneration(version)
    PROVE  \/ /\ position < setup.batches /\ position' = position + 1 /\ future'.id = position + 1
              /\ future'.version = version /\ future'.state = "generating"
              /\ future'.rows = <<>> /\ future'.rm_scores = <<>>
           \/ position' = position /\ future' = NoBatch
<1>1. CASE position < setup.batches
  <2>1. /\ position' = position + 1
        /\ future' = [NoBatch EXCEPT !.id = position + 1, !.version = version,
                                     !.state = "generating"]
    BY <1>1 DEF StartGeneration
  <2> DEFINE n == position + 1
  <2>2. future' = [id |-> n, rows |-> <<>>, uids |-> <<>>, rm_scores |-> <<>>,
                   version |-> version, last_version |-> 0, state |-> "generating"]
    <3> HIDE DEF n
    <3> QED
      BY <2>1, Zenon DEF NoBatch, n
  <2>3. /\ future'.id = n /\ future'.version = version /\ future'.state = "generating"
        /\ future'.rows = <<>> /\ future'.rm_scores = <<>>
    <3> HIDE DEF n
    <3> QED
      BY <2>2
  <2> QED
    BY <1>1, <2>1, <2>3, Zenon
<1>2. CASE ~(position < setup.batches)
  BY <1>2 DEF StartGeneration
<1> QED
  BY <1>1, <1>2

\* Every step keeps the versions.
LEMMA VersionsNext ==
    ASSUME FlowInv, AccountInv, VersionsInv, [Next]_vars
    PROVE  VersionsInv'
<1> USE DEF WithBatch, Training, OneStepOff
<1>0. setup \in Setups /\ setup.batches \in Nat
  BY ConfigNumbers DEF FlowInv
<1>a. /\ trained \in Seq(Nat) /\ saved.trained \in Seq(Nat)
      /\ Len(trained) \in Nat /\ Len(saved.trained) \in Nat
  BY DEF AccountInv, TrainedInv, SavedInv
<1>1. CASE TrainingStep
  BY <1>0, <1>a, <1>1 DEF TrainingStep, VersionsInv, flowVars, progressVars
<1>2. CASE EndingStep
  BY <1>0, <1>a, <1>2 DEF EndingStep, VersionsInv, flowVars, progressVars
<1>3. CASE WaitingStep
  BY <1>0, <1>a, <1>3 DEF WaitingStep, VersionsInv, trainerVars, progressVars, stepVars
<1>4. CASE LoadCheckpoint
  BY <1>0, <1>a, <1>4 DEF LoadCheckpoint, VersionsInv, stepVars
<1>5. CASE FirstGeneration
  BY <1>0, <1>a, <1>5, StartsBatch DEF FirstGeneration, VersionsInv, stepVars, NoBatch
<1>6. CASE DrawBatch
  BY <1>0, <1>a, <1>6, StartsBatch DEF DrawBatch, VersionsInv, stepVars, NoBatch
<1>7. CASE TakeBatch
  BY <1>0, <1>a, <1>7 DEF TakeBatch, VersionsInv, NoBatch
<1>8. CASE SyncAndGenerateNext
  BY <1>0, <1>a, <1>8, StartsBatch DEF SyncAndGenerateNext, VersionsInv, stepVars, NoBatch
<1>9. CASE UpdateActor
  <2>1. Len(trained') = Len(trained) + 1
    BY <1>a, <1>9 DEF UpdateActor
  <2> QED
    BY <1>0, <1>a, <1>9, <2>1 DEF UpdateActor, VersionsInv, stepVars
<1>10. CASE EndStep
  BY <1>0, <1>a, <1>10 DEF EndStep, VersionsInv, NoBatch, Checkpoint
<1>11. CASE FinishGeneration
  BY <1>0, <1>a, <1>11, Generates DEF FlowInv, VersionsInv, stepVars, progressVars
<1>12. CASE Crash
  BY <1>0, <1>a, <1>12 DEF Crash, VersionsInv, NoBatch
<1> QED
  BY <1>1, <1>2, <1>3, <1>4, <1>5, <1>6, <1>7, <1>8, <1>9, <1>10, <1>11, <1>12, StepsOfTheLoop

\* Every step keeps batches and columns made of rows.
LEMMA ColumnsOKNext ==
    ASSUME FlowInv, VersionsInv, ColumnsInv, ColumnsOK, [Next]_vars
    PROVE  ColumnsOK'
<1> USE DEF Ended
<1>0. setup \in Setups /\ setup.batches \in Nat
  BY ConfigNumbers DEF FlowInv
<1>a. <<>> \in Seq(1..RowsIn(setup))
  OBVIOUS
<1>b. setup' = setup => RowsIn(setup)' = RowsIn(setup)
  BY DEF RowsIn
<1>c. BatchOK(NoBatch) /\ (setup' = setup => BatchOK(NoBatch)')
  BY <1>0, <1>a, <1>b DEF BatchOK, NoBatch
<1>d. ASSUME NEW version, StartGeneration(version), setup' = setup
      PROVE  BatchOK(future)'
  <2>1. CASE position' = position /\ future' = NoBatch
    BY <1>c, <1>d, <2>1, Zenon DEF BatchOK
  <2>2. CASE /\ position < setup.batches /\ future'.id = position + 1
             /\ future'.state = "generating" /\ future'.rows = <<>> /\ future'.rm_scores = <<>>
    <3>1. future'.id \in 0..setup.batches
      BY <1>0, <2>2 DEF VersionsInv
    <3>2. future'.rows \in Seq(1..RowsIn(setup)) /\ future'.rm_scores \in Seq(1..RowsIn(setup))
      BY <1>a, <2>2, Zenon
    <3>3. setup'.batches = setup.batches /\ RowsIn(setup)' = RowsIn(setup)
      BY <1>b, <1>d, Zenon
    <3> QED
      BY <2>2, <3>1, <3>2, <3>3, Zenon DEF BatchOK
  <2> QED
    BY <1>d, <2>1, <2>2, StartsBatch, Zenon
<1>e. setup' = setup => /\ future' = future => BatchOK(future)'
                        /\ batch' = batch => BatchOK(batch)'
                        /\ batch' = future => BatchOK(batch)'
  BY <1>b DEF ColumnsOK, BatchOK
<1>1. CASE LoadCheckpoint
  BY <1>1, <1>b, <1>e DEF LoadCheckpoint, ColumnsOK, stepVars
<1>2. CASE FirstGeneration
  BY <1>2, <1>b, <1>d, <1>e DEF FirstGeneration, ColumnsOK, stepVars
<1>3. CASE DrawBatch
  BY <1>3, <1>b, <1>d, <1>e DEF DrawBatch, ColumnsOK, stepVars
<1>4. CASE TakeBatch
  BY <1>4, <1>b, <1>c, <1>e DEF TakeBatch, ColumnsOK
<1>5. CASE SyncAndGenerateNext
  BY <1>5, <1>b, <1>d, <1>e DEF SyncAndGenerateNext, ColumnsOK, stepVars
<1>6. CASE ScoresAtHand
  BY <1>6, <1>b, <1>e DEF ScoresAtHand, ColumnsOK, BatchOK
<1>7. CASE LaunchRewards
  BY <1>7, <1>b, <1>e DEF LaunchRewards, ColumnsOK, BatchOK
<1>8. CASE BlockingRewards
  BY <1>8, <1>b, <1>e DEF BlockingRewards, CollectRewards, Ragged, ColumnsOK
<1>9. CASE ComputeLogProb
  <2>1. ComputeColumn(batch.rows) = batch.rows
    <3>1. Aligned(batch)
      BY <1>9 DEF ComputeLogProb, ColumnsInv, WithBatch, Training
    <3> QED
      BY <3>1, BatchRows, ComputedColumn
  <2> QED
    BY <1>9, <1>b, <1>e, <2>1 DEF ComputeLogProb, ColumnsOK, BatchOK
<1>10. CASE ComputeAdvantage
  BY <1>10, <1>b, <1>e DEF ComputeAdvantage, ColumnsOK
<1>11. CASE CollectThenComputeAdvantage
  BY <1>11, <1>b, <1>e DEF CollectThenComputeAdvantage, CollectRewards, Ragged, ColumnsOK
<1>12. CASE UpdateActor
  BY <1>12, <1>b, <1>e DEF UpdateActor, ColumnsOK, stepVars
<1>13. CASE EndStep
  BY <1>13, <1>a, <1>b, <1>c, <1>e DEF EndStep, ColumnsOK, NoColumn
<1>14. CASE FinishGeneration
  <2>1. /\ setup' = setup /\ fit' = fit /\ UNCHANGED stepVars
    BY <1>14 DEF FinishGeneration
  <2>2. BatchOK(future)'
    <3>1. CASE future'.state = "ready"
      <4>1. /\ future'.id = future.id /\ future'.rows = Reorder(Generated(setup), Orders[setup])
            /\ future'.rm_scores = future'.rows \/ future'.rm_scores = <<>>
        <5>1. CASE setup.reward = "loop" /\ ~ChunkKeysFit
          BY <1>14, <3>1, <5>1 DEF FinishGeneration, FlowInv, IsBatch
        <5>2. CASE ~(setup.reward = "loop" /\ ~ChunkKeysFit)
          BY <1>14, <5>2 DEF FinishGeneration, FlowInv, IsBatch, NoColumn
        <5> QED
          BY <5>1, <5>2
      <4>2. Orders[setup] \in Seq(1..RowsIn(setup)) /\ Reorder(Generated(setup), Orders[setup]) = Orders[setup]
        BY <1>0, OrdersList, HandedOut, Zenon DEF Lists
      <4> QED
        BY <1>a, <1>b, <2>1, <3>1, <4>1, <4>2 DEF ColumnsOK, BatchOK
    <3>2. CASE future'.state # "ready"
      <4>1. future' = [future EXCEPT !.state = "failed"]
        BY <1>14, <3>2 DEF FinishGeneration, FlowInv, IsBatch
      <4>2. /\ future'.id = future.id /\ future'.rows = future.rows
            /\ future'.rm_scores = future.rm_scores /\ future'.state = "failed"
        BY <4>1 DEF FlowInv, IsBatch
      <4> QED
        BY <1>b, <2>1, <4>2 DEF ColumnsOK, BatchOK
    <3> QED
      BY <3>1, <3>2
  <2> QED
    BY <1>b, <1>e, <2>1, <2>2 DEF ColumnsOK, stepVars
<1>15. CASE Crash
  BY <1>15, <1>a, <1>b, <1>c, <1>e DEF Crash, ColumnsOK, NoColumn
<1>16. CASE DataExhausted \/ TakeNothing \/ UpdateRefused
  BY <1>16, <1>b, <1>e DEF DataExhausted, TakeNothing, UpdateRefused, ColumnsOK, stepVars
<1>17. CASE WaitingStep
  BY <1>17, <1>b, <1>e DEF WaitingStep, trainerVars, ColumnsOK, stepVars
<1>18. ASSUME NEW r \in Requests, RowGenerated(r)
       PROVE  WaitingStep
  BY <1>18 DEF RowGenerated, WaitingStep
<1>19. CASE Limiter \/ Finished \/ UNCHANGED vars
  <2>1. WaitingStep
    BY <1>19 DEF Limiter, Finished, vars, WaitingStep
  <2> QED
    BY <1>17, <2>1
<1>20. CASE Next
  BY <1>1, <1>2, <1>3, <1>4, <1>5, <1>6, <1>7, <1>8, <1>9, <1>10, <1>11, <1>12, <1>13, <1>14, <1>15,
     <1>16, <1>17, <1>18, <1>19, <1>20 DEF Next, Loop, Generation
<1> QED
  BY <1>19, <1>20

\* The types of the training loops' variables, with the bounds of their counters:
\* no run makes more steps than configured and one more at each restart.
THEOREM TrainerTypesCorrect == Spec => []TypeOK
<1> DEFINE Inv == FlowInv /\ AccountInv /\ ColumnsInv /\ StepsInv /\ VersionsInv /\ ColumnsOK
<1>1. Init => Inv
  BY FlowInit, AccountInit, ColumnsInit, TypesInit
<1>2. Inv /\ [Next]_vars => Inv'
  BY FlowNext, AccountNext, ColumnsNext, StepsNext, VersionsNext, ColumnsOKNext
<1>3. Inv => TypeOK
  <2> SUFFICES ASSUME Inv PROVE TypeOK
    OBVIOUS
  <2>1. Columns = Seq(1..RowsIn(setup))
    BY Zenon DEF Columns, AllRows, NumRows, RowsIn
  <2>2. setup \in Setups
    BY DEF FlowInv
  <2>3. /\ setup.total_training_steps \in Nat /\ setup.max_restarts \in Nat
    BY <2>2, ConfigNumbers
  <2>4. /\ restarts \in 0..setup.max_restarts /\ is_last_step \in BOOLEAN
        /\ global_steps \in 0..(setup.total_training_steps + setup.max_restarts + 1)
        /\ saved.step \in 0..(setup.total_training_steps + setup.max_restarts)
    <3>1. /\ restarts \in 0..setup.max_restarts /\ is_last_step \in BOOLEAN
          /\ saved.step \in Nat /\ saved.step <= setup.total_training_steps + restarts
          /\ global_steps \in Nat /\ global_steps <= setup.total_training_steps + restarts + 1
      BY <2>3 DEF StepsInv, MostSteps
    <3> QED
      BY <2>3, <3>1
  <2>5. \A b \in {future, batch} :
           /\ b.id \in 0..setup.batches
           /\ b.rows \in Columns /\ b.rm_scores \in Columns
           /\ b.version \in 0..actor_version
           /\ b.state \in {"none", "generating", "ready", "failed"}
    BY <2>1 DEF ColumnsOK, BatchOK, VersionsInv
  <2>6. /\ position \in 0..setup.batches /\ actor_version \in 0..Len(trained)
        /\ rollout_version \in 0..actor_version
    BY DEF VersionsInv
  <2>7. /\ ragged \in BOOLEAN
        /\ fit \in Ended \union {"start", "first", "next", "await", "sync", "reward", "scoring",
                                 "old_log_prob", "adv", "update", "end"}
        /\ reward_rows \in Columns /\ scores \in Columns /\ old_log_probs \in Columns
    BY <2>1 DEF ColumnsOK
  <2> QED
    BY <2>2, <2>4, <2>5, <2>6, <2>7, Zenon DEF TypeOK
<1> QED
  BY <1>1, <1>2, <1>3, PTL DEF Spec
================================================================================
