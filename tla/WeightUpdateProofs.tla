------------------------- MODULE WeightUpdateProofs -------------------------
(***************************************************************************)
(* Proofs about the parameter synchronization: the plan by which the        *)
(* parameters are packed into buckets, the transfer of the weights along   *)
(* it (BucketTransfer), and the generations that it interrupts             *)
(* (WeightUpdate).                                                         *)
(***************************************************************************)
EXTENDS WeightUpdate, DataLemmas

-----------------------------------------------------------------------------
(* The plan: every parameter in one bucket, no bucket too large.           *)

BucketRec == [size : Nat, metas : Seq(Params)]
Weight(metas) == SumFunction([j \in DOMAIN metas |-> weights_info[metas[j]]])

(* The buckets after the first n parameters.                               *)
Packed(buckets, n) ==
  /\ buckets \in [ToSet(ActorRanks) -> Seq(BucketRec)]
  /\ \A r \in ToSet(ActorRanks) :
       /\ buckets[r] # <<>> /\ Len(buckets[r]) <= n + 1
       /\ n > 0 => Len(buckets[r]) <= n
       /\ \A i \in DOMAIN buckets[r] :
            /\ buckets[r][i].size = Weight(buckets[r][i].metas)
            /\ buckets[r][i].size <= BucketSize
            /\ \A p \in ToSet(buckets[r][i].metas) : p <= n
  /\ \A p \in 1 .. n :
       \E r \in ToSet(ActorRanks) : \E i \in DOMAIN buckets[r] :
         /\ p \in ToSet(buckets[r][i].metas)
         /\ \A q \in ToSet(ActorRanks) : \A j \in DOMAIN buckets[q] :
              p \in ToSet(buckets[q][j].metas) => q = r /\ j = i

\* A list of parameters is not empty and its sizes are positive.
LEMMA ParamsAre ==
  ASSUME weights_info \in WeightsInfos
  PROVE  /\ weights_info \in Seq(Nat \ {0}) /\ Len(weights_info) \in Nat \ {0}
         /\ Params = 1 .. Len(weights_info)
         /\ \A p \in Params : weights_info[p] \in Nat \ {0}
BY TransferAssumption DEF Params

\* bucket_size is a number, and no parameter is larger.
LEMMA BucketSizeIs ==
  ASSUME weights_info \in WeightsInfos
  PROVE  BucketSize \in Nat /\ \A p \in Params : weights_info[p] <= BucketSize
<1> DEFINE n == Len(weights_info)
           Top(k) == \E p \in 1 .. k : \A q \in 1 .. k : weights_info[q] <= weights_info[p]
           Q == {k \in Nat : k = 0 \/ k > n \/ Top(k)}
<1>1. n \in Nat \ {0} /\ \A p \in 1 .. n : weights_info[p] \in Nat
  BY ParamsAre
<1> HIDE DEF n
<1>2. ASSUME NEW k \in Q  PROVE k + 1 \in Q
  <2>1. CASE k + 1 > n
    BY <2>1
  <2>2. CASE k + 1 <= n /\ k = 0
    BY <1>1, <2>2
  <2>3. CASE k + 1 <= n /\ k # 0
    <3>1. PICK p \in 1 .. k : \A q \in 1 .. k : weights_info[q] <= weights_info[p]
      BY <1>1, <2>3
    <3>2. p \in 1 .. n /\ k + 1 \in 1 .. n
      BY <1>1, <2>3
    <3>3. CASE weights_info[k + 1] <= weights_info[p]
      BY <1>1, <3>1, <3>2, <3>3
    <3>4. CASE ~(weights_info[k + 1] <= weights_info[p])
      <4>1. ASSUME NEW q \in 1 .. k + 1  PROVE weights_info[q] <= weights_info[k + 1]
        BY <1>1, <3>1, <3>2, <3>4
      <4> QED
        BY <4>1
    <3> QED
      BY <3>3, <3>4
  <2> QED
    BY <1>1, <2>1, <2>2, <2>3
<1>3. Q = Nat
  <2>1. Q \in SUBSET Nat /\ 0 \in Q
    OBVIOUS
  <2> HIDE DEF Q
  <2> QED
    BY <1>2, <2>1, LeastOutside
<1>4. Top(n)
  BY <1>1, <1>3
<1> DEFINE largest == CHOOSE p \in Params : \A q \in Params : weights_info[q] <= weights_info[p]
<1>5. Params = 1 .. n
  BY ParamsAre DEF n
<1>6. largest \in Params /\ \A q \in Params : weights_info[q] <= weights_info[largest]
  BY <1>4, <1>5, Zenon
<1> HIDE DEF largest
<1>7. BucketSize = IF DeviceBuffer < weights_info[largest]
                   THEN weights_info[largest] ELSE DeviceBuffer
  BY DEF BucketSize, largest
<1> QED
  BY <1>1, <1>5, <1>6, <1>7, TransferAssumption

\* The weight of a bucket that gets one more parameter.
LEMMA WeightAppends ==
  ASSUME weights_info \in WeightsInfos, NEW metas \in Seq(Params), NEW p \in Params
  PROVE  Weight(Append(metas, p)) = Weight(metas) + weights_info[p] /\ Weight(metas) \in Int
<1>1. PICK n \in Nat : n = Len(metas)
  OBVIOUS
<1> DEFINE m == Append(metas, p)
           f == [j \in 1 .. n + 1 |-> weights_info[m[j]]]
           g == [j \in 1 .. n |-> weights_info[metas[j]]]
<1>2. /\ DOMAIN m = 1 .. n + 1 /\ DOMAIN metas = 1 .. n /\ m[n + 1] = p
      /\ \A j \in 1 .. n : m[j] = metas[j] /\ metas[j] \in Params
      /\ \A j \in 1 .. n + 1 : m[j] \in Params
  BY <1>1
<1> HIDE DEF m
<1>3. f \in [1 .. n + 1 -> Int] /\ g \in [1 .. n -> Int] /\ f[n + 1] = weights_info[p]
      /\ \A j \in 1 .. n : g[j] = f[j]
  BY <1>2, ParamsAre
<1>4. Weight(m) = SumFunction(f) /\ Weight(metas) = SumFunction(g)
  BY <1>2 DEF Weight
<1> HIDE DEF f, g
<1>5. SumFunction(f) = SumFunction(g) + f[n + 1] /\ SumFunction(g) \in Int
  BY <1>3, SumAppends
<1> QED
  BY <1>3, <1>4, <1>5 DEF m

\* The weight of an empty bucket and of one with one parameter.
LEMMA SmallWeights ==
  ASSUME weights_info \in WeightsInfos
  PROVE  Weight(<<>>) = 0 /\ \A p \in Params : Weight(<<p>>) = weights_info[p]
<1>1. Weight(<<>>) = 0
  BY SumOfNothing DEF Weight
<1>2. ASSUME NEW p \in Params  PROVE Weight(<<p>>) = weights_info[p]
  <2>1. <<>> \in Seq(Params) /\ Append(<<>>, p) = <<p>>
    OBVIOUS
  <2>2. Weight(Append(<<>>, p)) = Weight(<<>>) + weights_info[p]
    BY <2>1, WeightAppends
  <2> QED
    BY <1>1, <2>1, <2>2, ParamsAre
<1> QED
  BY <1>1, <1>2

\* No bucket has a parameter yet.
LEMMA PackedFirst ==
  ASSUME weights_info \in WeightsInfos
  PROVE  Packed([r \in ToSet(ActorRanks) |-> <<EmptyBucket>>], 0)
<1> DEFINE b == [r \in ToSet(ActorRanks) |-> <<EmptyBucket>>]
<1>1. <<>> \in Seq(Params) /\ EmptyBucket \in BucketRec
  BY DEF EmptyBucket, BucketRec
<1>2. b \in [ToSet(ActorRanks) -> Seq(BucketRec)]
  BY <1>1
<1>3. ASSUME NEW r \in ToSet(ActorRanks)
      PROVE  /\ b[r] # <<>> /\ Len(b[r]) <= 1
             /\ \A i \in DOMAIN b[r] :
                  /\ b[r][i].size = Weight(b[r][i].metas)
                  /\ b[r][i].size <= BucketSize
                  /\ \A p \in ToSet(b[r][i].metas) : p <= 0
  <2>1. b[r] = <<EmptyBucket>>
    OBVIOUS
  <2>2. EmptyBucket.size = 0 /\ EmptyBucket.metas = <<>>
    BY DEF EmptyBucket
  <2>3. Weight(<<>>) = 0 /\ 0 <= BucketSize /\ ToSet(<<>>) = {}
    BY SmallWeights, BucketSizeIs DEF ToSet
  <2> HIDE DEF b
  <2> QED
    BY <2>1, <2>2, <2>3
<1> HIDE DEF b
<1>4. 1 .. 0 = {}
  OBVIOUS
<1>5. Packed(b, 0)
  BY <1>2, <1>3, <1>4 DEF Packed
<1> QED
  BY <1>5 DEF b

\* The actor rank to which parameter p goes.
LEMMA RankOf ==
  ASSUME NEW p \in Nat \ {0}
  PROVE  /\ Len(ActorRanks) \in Nat \ {0}
         /\ ((p - 1) % Len(ActorRanks)) + 1 \in 1 .. Len(ActorRanks)
         /\ ActorRanks[((p - 1) % Len(ActorRanks)) + 1] \in ToSet(ActorRanks)
<1>1. Len(ActorRanks) \in Nat \ {0} /\ DOMAIN ActorRanks = 1 .. Len(ActorRanks)
  BY TransferAssumption
<1>2. PICK k \in Nat \ {0} : k = Len(ActorRanks)
  BY <1>1
<1>3. (p - 1) % k \in 0 .. k - 1
  OBVIOUS
<1>4. ((p - 1) % k) + 1 \in 1 .. k
  BY <1>3
<1> QED
  BY <1>1, <1>2, <1>4 DEF ToSet

\* What is appended to a sequence is in it, with what was.
LEMMA AppendHas ==
  ASSUME NEW S, NEW s \in Seq(S), NEW x \in S
  PROVE  /\ ToSet(Append(s, x)) = ToSet(s) \cup {x}
         /\ Append(s, x) \in Seq(S) /\ Append(s, x) # <<>>
         /\ Len(Append(s, x)) = Len(s) + 1 /\ DOMAIN Append(s, x) = 1 .. Len(s) + 1
         /\ Append(s, x)[Len(s) + 1] = x /\ \A i \in 1 .. Len(s) : Append(s, x)[i] = s[i]
<1>1. PICK n \in Nat : n = Len(s)
  OBVIOUS
<1> DEFINE t == Append(s, x)
<1>2. /\ t \in Seq(S) /\ t # <<>> /\ Len(t) = n + 1 /\ DOMAIN t = 1 .. n + 1
      /\ t[n + 1] = x /\ \A i \in 1 .. n : t[i] = s[i]
      /\ DOMAIN s = 1 .. n
  <2>1. t \in Seq(S) /\ Len(t) = n + 1 /\ t[n + 1] = x /\ \A i \in 1 .. n : t[i] = s[i]
    BY <1>1
  <2>2. DOMAIN s = 1 .. n
    BY <1>1
  <2> HIDE DEF t
  <2>3. DOMAIN t = 1 .. n + 1 /\ t # <<>>
    BY <2>1
  <2> QED
    BY <2>1, <2>2, <2>3
<1> HIDE DEF t
<1>3. ToSet(t) \subseteq ToSet(s) \cup {x}
  BY <1>2 DEF ToSet
<1>4. ToSet(s) \cup {x} \subseteq ToSet(t)
  <2>1. n + 1 \in 1 .. n + 1 /\ 1 .. n \subseteq 1 .. n + 1
    OBVIOUS
  <2> QED
    BY <1>2, <2>1 DEF ToSet
<1> QED
  BY <1>1, <1>2, <1>3, <1>4 DEF t

\* What is in one of the buckets.
LEMMA InBucket ==
  ASSUME weights_info \in WeightsInfos, NEW n \in Nat, NEW b, Packed(b, n),
         NEW r \in ToSet(ActorRanks), NEW i \in DOMAIN b[r]
  PROVE  /\ b[r][i] \in BucketRec /\ b[r][i].metas \in Seq(Params)
         /\ b[r][i].size = Weight(b[r][i].metas) /\ b[r][i].size <= BucketSize
         /\ \A x \in ToSet(b[r][i].metas) : x \in Params /\ x \in 1 .. n
<1>1. b[r] \in Seq(BucketRec)
  BY DEF Packed
<1>2. b[r][i] \in BucketRec
  <2>1. PICK s \in Seq(BucketRec) : s = b[r]
    BY <1>1
  <2>2. DOMAIN s = 1 .. Len(s) /\ i \in DOMAIN s
    BY <2>1
  <2> QED
    BY <2>1, <2>2
<1>3. PICK m \in Seq(Params) : m = b[r][i].metas
  BY <1>2 DEF BucketRec
<1>4. ASSUME NEW x \in ToSet(m)  PROVE x \in Params /\ x \in 1 .. n
  <2>1. x \in Params
    BY DEF ToSet
  <2>2. x <= n
    BY <1>3 DEF Packed
  <2> QED
    BY <2>1, <2>2, ParamsAre
<1> QED
  BY <1>2, <1>3, <1>4 DEF Packed

\* How many buckets a rank has.
LEMMA BucketsOf ==
  ASSUME NEW n \in Nat, NEW b, Packed(b, n), NEW r \in ToSet(ActorRanks)
  PROVE  /\ b[r] \in Seq(BucketRec) /\ DOMAIN b[r] = 1 .. Len(b[r])
         /\ Len(b[r]) \in Nat \ {0} /\ Len(b[r]) <= n + 1
         /\ (n > 0 => Len(b[r]) <= n)
<1>1. b[r] \in Seq(BucketRec) /\ b[r] # <<>>
  BY DEF Packed
<1>2. PICK s \in Seq(BucketRec) : s = b[r]
  BY <1>1
<1>3. DOMAIN s = 1 .. Len(s) /\ Len(s) \in Nat /\ (Len(s) = 0 => s = <<>>)
  OBVIOUS
<1>4. Len(b[r]) <= n + 1 /\ (n > 0 => Len(b[r]) <= n)
  BY DEF Packed
<1> QED
  BY <1>1, <1>2, <1>3, <1>4

\* What replacing one element of a sequence makes of it.
LEMMA ReplaceHas ==
  ASSUME NEW S, NEW s \in Seq(S), NEW i \in 1 .. Len(s), NEW x \in S,
         NEW t, t = [s EXCEPT ![i] = x]
  PROVE  /\ t \in Seq(S) /\ Len(t) = Len(s) /\ DOMAIN t = 1 .. Len(s)
         /\ t[i] = x /\ \A j \in (1 .. Len(s)) \ {i} : t[j] = s[j]
<1>1. PICK n \in Nat : n = Len(s) /\ DOMAIN s = 1 .. n
  OBVIOUS
<1>2. t \in Seq(S) /\ Len(t) = n
  BY <1>1, ExceptSeq
<1>3. DOMAIN t = 1 .. n /\ t[i] = x /\ \A j \in (1 .. n) \ {i} : t[j] = s[j]
  BY <1>1
<1> QED
  BY <1>1, <1>2, <1>3

\* A parameter more.
LEMMA PackedNext ==
  ASSUME weights_info \in WeightsInfos, NEW n \in Nat, n < Len(weights_info),
         NEW b, Packed(b, n)
  PROVE  Packed(AssignParam(b, n + 1), n + 1)
<1> DEFINE p == n + 1
           A == ToSet(ActorRanks)
           r == ActorRanks[((p - 1) % Len(ActorRanks)) + 1]
           size == weights_info[p]
<1>1. p \in Params /\ p \in Nat \ {0} /\ size \in Nat \ {0} /\ size <= BucketSize /\ BucketSize \in Nat
  BY ParamsAre, BucketSizeIs
<1>2. r \in A
  BY <1>1, RankOf
<1>3. PICK L \in Nat \ {0} : L = Len(b[r]) /\ L <= n + 1 /\ (n > 0 => L <= n)
  BY <1>2 DEF Packed
<1>4. /\ b \in [A -> Seq(BucketRec)] /\ b[r] \in Seq(BucketRec)
      /\ L \in DOMAIN b[r] /\ DOMAIN b[r] = 1 .. L /\ b[r][L] \in BucketRec
  BY <1>2, <1>3 DEF Packed
<1> DEFINE last == b[r][L]
           full == last.size + size > BucketSize
           new == IF full THEN [size |-> size, metas |-> <<p>>]
                  ELSE [size |-> last.size + size, metas |-> Append(last.metas, p)]
           old == IF full THEN <<>> ELSE last.metas
           at == IF full THEN L + 1 ELSE L
           c == AssignParam(b, n + 1)
<1>5. /\ last.size \in Nat /\ last.metas \in Seq(Params) /\ last.size = Weight(last.metas)
      /\ last.size <= BucketSize /\ \A q \in ToSet(last.metas) : q <= n
  BY <1>2, <1>4 DEF Packed, BucketRec
<1>6. c = IF full THEN [b EXCEPT ![r] = Append(@, new)]
          ELSE [b EXCEPT ![r][L] = new]
  BY <1>3 DEF AssignParam
<1>7. /\ new \in BucketRec /\ new.size = Weight(new.metas) /\ new.size <= BucketSize
      /\ ToSet(new.metas) = ToSet(old) \cup {p}
  <2>1. CASE full
    <3>1. <<p>> \in Seq(Params) /\ ToSet(<<p>>) = {p} /\ ToSet(<<>>) = {}
      BY <1>1 DEF ToSet
    <3> QED
      BY <1>1, <2>1, <3>1, SmallWeights DEF BucketRec
  <2>2. CASE ~full
    <3>1. /\ Append(last.metas, p) \in Seq(Params)
          /\ ToSet(Append(last.metas, p)) = ToSet(last.metas) \cup {p}
      BY <1>1, <1>5, AppendHas
    <3>2. Weight(Append(last.metas, p)) = last.size + size
      BY <1>1, <1>5, WeightAppends
    <3>3. new = [size |-> last.size + size, metas |-> Append(last.metas, p)] /\ old = last.metas
      BY <2>2
    <3>4. last.size + size <= BucketSize /\ last.size + size \in Nat
      BY <1>1, <1>5, <2>2
    <3> HIDE DEF new, old, size, last
    <3> QED
      BY <3>1, <3>2, <3>3, <3>4 DEF BucketRec
  <2> QED
    BY <2>1, <2>2
<1>8. /\ c \in [A -> Seq(BucketRec)]
      /\ \A q \in A \ {r} : c[q] = b[q]
      /\ c[r] # <<>> /\ DOMAIN c[r] = 1 .. Len(c[r])
      /\ Len(c[r]) = (IF full THEN L + 1 ELSE L)
      /\ at \in DOMAIN c[r] /\ c[r][at] = new
      /\ \A i \in DOMAIN c[r] \ {at} : i \in DOMAIN b[r] /\ c[r][i] = b[r][i]
  <2> HIDE DEF new, c
  <2>1. CASE full
    <3>1. c = [b EXCEPT ![r] = Append(@, new)] /\ at = L + 1
      BY <1>6, <2>1
    <3>2. /\ Append(b[r], new) \in Seq(BucketRec) /\ Append(b[r], new) # <<>>
          /\ Len(Append(b[r], new)) = L + 1 /\ DOMAIN Append(b[r], new) = 1 .. L + 1
          /\ Append(b[r], new)[L + 1] = new
          /\ \A i \in 1 .. L : Append(b[r], new)[i] = b[r][i]
      BY <1>3, <1>4, <1>7, AppendHas
    <3>3. c \in [A -> Seq(BucketRec)] /\ c[r] = Append(b[r], new)
          /\ \A q \in A \ {r} : c[q] = b[q]
      BY <1>2, <1>4, <3>1, <3>2
    <3> HIDE DEF full
    <3>4. L + 1 \in 1 .. L + 1 /\ \A i \in (1 .. L + 1) \ {L + 1} : i \in 1 .. L
      OBVIOUS
    <3> QED
      BY <1>4, <2>1, <3>1, <3>2, <3>3, <3>4
  <2>2. CASE ~full
    <3>1. c = [b EXCEPT ![r][L] = new] /\ at = L
      BY <1>6, <2>2
    <3>2. c[r] = [b[r] EXCEPT ![L] = new] /\ \A q \in A \ {r} : c[q] = b[q]
      BY <1>2, <1>4, <3>1
    <3>3. /\ c[r] \in Seq(BucketRec) /\ Len(c[r]) = L /\ DOMAIN c[r] = 1 .. L
          /\ c[r][L] = new /\ \A i \in (1 .. L) \ {L} : c[r][i] = b[r][i]
      <4>1. PICK s \in Seq(BucketRec) : s = b[r]
        BY <1>4
      <4>2. L \in 1 .. Len(s) /\ Len(s) = L
        BY <1>3, <4>1
      <4>3. c[r] = [s EXCEPT ![L] = new] /\ new \in BucketRec
        BY <1>7, <3>2, <4>1
      <4>4. /\ c[r] \in Seq(BucketRec) /\ Len(c[r]) = Len(s) /\ DOMAIN c[r] = 1 .. Len(s)
            /\ c[r][L] = new /\ \A j \in (1 .. Len(s)) \ {L} : c[r][j] = s[j]
        BY <4>2, <4>3, ReplaceHas
      <4> QED
        BY <4>1, <4>2, <4>4
    <3>4. c \in [A -> Seq(BucketRec)]
      BY <1>4, <3>1, <3>3
    <3> HIDE DEF full
    <3>5. c[r] # <<>>
      BY <3>3
    <3> QED
      BY <1>4, <2>2, <3>1, <3>2, <3>3, <3>4, <3>5
  <2> QED
    BY <2>1, <2>2
<1> HIDE DEF c, new, at
<1>9. ASSUME NEW q \in A
      PROVE  /\ c[q] # <<>> /\ Len(c[q]) <= n + 2
             /\ n + 1 > 0 => Len(c[q]) <= n + 1
             /\ \A i \in DOMAIN c[q] :
                  /\ c[q][i].size = Weight(c[q][i].metas)
                  /\ c[q][i].size <= BucketSize
                  /\ \A x \in ToSet(c[q][i].metas) : x <= n + 1
  <2>1. CASE q # r
    <3>1. c[q] = b[q]
      BY <1>8, <2>1
    <3>2. PICK K \in Nat \ {0} : K = Len(b[q]) /\ K <= n + 1
      BY BucketsOf
    <3>3. b[q] # <<>>
      BY DEF Packed
    <3>4. ASSUME NEW i \in DOMAIN b[q]
          PROVE  /\ b[q][i].size = Weight(b[q][i].metas)
                 /\ b[q][i].size <= BucketSize
                 /\ \A x \in ToSet(b[q][i].metas) : x <= n + 1
      <4>1. \A x \in ToSet(b[q][i].metas) : x \in 1 .. n
        BY InBucket
      <4> QED
        BY <4>1 DEF Packed
    <3> QED
      BY <3>1, <3>2, <3>3, <3>4
  <2>2. CASE q = r
    <3>1. c[r] # <<>> /\ Len(c[r]) <= n + 2
      BY <1>3, <1>8
    <3>2. Len(c[r]) <= n + 1
      <4>1. CASE n = 0
        <5>1. L = 1 /\ last.size = 0
          <6>1. L = 1
            <7>1. L <= n + 1
              BY <1>3
            <7> QED
              BY <4>1, <7>1
          <6>2. ToSet(last.metas) = {}
            <7>1. \A x \in ToSet(last.metas) : x \in 1 .. n
              BY <1>2, <1>4, InBucket
            <7>2. 1 .. n = {}
              BY <4>1
            <7> QED
              BY <7>1, <7>2
          <6>3. DOMAIN last.metas = {}
            BY <6>2 DEF ToSet
          <6>4. Weight(last.metas) = 0
            BY <6>3, SumOfNothing DEF Weight
          <6> QED
            BY <1>5, <6>1, <6>4
        <5>2. ~full
          BY <1>1, <5>1
        <5> QED
          BY <1>8, <4>1, <5>1, <5>2
      <4>2. CASE n > 0
        BY <1>3, <1>8, <4>2
      <4> QED
        BY <4>1, <4>2
    <3>3. ASSUME NEW i \in DOMAIN c[r]
          PROVE  /\ c[r][i].size = Weight(c[r][i].metas)
                 /\ c[r][i].size <= BucketSize
                 /\ \A x \in ToSet(c[r][i].metas) : x <= n + 1
      <4>1. CASE i = at
        <5>1. \A x \in ToSet(old) : x \in Params /\ x \in 1 .. n
          <6>1. \A x \in ToSet(last.metas) : x \in Params /\ x \in 1 .. n
            BY <1>2, <1>4, InBucket
          <6>2. ToSet(<<>>) = {}
            BY DEF ToSet
          <6> QED
            BY <6>1, <6>2
        <5>2. \A x \in ToSet(old) \cup {p} : x <= n + 1
          BY <5>1
        <5> QED
          BY <1>7, <1>8, <4>1, <5>2
      <4>2. CASE i # at
        <5>1. i \in DOMAIN b[r] /\ c[r][i] = b[r][i]
          BY <1>8, <4>2
        <5>4. \A x \in ToSet(b[r][i].metas) : x <= n + 1
          <6>1. \A x \in ToSet(b[r][i].metas) : x \in 1 .. n
            BY <1>2, <5>1, InBucket
          <6> QED
            BY <6>1
        <5> QED
          BY <1>2, <5>1, <5>4 DEF Packed
      <4> QED
        BY <4>1, <4>2
    <3> QED
      BY <2>2, <3>1, <3>2, <3>3
  <2> QED
    BY <2>1, <2>2
<1>10. \A q \in A : DOMAIN b[q] \subseteq DOMAIN c[q]
  <2> TAKE q \in A
  <2>1. CASE q = r
    <3>1. DOMAIN c[r] = 1 .. L \/ DOMAIN c[r] = 1 .. L + 1
      BY <1>8
    <3> QED
      BY <1>4, <2>1, <3>1
  <2>2. CASE q # r
    BY <1>8, <2>2
  <2> QED
    BY <2>1, <2>2
<1>11. ASSUME NEW x \in 1 .. n, NEW q \in A, NEW j \in DOMAIN c[q]
       PROVE  x \in ToSet(c[q][j].metas) <=> j \in DOMAIN b[q] /\ x \in ToSet(b[q][j].metas)
  <2>1. CASE q # r
    BY <1>8, <2>1
  <2>2. CASE q = r /\ j # at
    BY <1>8, <2>2
  <2>3. CASE q = r /\ j = at
    <3>1. x \in ToSet(c[q][j].metas) <=> x \in ToSet(old)
      <4>1. x # p
        OBVIOUS
      <4> QED
        BY <1>7, <1>8, <2>3, <4>1
    <3>2. CASE full
      <4>1. at = L + 1 /\ L + 1 \notin DOMAIN b[r]
        BY <1>4, <3>2 DEF at
      <4>2. ToSet(old) = {}
        BY <3>2 DEF ToSet
      <4> QED
        BY <2>3, <3>1, <4>1, <4>2
    <3>3. CASE ~full
      <4>1. at = L /\ old = last.metas
        BY <3>3 DEF at
      <4> QED
        BY <1>4, <2>3, <3>1, <4>1
    <3> QED
      BY <3>2, <3>3
  <2> QED
    BY <2>1, <2>2, <2>3
<1>12. ASSUME NEW x \in 1 .. n + 1
       PROVE  \E q \in A : \E i \in DOMAIN c[q] :
                /\ x \in ToSet(c[q][i].metas)
                /\ \A q2 \in A : \A j \in DOMAIN c[q2] :
                     x \in ToSet(c[q2][j].metas) => q2 = q /\ j = i
  <2>1. CASE x \in 1 .. n
    <3>0. PICK q \in A : \E i \in DOMAIN b[q] :
            /\ x \in ToSet(b[q][i].metas)
            /\ \A q2 \in A : \A j \in DOMAIN b[q2] :
                 x \in ToSet(b[q2][j].metas) => q2 = q /\ j = i
      BY <2>1 DEF Packed
    <3>1. PICK i \in DOMAIN b[q] :
            /\ x \in ToSet(b[q][i].metas)
            /\ \A q2 \in A : \A j \in DOMAIN b[q2] :
                 x \in ToSet(b[q2][j].metas) => q2 = q /\ j = i
      BY <3>0
    <3>2. i \in DOMAIN c[q] /\ x \in ToSet(c[q][i].metas)
      BY <1>10, <1>11, <2>1, <3>1
    <3>3. \A q2 \in A : \A j \in DOMAIN c[q2] : x \in ToSet(c[q2][j].metas) => q2 = q /\ j = i
      BY <1>11, <2>1, <3>1
    <3> QED
      BY <3>2, <3>3
  <2>2. CASE x = p
    <3>1. at \in DOMAIN c[r] /\ p \in ToSet(c[r][at].metas)
      BY <1>7, <1>8
    <3>2. ASSUME NEW q2 \in A, NEW j \in DOMAIN c[q2], p \in ToSet(c[q2][j].metas), q2 # r \/ j # at
          PROVE  FALSE
      <4>1. j \in DOMAIN b[q2] /\ c[q2][j] = b[q2][j]
        BY <1>8, <3>2
      <4>2. p \in 1 .. n
        BY <3>2, <4>1, InBucket
      <4> QED
        BY <4>2
    <3> QED
      BY <1>2, <2>2, <3>1, <3>2
  <2>3. x \in 1 .. n \/ x = p
    OBVIOUS
  <2> QED
    BY <2>1, <2>2, <2>3
<1>13. c \in [A -> Seq(BucketRec)]
  BY <1>8
<1>14. Packed(c, n + 1)
  <2>1. n + 1 + 1 = n + 2
    OBVIOUS
  <2> QED
    BY <1>9, <1>12, <1>13, <2>1 DEF Packed
<1> QED
  BY <1>14 DEF c

\* Where the loop over the parameters ends.
LEMMA BucketsArePacked ==
  ASSUME weights_info \in WeightsInfos
  PROVE  Packed(GlobalBuckets, Len(weights_info))
<1> DEFINE n == Len(weights_info)
           base == [r \in ToSet(ActorRanks) |-> <<EmptyBucket>>]
           Loop(g, k) == g = [p \in 0 .. k |-> IF p = 0 THEN base ELSE AssignParam(g[p - 1], p)]
           after == CHOOSE g : Loop(g, n)
           Q == {k \in Nat : \E g : Loop(g, k)}
<1>1. n \in Nat
  BY ParamsAre
<1>2. GlobalBuckets = after[n]
  BY Zenon DEF GlobalBuckets
<1> HIDE DEF n, base
<1>3. 0 \in Q
  <2>1. Loop([p \in 0 .. 0 |-> base], 0)
    OBVIOUS
  <2> QED
    BY <2>1
<1>4. ASSUME NEW k \in Q  PROVE k + 1 \in Q
  <2>1. PICK g : Loop(g, k)
    OBVIOUS
  <2> DEFINE h == [p \in 0 .. k + 1 |-> IF p <= k THEN g[p] ELSE AssignParam(g[k], k + 1)]
  <2>2. \A p \in 0 .. k : g[p] = IF p = 0 THEN base ELSE AssignParam(g[p - 1], p)
    BY <2>1
  <2>3. ASSUME NEW p \in 0 .. k + 1
        PROVE  h[p] = IF p = 0 THEN base ELSE AssignParam(h[p - 1], p)
    <3>1. CASE p <= k
      <4>1. h[p] = g[p] /\ (p # 0 => h[p - 1] = g[p - 1])
        BY <3>1
      <4>2. p \in 0 .. k
        BY <3>1
      <4> HIDE DEF h
      <4> QED
        BY <2>2, <4>1, <4>2
    <3>2. CASE p = k + 1
      <4>1. h[k + 1] = AssignParam(g[k], k + 1) /\ h[k] = g[k]
        OBVIOUS
      <4>2. p # 0 /\ p - 1 = k
        BY <3>2
      <4> HIDE DEF h
      <4> QED
        BY <3>2, <4>1, <4>2
    <3> QED
      BY <3>1, <3>2
  <2>4. Loop(h, k + 1)
    <3>1. h = [p \in 0 .. k + 1 |-> h[p]]
      OBVIOUS
    <3> HIDE DEF h
    <3> QED
      BY <2>3, <3>1
  <2>5. \E f : Loop(f, k + 1)
    <3> HIDE DEF h, Loop
    <3> QED
      BY <2>4
  <2>6. k + 1 \in Nat
    OBVIOUS
  <2> HIDE DEF Loop
  <2> QED
    BY <2>5, <2>6
<1>5. n \in Q
  <2>1. Q \in SUBSET Nat
    OBVIOUS
  <2> HIDE DEF Q
  <2> QED
    BY <1>1, <1>3, <1>4, <2>1, LeastOutside
<1>6. Loop(after, n)
  <2>1. \E g : Loop(g, n)
    BY <1>5
  <2> HIDE DEF Loop
  <2> QED
    BY <2>1, Zenon
<1>7. \A p \in 0 .. n : after[p] = IF p = 0 THEN base ELSE AssignParam(after[p - 1], p)
  BY <1>6
<1> HIDE DEF after, Loop
<1> DEFINE R == {k \in Nat : k > n \/ Packed(after[k], k)}
<1>8. 0 \in R
  <2>1. after[0] = base
    BY <1>1, <1>7
  <2> QED
    BY <2>1, PackedFirst DEF base
<1>9. ASSUME NEW k \in R  PROVE k + 1 \in R
  <2>1. CASE k + 1 > n
    BY <2>1
  <2>2. CASE k + 1 <= n
    <3>1. Packed(after[k], k) /\ k < Len(weights_info)
      BY <1>1, <2>2 DEF n
    <3>2. after[k + 1] = AssignParam(after[k], k + 1)
      <4>1. k + 1 \in 0 .. n /\ k + 1 # 0 /\ (k + 1) - 1 = k
        BY <1>1, <2>2
      <4> QED
        BY <1>7, <4>1
    <3> QED
      BY <3>1, <3>2, PackedNext
  <2> QED
    BY <1>1, <2>1, <2>2
<1>10. n \in R
  <2>1. R \in SUBSET Nat
    OBVIOUS
  <2> HIDE DEF R
  <2> QED
    BY <1>1, <1>8, <1>9, <2>1, LeastOutside
<1> QED
  BY <1>1, <1>2, <1>10 DEF n

\* What update_checkpoint looks at in its step number n: the actor rank and the row.
Owner(n) == ActorRanks[((n - 1) % Len(ActorRanks)) + 1]
RowOf(n) == (n - 1) \div Len(ActorRanks) + 1
Entry(b, n) == [owner |-> Owner(n), i |-> RowOf(n), metas |-> b[Owner(n)][RowOf(n)].metas]
Listed(b, n) == RowOf(n) <= Len(b[Owner(n)])

(* The broadcasts after n steps: those of the buckets there are, once each. *)
Ordered(s, b, n) ==
  /\ s \in Seq([owner : ToSet(ActorRanks), i : Nat, metas : Seq(Params)])
  /\ \A k \in DOMAIN s : \E m \in 1 .. n : Listed(b, m) /\ s[k] = Entry(b, m)
  /\ \A m \in 1 .. n : Listed(b, m) => \E k \in DOMAIN s : s[k] = Entry(b, m)
  /\ \A k, l \in DOMAIN s : s[k].owner = s[l].owner /\ s[k].i = s[l].i => k = l

\* Steps are of different ranks or rows.
LEMMA StepsDiffer ==
  ASSUME NEW m \in Nat \ {0}, NEW n \in Nat \ {0}, Owner(m) = Owner(n), RowOf(m) = RowOf(n)
  PROVE  m = n
<1>1. PICK k \in Nat \ {0} : k = Len(ActorRanks)
  BY RankOf
<1>2. /\ m - 1 \in Nat /\ (m - 1) % k \in 0 .. k - 1 /\ m - 1 = k * ((m - 1) \div k) + ((m - 1) % k)
      /\ (m - 1) \div k \in Int
  OBVIOUS
<1>3. /\ n - 1 \in Nat /\ (n - 1) % k \in 0 .. k - 1 /\ n - 1 = k * ((n - 1) \div k) + ((n - 1) % k)
      /\ (n - 1) \div k \in Int
  OBVIOUS
<1>4. (m - 1) \div k = (n - 1) \div k
  BY <1>1, <1>2, <1>3 DEF RowOf
<1>5. (m - 1) % k = (n - 1) % k
  <2>1. PICK a \in 0 .. k - 1 : a = (m - 1) % k
    BY <1>2
  <2>2. PICK c \in 0 .. k - 1 : c = (n - 1) % k
    BY <1>3
  <2>3. ActorRanks[a + 1] = ActorRanks[c + 1]
    BY <1>1, <2>1, <2>2 DEF Owner
  <2>4. DOMAIN ActorRanks = 1 .. k /\ a + 1 \in 1 .. k /\ c + 1 \in 1 .. k
    BY <1>1, TransferAssumption
  <2>5. \A x, y \in DOMAIN ActorRanks : ActorRanks[x] = ActorRanks[y] => x = y
    BY TransferAssumption, Zenon DEF IsInjective
  <2>6. a + 1 = c + 1
    BY <2>3, <2>4, <2>5
  <2> QED
    BY <2>1, <2>2, <2>6
<1> QED
  BY <1>2, <1>3, <1>4, <1>5

\* Bucket i of rank r is looked at in some step.
LEMMA StepOf ==
  ASSUME NEW N \in Nat, NEW r \in ToSet(ActorRanks), NEW i \in 1 .. N
  PROVE  \E n \in 1 .. N * Len(ActorRanks) : Owner(n) = r /\ RowOf(n) = i
<1>1. PICK k \in Nat \ {0} : k = Len(ActorRanks) /\ DOMAIN ActorRanks = 1 .. k
  BY TransferAssumption
<1>2. PICK a \in 0 .. k - 1 : ActorRanks[a + 1] = r
  <2>1. PICK x \in 1 .. k : ActorRanks[x] = r
    BY <1>1 DEF ToSet
  <2>2. x - 1 \in 0 .. k - 1 /\ (x - 1) + 1 = x
    OBVIOUS
  <2> QED
    BY <2>1, <2>2
<1>3. PICK q \in Nat : q = i - 1
  OBVIOUS
<1>4. (q * k + a) \div k = q /\ (q * k + a) % k = a
  BY DivMod
<1>5. q * k \in Nat /\ N * k \in Nat
  OBVIOUS
<1>6. PICK n \in Nat : n = q * k + a + 1
  BY <1>5
<1>7. n \in 1 .. N * k
  <2>1. N * k = q * k + k + (N - q - 1) * k
    OBVIOUS
  <2>2. N - q - 1 \in Nat
    BY <1>3
  <2>3. (N - q - 1) * k \in Nat
    BY <2>2
  <2>4. PICK y \in Nat : y = (N - q - 1) * k
    BY <2>3
  <2>5. PICK z \in Nat : z = q * k
    BY <1>5
  <2> QED
    BY <1>6, <2>1, <2>4, <2>5
<1>8. n - 1 = q * k + a
  BY <1>5, <1>6
<1>9. Owner(n) = r /\ RowOf(n) = i
  <2>1. Owner(n) = ActorRanks[a + 1]
    BY <1>1, <1>4, <1>8 DEF Owner
  <2>2. RowOf(n) = q + 1
    BY <1>1, <1>4, <1>8 DEF RowOf
  <2> QED
    BY <1>2, <1>3, <2>1, <2>2
<1> QED
  BY <1>1, <1>7, <1>9

\* The next step.
LEMMA OrderedNext ==
  ASSUME weights_info \in WeightsInfos, NEW b, Packed(b, Len(weights_info)),
         NEW n \in Nat, NEW s, Ordered(s, b, n)
  PROVE  /\ Listed(b, n + 1) => Ordered(Append(s, Entry(b, n + 1)), b, n + 1)
         /\ ~Listed(b, n + 1) => Ordered(s, b, n + 1)
<1> DEFINE Rec == [owner : ToSet(ActorRanks), i : Nat, metas : Seq(Params)]
           e == Entry(b, n + 1)
<1>1. s \in Seq(Rec)
  BY DEF Ordered
<1>2. \A m \in 1 .. n + 1 : m \in 1 .. n \/ m = n + 1
  OBVIOUS
<1>3. 1 .. n \subseteq 1 .. n + 1 /\ n + 1 \in 1 .. n + 1 /\ n + 1 \in Nat \ {0}
  OBVIOUS
<1>4. ASSUME ~Listed(b, n + 1)  PROVE Ordered(s, b, n + 1)
  BY <1>2, <1>3, <1>4 DEF Ordered
<1>5. ASSUME Listed(b, n + 1)  PROVE Ordered(Append(s, e), b, n + 1)
  <2>1. e \in Rec
    <3>1. Owner(n + 1) \in ToSet(ActorRanks)
      BY <1>3, RankOf DEF Owner
    <3>2. RowOf(n + 1) \in Nat \ {0}
      <4>1. PICK k \in Nat \ {0} : k = Len(ActorRanks)
        BY RankOf
      <4>2. (n + 1 - 1) \div k \in Nat
        OBVIOUS
      <4> QED
        BY <4>1, <4>2 DEF RowOf
    <3>3. Len(weights_info) \in Nat
      BY ParamsAre
    <3>4. RowOf(n + 1) \in DOMAIN b[Owner(n + 1)]
      BY <1>5, <3>1, <3>2, <3>3, BucketsOf DEF Listed
    <3>5. b[Owner(n + 1)][RowOf(n + 1)].metas \in Seq(Params)
      BY <3>1, <3>3, <3>4, InBucket
    <3> QED
      BY <3>1, <3>2, <3>5 DEF Entry
  <2> DEFINE t == Append(s, e)
  <2>2. PICK L \in Nat : L = Len(s) /\ DOMAIN s = 1 .. L
    BY <1>1
  <2>3. /\ t \in Seq(Rec) /\ DOMAIN t = 1 .. L + 1
        /\ t[L + 1] = e /\ \A k \in 1 .. L : t[k] = s[k]
    BY <1>1, <2>1, <2>2, AppendHas
  <2>4. \A k \in 1 .. L + 1 : k \in 1 .. L \/ k = L + 1
    OBVIOUS
  <2>5. L + 1 \in 1 .. L + 1 /\ 1 .. L \subseteq 1 .. L + 1
    OBVIOUS
  <2>6. \A k \in 1 .. L : ~(s[k].owner = e.owner /\ s[k].i = e.i)
    <3> SUFFICES ASSUME NEW k \in 1 .. L, s[k].owner = e.owner, s[k].i = e.i
                 PROVE  FALSE
      OBVIOUS
    <3>1. PICK m \in 1 .. n : s[k] = Entry(b, m)
      BY <2>2 DEF Ordered
    <3>2. Owner(m) = Owner(n + 1) /\ RowOf(m) = RowOf(n + 1)
      BY <3>1 DEF Entry
    <3>3. m = n + 1
      BY <1>3, <3>2, StepsDiffer
    <3> QED
      BY <3>3
  <2> HIDE DEF t, e
  <2>7. \A k \in DOMAIN t : \E m \in 1 .. n + 1 : Listed(b, m) /\ t[k] = Entry(b, m)
    <3> TAKE k \in DOMAIN t
    <3>1. CASE k \in 1 .. L
      <4>1. PICK m \in 1 .. n : Listed(b, m) /\ s[k] = Entry(b, m)
        BY <2>2, <3>1 DEF Ordered
      <4> QED
        BY <1>3, <2>3, <3>1, <4>1
    <3>2. CASE k = L + 1
      BY <1>3, <1>5, <2>3, <3>2 DEF e
    <3> QED
      BY <2>3, <2>4, <3>1, <3>2
  <2>8. \A m \in 1 .. n + 1 : Listed(b, m) => \E k \in DOMAIN t : t[k] = Entry(b, m)
    <3> SUFFICES ASSUME NEW m \in 1 .. n + 1, Listed(b, m)
                 PROVE  \E k \in DOMAIN t : t[k] = Entry(b, m)
      OBVIOUS
    <3>1. CASE m \in 1 .. n
      <4>1. PICK k \in DOMAIN s : s[k] = Entry(b, m)
        BY <3>1 DEF Ordered
      <4> QED
        BY <2>2, <2>3, <2>5, <4>1
    <3>2. CASE m = n + 1
      BY <2>3, <2>5, <3>2 DEF e
    <3> QED
      BY <1>2, <3>1, <3>2
  <2>9. ASSUME NEW k \in DOMAIN t, NEW l \in DOMAIN t,
               t[k].owner = t[l].owner, t[k].i = t[l].i
        PROVE  k = l
    <3>1. CASE k \in 1 .. L /\ l \in 1 .. L
      BY <2>2, <2>3, <2>9, <3>1 DEF Ordered
    <3>2. CASE k \in 1 .. L /\ l = L + 1
      BY <2>3, <2>6, <2>9, <3>2
    <3>3. CASE k = L + 1 /\ l \in 1 .. L
      BY <2>3, <2>6, <2>9, <3>3
    <3> QED
      BY <2>3, <2>4, <3>1, <3>2, <3>3
  <2>10. Ordered(t, b, n + 1)
    BY <2>3, <2>7, <2>8, <2>9 DEF Ordered
  <2> QED
    BY <2>10 DEF t
<1> QED
  BY <1>4, <1>5

\* Where that loop ends.
LEMMA OrderIsOrdered ==
  ASSUME weights_info \in WeightsInfos, NEW b, Packed(b, Len(weights_info))
  PROVE  Ordered(BucketOrder(b), b, Len(weights_info) * Len(ActorRanks))
<1> DEFINE n == Len(weights_info) * Len(ActorRanks)
           Loop(g, k) == g = [m \in 0 .. k |->
                                IF m = 0 THEN <<>>
                                ELSE IF Listed(b, m) THEN Append(g[m - 1], Entry(b, m))
                                     ELSE g[m - 1]]
           after == CHOOSE g : Loop(g, n)
           Q == {k \in Nat : \E g : Loop(g, k)}
<1>1. n \in Nat
  <2>1. PICK k \in Nat : k = Len(ActorRanks)
    BY RankOf
  <2>2. PICK l \in Nat : l = Len(weights_info)
    BY ParamsAre
  <2>3. l * k \in Nat
    OBVIOUS
  <2> QED
    BY <2>1, <2>2, <2>3
<1>2. BucketOrder(b) = after[n]
  BY Zenon DEF BucketOrder, Listed, Entry, Owner, RowOf
<1> HIDE DEF n
<1>3. 0 \in Q
  <2>1. Loop([m \in 0 .. 0 |-> <<>>], 0)
    OBVIOUS
  <2>2. \E f : Loop(f, 0)
    <3> HIDE DEF Loop
    <3> QED
      BY <2>1
  <2> HIDE DEF Loop
  <2> QED
    BY <2>2
<1>4. ASSUME NEW k \in Q  PROVE k + 1 \in Q
  <2>1. PICK g : Loop(g, k)
    OBVIOUS
  <2> DEFINE h == [m \in 0 .. k + 1 |->
                     IF m <= k THEN g[m]
                     ELSE IF Listed(b, k + 1) THEN Append(g[k], Entry(b, k + 1)) ELSE g[k]]
  <2>2. \A m \in 0 .. k : g[m] = IF m = 0 THEN <<>>
                                 ELSE IF Listed(b, m) THEN Append(g[m - 1], Entry(b, m))
                                      ELSE g[m - 1]
    BY <2>1
  <2>3. ASSUME NEW m \in 0 .. k + 1
        PROVE  h[m] = IF m = 0 THEN <<>>
                      ELSE IF Listed(b, m) THEN Append(h[m - 1], Entry(b, m))
                           ELSE h[m - 1]
    <3>1. CASE m <= k
      <4>1. h[m] = g[m] /\ (m # 0 => h[m - 1] = g[m - 1])
        BY <3>1
      <4>2. m \in 0 .. k
        BY <3>1
      <4> HIDE DEF h
      <4> QED
        BY <2>2, <4>1, <4>2
    <3>2. CASE m = k + 1
      <4>1. /\ h[k + 1] = IF Listed(b, k + 1) THEN Append(g[k], Entry(b, k + 1)) ELSE g[k]
            /\ h[k] = g[k]
        OBVIOUS
      <4>2. m # 0 /\ m - 1 = k
        BY <3>2
      <4> HIDE DEF h
      <4> QED
        BY <3>2, <4>1, <4>2
    <3> QED
      BY <3>1, <3>2
  <2>4. Loop(h, k + 1)
    <3>1. h = [m \in 0 .. k + 1 |-> h[m]]
      OBVIOUS
    <3> HIDE DEF h
    <3> QED
      BY <2>3, <3>1
  <2>5. \E f : Loop(f, k + 1)
    <3> HIDE DEF h, Loop
    <3> QED
      BY <2>4
  <2>6. k + 1 \in Nat
    OBVIOUS
  <2> HIDE DEF Loop
  <2> QED
    BY <2>5, <2>6
<1>5. n \in Q
  <2>1. Q \in SUBSET Nat
    OBVIOUS
  <2> HIDE DEF Q
  <2> QED
    BY <1>1, <1>3, <1>4, <2>1, LeastOutside
<1>6. Loop(after, n)
  <2>1. \E g : Loop(g, n)
    BY <1>5
  <2> HIDE DEF Loop
  <2> QED
    BY <2>1, Zenon
<1>7. \A m \in 0 .. n : after[m] = IF m = 0 THEN <<>>
                                   ELSE IF Listed(b, m) THEN Append(after[m - 1], Entry(b, m))
                                        ELSE after[m - 1]
  BY <1>6
<1> HIDE DEF after, Loop
<1> DEFINE R == {k \in Nat : k > n \/ Ordered(after[k], b, k)}
<1>8. 0 \in R
  <2>1. after[0] = <<>>
    BY <1>1, <1>7
  <2>2. Ordered(<<>>, b, 0)
    BY DEF Ordered
  <2> QED
    BY <2>1, <2>2
<1>9. ASSUME NEW k \in R  PROVE k + 1 \in R
  <2>1. CASE k + 1 > n
    BY <2>1
  <2>2. CASE k + 1 <= n
    <3>1. Ordered(after[k], b, k)
      BY <1>1, <2>2
    <3>2. after[k + 1] = IF Listed(b, k + 1) THEN Append(after[k], Entry(b, k + 1)) ELSE after[k]
      <4>1. k + 1 \in 0 .. n /\ k + 1 # 0 /\ (k + 1) - 1 = k
        BY <1>1, <2>2
      <4> QED
        BY <1>7, <4>1
    <3>3. Ordered(after[k + 1], b, k + 1)
      <4>1. /\ Listed(b, k + 1) => Ordered(Append(after[k], Entry(b, k + 1)), b, k + 1)
            /\ ~Listed(b, k + 1) => Ordered(after[k], b, k + 1)
        BY <3>1, OrderedNext
      <4> QED
        BY <3>2, <4>1, Zenon
    <3> QED
      BY <3>3
  <2> QED
    BY <1>1, <2>1, <2>2
<1>10. n \in R
  <2>1. R \in SUBSET Nat
    OBVIOUS
  <2> HIDE DEF R
  <2> QED
    BY <1>1, <1>8, <1>9, <2>1, LeastOutside
<1> QED
  BY <1>1, <1>2, <1>10 DEF n

\* The engine's plan.
LEMMA EnginePlan ==
  ASSUME weights_info \in WeightsInfos, order = BucketOrder(GlobalBuckets)
  PROVE  PlanIsComplete
<1> DEFINE b == GlobalBuckets
           N == Len(weights_info)
           A == ToSet(ActorRanks)
<1>1. N \in Nat \ {0} /\ Params = 1 .. N
  BY ParamsAre
<1>2. Packed(b, N)
  BY BucketsArePacked
<1>3. Ordered(order, b, N * Len(ActorRanks))
  BY <1>2, OrderIsOrdered
<1> HIDE DEF b
<1>4. ASSUME NEW k \in DOMAIN order
      PROVE  /\ order[k].owner \in A /\ order[k].i \in DOMAIN b[order[k].owner]
             /\ order[k].metas = b[order[k].owner][order[k].i].metas
  <2>1. PICK m \in 1 .. N * Len(ActorRanks) : Listed(b, m) /\ order[k] = Entry(b, m)
    BY <1>3 DEF Ordered
  <2>2. Owner(m) \in A
    BY RankOf DEF Owner
  <2>3. RowOf(m) \in Nat \ {0}
    <3>1. PICK c \in Nat \ {0} : c = Len(ActorRanks)
      BY RankOf
    <3>2. (m - 1) \div c \in Nat
      OBVIOUS
    <3> QED
      BY <3>1, <3>2 DEF RowOf
  <2>4. RowOf(m) \in DOMAIN b[Owner(m)]
    BY <1>1, <1>2, <2>1, <2>2, <2>3, BucketsOf DEF Listed
  <2> QED
    BY <2>1, <2>2, <2>4 DEF Entry
<1>5. ASSUME NEW p \in Params
      PROVE  Cardinality({k \in DOMAIN order : p \in ToSet(order[k].metas)}) = 1
  <2>1. PICK r \in A : \E i \in DOMAIN b[r] :
           /\ p \in ToSet(b[r][i].metas)
           /\ \A q \in A : \A j \in DOMAIN b[q] : p \in ToSet(b[q][j].metas) => q = r /\ j = i
    BY <1>1, <1>2 DEF Packed
  <2>2. PICK i \in DOMAIN b[r] :
           /\ p \in ToSet(b[r][i].metas)
           /\ \A q \in A : \A j \in DOMAIN b[q] : p \in ToSet(b[q][j].metas) => q = r /\ j = i
    BY <2>1
  <2>3. i \in 1 .. N
    <3>1. DOMAIN b[r] = 1 .. Len(b[r]) /\ Len(b[r]) \in Nat /\ Len(b[r]) <= N
      BY <1>1, <1>2, BucketsOf
    <3> QED
      BY <1>1, <3>1
  <2>4. PICK m \in 1 .. N * Len(ActorRanks) : Owner(m) = r /\ RowOf(m) = i
    BY <1>1, <2>3, StepOf
  <2>5. Listed(b, m)
    <3>1. DOMAIN b[r] = 1 .. Len(b[r])
      BY <1>1, <1>2, BucketsOf
    <3> QED
      BY <2>4, <3>1 DEF Listed
  <2>6. PICK k \in DOMAIN order : order[k] = Entry(b, m)
    BY <1>3, <2>5 DEF Ordered
  <2>7. order[k].owner = r /\ order[k].i = i /\ p \in ToSet(order[k].metas)
    BY <2>2, <2>4, <2>6 DEF Entry
  <2>8. ASSUME NEW l \in DOMAIN order, p \in ToSet(order[l].metas)  PROVE l = k
    <3>1. order[l].owner = r /\ order[l].i = i
      BY <1>4, <2>2, <2>8
    <3> QED
      BY <1>3, <2>7, <3>1 DEF Ordered
  <2>9. {l \in DOMAIN order : p \in ToSet(order[l].metas)} = {k}
    BY <2>7, <2>8
  <2> QED
    BY <2>9, FS_Singleton
<1>6. ASSUME NEW k \in DOMAIN order
      PROVE  Weight(order[k].metas) <= BucketSize
  BY <1>1, <1>2, <1>4, InBucket
<1>7. order \in Seq([owner : A, i : Nat, metas : Seq(Params)])
  BY <1>3 DEF Ordered
<1> QED
  BY <1>5, <1>6, <1>7, Zenon DEF PlanIsComplete, Weight

\* Without the engine every parameter is a broadcast of its own.
LEMMA PlainPlan ==
  ASSUME weights_info \in WeightsInfos, order = ParamOrder
  PROVE  PlanIsComplete
<1>1. Params = 1 .. Len(weights_info) /\ Len(weights_info) \in Nat \ {0}
  BY ParamsAre
<1>2. ActorRanks[1] \in ToSet(ActorRanks)
  BY RankOf, TransferAssumption DEF ToSet
<1>3. ASSUME NEW k \in Params
      PROVE  /\ order[k] = [owner |-> ActorRanks[1], i |-> k, metas |-> <<k>>]
             /\ order[k].metas = <<k>> /\ ToSet(<<k>>) = {k} /\ <<k>> \in Seq(Params)
             /\ k \in Nat
  BY <1>1 DEF ParamOrder, ToSet
<1>4. DOMAIN order = Params
  BY DEF ParamOrder
<1>5. order \in Seq([owner : ToSet(ActorRanks), i : Nat, metas : Seq(Params)])
  <2>1. ASSUME NEW k \in Params
        PROVE  order[k] \in [owner : ToSet(ActorRanks), i : Nat, metas : Seq(Params)]
    <3>1. <<k>> \in Seq(Params) /\ k \in Nat
      BY <1>3
    <3>2. PICK m \in Seq(Params) : m = <<k>>
      BY <3>1
    <3>3. order[k] = [owner |-> ActorRanks[1], i |-> k, metas |-> m]
      BY <1>3, <3>2
    <3> QED
      BY <1>2, <3>1, <3>3
  <2>2. order = [k \in 1 .. Len(weights_info) |-> order[k]]
    BY <1>1, <1>4 DEF ParamOrder
  <2> QED
    BY <1>1, <2>1, <2>2
<1>6. ASSUME NEW p \in Params
      PROVE  Cardinality({k \in DOMAIN order : p \in ToSet(order[k].metas)}) = 1
  <2>1. \A k \in Params : ToSet(order[k].metas) = {k}
    BY <1>3
  <2>2. {k \in Params : p \in ToSet(order[k].metas)} = {p}
    BY <2>1
  <2> QED
    BY <1>4, <2>2, FS_Singleton
<1>7. ASSUME NEW k \in DOMAIN order
      PROVE  Weight(order[k].metas) <= BucketSize
  BY <1>3, <1>4, SmallWeights, BucketSizeIs
<1> QED
  BY <1>5, <1>6, <1>7, Zenon DEF PlanIsComplete, Weight

\* What register_checkpoint plans is complete, whatever the parameters and the ranks are:
\* each parameter is broadcast in one bucket, and no bucket exceeds bucket_size.
THEOREM PlanHolds == TransferInit => PlanIsComplete
<1> SUFFICES ASSUME TransferInit  PROVE PlanIsComplete
  OBVIOUS
<1>1. weights_info \in WeightsInfos /\ (order = ParamOrder \/ order = BucketOrder(GlobalBuckets))
  BY DEF TransferInit
<1> QED
  BY <1>1, EnginePlan, PlainPlan

-----------------------------------------------------------------------------
(* The transfer.                                                           *)

Contents == [owner : ToSet(ActorRanks) \cup {"none"}, i : Nat, version : -1 .. MaxVersion]

(* What broadcast g puts into a buffer when nothing goes wrong.            *)
Content(g) == [owner |-> Bucket(g).owner, i |-> Bucket(g).i, version |-> actor_version]

(* Rank r has received a bucket that it has not loaded; the number of      *)
(* broadcasts whose buckets r's engine has loaded; parameter p is in one   *)
(* of the first n.                                                         *)
Loading(r) == tp[r] = "load" \/ consumer[r] \in {"busy", "loading"}
LoadsDone(r) == IF Loading(r) THEN gidx - 1 ELSE gidx
Covered(n, p) == \E k \in 1 .. n : p \in ToSet(order[k].metas)

TransferTypes ==
  /\ mode \in Modes /\ weights_info \in WeightsInfos
  /\ actor_version \in 0 .. MaxVersion
  /\ tp \in [Ranks -> {"idle", "register", "start", "broadcast", "load",
                       "ack", "barrier", "drain", "final"}]
  /\ memory_buffers \in [Ranks -> -1 .. MaxVersion]
  /\ h2d_buffer \in [Ranks -> Contents]
  /\ half \in [Ranks -> [0 .. 1 -> Contents]]
  /\ gidx \in 0 .. Len(order)
  /\ consumer \in [Ranks -> {"off", "idle", "busy", "loading", "acked"}]
  /\ job \in [Ranks -> Nat]
  /\ model \in [RolloutRanks -> [Params -> -1 .. MaxVersion]]

(* The ranks walk the broadcasts together: where they may be, by the       *)
(* number of broadcasts done.                                              *)
WalkPhases ==
  \/ \A r \in Ranks : tp[r] = "idle"
  \/ /\ mode # "plain" /\ gidx = 0
     /\ \A r \in Ranks : tp[r] \in {"register", "start"}
  \/ /\ gidx < Len(order)
     /\ \A r \in Ranks : tp[r] \in {"broadcast", "load"}
  \/ /\ Overlap /\ gidx < Len(order)
     /\ \A r \in Ranks : tp[r] \in {"ack", "barrier"}
  \/ /\ gidx = Len(order)
     /\ \A r \in Ranks : tp[r] \in {AfterAll, "load"} \cup (IF Overlap THEN {"final"} ELSE {})

(* Who may be loading, and that what is to be loaded is still there.       *)
LoadsWhatWasSent ==
  /\ \A r \in Ranks :
       /\ tp[r] = "load" => r \in RolloutRanks /\ ~Overlap
       /\ consumer[r] \in {"busy", "loading"} => r \in RolloutRanks
       /\ tp[r] = "barrier" => consumer[r] = "idle"
       /\ ~Overlap \/ tp[r] \in {"idle", "register", "start", "final"} => consumer[r] = "off"
       /\ Loading(r) => /\ gidx > 0 /\ job[r] = gidx - 1
                        /\ half[r][HalfOf(gidx - 1)] = Content(gidx - 1)
       /\ tp[r] \in {"ack", "barrier"} => half[r][HalfOf(gidx)] = Content(gidx)

(* What the actor ranks hold, in host memory and on their devices.         *)
HostHoldsWeights ==
  mode # "plain" =>
    \A r \in ToSet(ActorRanks) :
      tp[r] \notin {"idle", "register"} => memory_buffers[r] = actor_version

RowOnDevice(g) ==
  \A k \in 1 .. Len(order) :
    order[k].i = Bucket(g).i =>
      h2d_buffer[order[k].owner] =
        [owner |-> order[k].owner, i |-> Bucket(g).i, version |-> actor_version]

DeviceHoldsRow ==
  mode # "plain" =>
    \A r \in Ranks :
      /\ tp[r] \in {"broadcast", "load"} /\ gidx > 0 => RowOnDevice(gidx - 1)
      /\ tp[r] \in {"ack", "barrier"} => RowOnDevice(gidx)

(* The parameters of the buckets loaded are new, the others of the version *)
(* before.                                                                 *)
LoadedAreNew ==
  \A r \in RolloutRanks :
    IF tp[r] \in {"idle", "final"}
    THEN \A p \in Params : model[r][p] = actor_version
    ELSE /\ actor_version > 0
         /\ \A p \in Params :
              model[r][p] = IF Covered(LoadsDone(r), p) THEN actor_version
                            ELSE actor_version - 1

TransferInv ==
  /\ PlanIsComplete
  /\ TransferTypes
  /\ WalkPhases
  /\ LoadsWhatWasSent
  /\ HostHoldsWeights
  /\ DeviceHoldsRow
  /\ LoadedAreNew

-----------------------------------------------------------------------------
(* The plan of the broadcasts: every one has an actor rank as its source,  *)
(* there is at least one, and together they have every parameter.          *)
LEMMA PlanHas ==
  ASSUME weights_info \in WeightsInfos, PlanIsComplete
  PROVE  /\ Len(order) \in Nat \ {0}
         /\ \A k \in 1..Len(order) : /\ order[k].owner \in ToSet(ActorRanks)
                                     /\ order[k].owner \in Ranks
                                     /\ order[k].i \in Nat
                                     /\ order[k].metas \in Seq(Params)
         /\ \A p \in Params : Covered(Len(order), p)
<1> DEFINE B == [owner : ToSet(ActorRanks), i : Nat, metas : Seq(Params)]
           At(p) == {k \in DOMAIN order : p \in ToSet(order[k].metas)}
<1>1. order \in Seq(B)
  BY DEF PlanIsComplete
<1>2. Len(order) \in Nat /\ DOMAIN order = 1..Len(order)
  BY <1>1, LenProperties
<1>3. \A k \in 1..Len(order) : order[k] \in B
  BY <1>1, <1>2, ElementOfSeq
<1>4. \A k \in 1..Len(order) : /\ order[k].owner \in ToSet(ActorRanks)
                              /\ order[k].owner \in Ranks
                              /\ order[k].i \in Nat
                              /\ order[k].metas \in Seq(Params)
  BY <1>3 DEF Ranks
<1>5. ASSUME NEW p \in Params  PROVE Covered(Len(order), p)
  <2>1. Cardinality(At(p)) = 1
    BY DEF PlanIsComplete
  <2>2. At(p) # {}
    <3>1. 0 # 1
      OBVIOUS
    <3> HIDE DEF At
    <3>2. At(p) = {} => Cardinality(At(p)) = 0
      BY FS_EmptySet
    <3> QED
      BY <2>1, <3>1, <3>2
  <2> QED
    BY <1>2, <2>2 DEF Covered
<1>6. Len(order) # 0
  <2>1. weights_info \in Seq(Nat \ {0}) /\ weights_info # <<>>
    BY TransferAssumption
  <2>2. 1 \in Params
    BY <2>1, EmptySeq, LenProperties DEF Params
  <2> QED
    BY <1>2, <1>5, <2>2 DEF Covered
<1> QED
  BY <1>2, <1>4, <1>5, <1>6

(* There is an actor rank.                                                 *)
LEMMA RanksExist ==
  /\ \E r \in Ranks : r \in ToSet(ActorRanks)
  /\ ToSet(ActorRanks) \subseteq Ranks /\ RolloutRanks \subseteq Ranks
  /\ ToSet(ActorRanks) \cap RolloutRanks = {}
<1>1. ActorRanks \in Seq(Ranks) /\ ActorRanks # <<>>
  BY TransferAssumption
<1>2. ActorRanks[1] \in ToSet(ActorRanks)
  BY <1>1, EmptySeq, LenProperties DEF ToSet
<1> QED
  BY <1>2, TransferAssumption DEF Ranks

(* The settings do not change, nor does the plan.                          *)
LEMMA PlanStays ==
  ASSUME [TransferNext]_transferVars, PlanIsComplete
  PROVE  UNCHANGED settings /\ PlanIsComplete'
<1>1. UNCHANGED settings
  BY DEF TransferNext, TransferStep, transferVars, StartTransfer, StartUpdate, Broadcast,
         Barrier, FinishUpdate, RegisterCheckpoint, LoadInline, ReceiveAck,
         ConsumerLoads, ConsumerLoaded, DrainConsumer
<1>2. mode' = mode /\ weights_info' = weights_info /\ order' = order
  BY <1>1 DEF settings
<1>3. Params' = Params /\ BucketSize' = BucketSize
  BY <1>2 DEF Params, BucketSize
<1>4. PlanIsComplete'
  BY <1>2, <1>3 DEF PlanIsComplete
<1> QED
  BY <1>1, <1>4

(* At the start nothing is under way and the version is loaded.            *)
LEMMA TransferInitInv ==
  ASSUME TransferInit, PlanIsComplete
  PROVE  TransferInv
<1>1. Len(order) \in Nat \ {0}
  BY PlanHas DEF TransferInit
<1>2. TransferTypes
  <2>1. NoData \in Contents
    BY TransferAssumption DEF NoData, Contents
  <2>2. 0 \in 0..MaxVersion /\ -1 \in -1..MaxVersion /\ 0 \in -1..MaxVersion /\ 0 \in 0..Len(order)
    BY <1>1, TransferAssumption
  <2>3. h2d_buffer \in [Ranks -> Contents] /\ half \in [Ranks -> [0..1 -> Contents]]
    BY <2>1 DEF TransferInit
  <2>4. model \in [RolloutRanks -> [Params -> -1..MaxVersion]]
    BY <2>2 DEF TransferInit
  <2>5. memory_buffers \in [Ranks -> -1..MaxVersion]
    BY <2>2 DEF TransferInit
  <2> QED
    BY <2>2, <2>3, <2>4, <2>5 DEF TransferInit, TransferTypes
<1>3. WalkPhases /\ LoadsWhatWasSent /\ HostHoldsWeights /\ DeviceHoldsRow
  BY RanksExist DEF TransferInit, WalkPhases, LoadsWhatWasSent, HostHoldsWeights,
     DeviceHoldsRow, Loading
<1>4. LoadedAreNew
  BY RanksExist DEF TransferInit, LoadedAreNew
<1> QED
  BY <1>2, <1>3, <1>4 DEF TransferInv

(* What the invariant says of an idle rank is the property.                *)
LEMMA ArrivalFollows ==
  ASSUME TransferInv
  PROVE  EveryParameterArrives
<1> SUFFICES ASSUME NEW r \in RolloutRanks, NEW p \in Params
             PROVE  /\ model[r][p] \in {actor_version, actor_version - 1} \ {Corrupt}
                    /\ tp[r] \in {"idle", "final"} => model[r][p] = actor_version
  BY DEF EveryParameterArrives
<1>1. actor_version \in Nat
  BY TransferAssumption DEF TransferInv, TransferTypes
<1>2. CASE tp[r] \in {"idle", "final"}
  <2>1. model[r][p] = actor_version
    BY <1>2 DEF TransferInv, LoadedAreNew
  <2> QED
    BY <1>1, <2>1 DEF Corrupt
<1>3. CASE tp[r] \notin {"idle", "final"}
  <2>1. actor_version > 0
    BY <1>3 DEF TransferInv, LoadedAreNew
  <2>2. model[r][p] = actor_version \/ model[r][p] = actor_version - 1
    BY <1>3 DEF TransferInv, LoadedAreNew
  <2>3. model[r][p] \in {actor_version, actor_version - 1} \ {Corrupt}
    BY <1>1, <2>1, <2>2 DEF Corrupt
  <2> QED
    BY <1>3, <2>3
<1> QED
  BY <1>2, <1>3

(* StartTransfer: every engine has the weights of the version before.      *)
LEMMA StartTransferKeeps ==
  ASSUME TransferInv, StartTransfer, PlanIsComplete'
  PROVE  TransferInv'
<1> USE DEF StartTransfer, settings, buffers
<1>1. /\ Len(order) \in Nat \ {0}
      /\ \A r \in Ranks : tp[r] = "idle" /\ consumer[r] = "off" /\ ~Loading(r)
  BY PlanHas DEF TransferInv, TransferTypes, LoadsWhatWasSent, Loading
<1>2. \A r \in Ranks : tp'[r] = IF mode = "plain" THEN "broadcast" ELSE "register"
  OBVIOUS
<1>3. TransferTypes'
  <2>1. actor_version' \in 0..MaxVersion
    BY TransferAssumption DEF TransferInv, TransferTypes
  <2>2. gidx' \in 0..Len(order')
    BY <1>1
  <2> QED
    BY <2>1, <2>2 DEF TransferInv, TransferTypes, Params
<1>4. WalkPhases'
  BY <1>1, <1>2 DEF WalkPhases
<1>5. LoadsWhatWasSent'
  <2>1. \A r \in Ranks : consumer'[r] = "off"
    BY <1>1
  <2> QED
    BY <1>2, <2>1 DEF LoadsWhatWasSent, Loading
<1>6. HostHoldsWeights'
  BY <1>2, RanksExist DEF HostHoldsWeights
<1>7. DeviceHoldsRow'
  BY <1>2 DEF DeviceHoldsRow
<1>8. LoadedAreNew'
  <2>1. actor_version \in Nat
    BY TransferAssumption DEF TransferInv, TransferTypes
  <2>2. ASSUME NEW r \in RolloutRanks
        PROVE  /\ tp'[r] \notin {"idle", "final"}
               /\ LoadsDone(r)' = 0
               /\ \A p \in Params : model[r][p] = actor_version
    BY <1>1, <1>2, RanksExist DEF LoadsDone, Loading, TransferInv, LoadedAreNew
  <2>3. actor_version' > 0 /\ actor_version' - 1 = actor_version
    BY <2>1
  <2>4. \A p \in Params : ~Covered(0, p)'
    BY DEF Covered
  <2>5. Params' = Params /\ model' = model
    BY DEF Params
  <2> QED
    BY <2>2, <2>3, <2>4, <2>5 DEF LoadedAreNew
<1> QED
  BY <1>3, <1>4, <1>5, <1>6, <1>7, <1>8 DEF TransferInv

(* RegisterCheckpoint: before the first broadcast.                         *)
LEMMA RegisterCheckpointKeeps ==
  ASSUME TransferInv, NEW r \in Ranks, RegisterCheckpoint(r), PlanIsComplete'
  PROVE  TransferInv'
<1> USE DEF RegisterCheckpoint, settings
<1>1. /\ mode # "plain" /\ gidx = 0
      /\ \A q \in Ranks : /\ tp[q] \in {"register", "start"}
                          /\ tp'[q] = IF q = r THEN "start" ELSE tp[q]
                          /\ consumer[q] = "off"
  <2>1. mode # "plain" /\ gidx = 0 /\ \A q \in Ranks : tp[q] \in {"register", "start"}
    BY DEF TransferInv, WalkPhases, AfterAll
  <2> QED
    BY <2>1 DEF TransferInv, TransferTypes, LoadsWhatWasSent
<1>2. TransferTypes'
  <2>1. memory_buffers' \in [Ranks -> -1..MaxVersion]
    BY TransferAssumption DEF TransferInv, TransferTypes
  <2>2. tp' \in [Ranks -> {"idle", "register", "start", "broadcast", "load",
                           "ack", "barrier", "drain", "final"}]
    BY DEF TransferInv, TransferTypes
  <2> QED
    BY <2>1, <2>2 DEF TransferInv, TransferTypes, Params
<1>3. WalkPhases' /\ DeviceHoldsRow'
  BY <1>1 DEF WalkPhases, DeviceHoldsRow
<1>4. LoadsWhatWasSent'
  BY <1>1 DEF LoadsWhatWasSent, Loading
<1>5. HostHoldsWeights'
  BY <1>1, RanksExist DEF TransferInv, TransferTypes, HostHoldsWeights
<1>6. LoadedAreNew'
  <2>1. \A q \in RolloutRanks : LoadsDone(q)' = LoadsDone(q)
    BY <1>1, RanksExist DEF LoadsDone, Loading
  <2> QED
    BY <1>1, <2>1, RanksExist DEF TransferInv, LoadedAreNew, Params, Covered
<1> QED
  BY <1>2, <1>3, <1>4, <1>5, <1>6 DEF TransferInv

(* StartUpdate: the buffers are fresh, the threads have greeted.           *)
LEMMA StartUpdateKeeps ==
  ASSUME TransferInv, StartUpdate, PlanIsComplete'
  PROVE  TransferInv'
<1> USE DEF StartUpdate, settings
<1>1. /\ mode # "plain" /\ gidx = 0 /\ Len(order) \in Nat \ {0}
      /\ \A q \in Ranks : tp[q] = "start" /\ tp'[q] = "broadcast" /\ consumer[q] = "off"
  <2>1. mode # "plain" /\ gidx = 0
    BY RanksExist DEF TransferInv, WalkPhases, AfterAll
  <2> QED
    BY <2>1, PlanHas DEF TransferInv, TransferTypes, LoadsWhatWasSent
<1>2. TransferTypes'
  <2>1. NoData \in Contents
    BY TransferAssumption DEF NoData, Contents
  <2>2. h2d_buffer' \in [Ranks -> Contents] /\ half' \in [Ranks -> [0..1 -> Contents]]
    BY <2>1
  <2>3. /\ tp' \in [Ranks -> {"idle", "register", "start", "broadcast", "load",
                             "ack", "barrier", "drain", "final"}]
        /\ consumer' \in [Ranks -> {"off", "idle", "busy", "loading", "acked"}]
    OBVIOUS
  <2> QED
    BY <2>2, <2>3 DEF TransferInv, TransferTypes, Params
<1>3. WalkPhases' /\ DeviceHoldsRow'
  BY <1>1 DEF WalkPhases, DeviceHoldsRow
<1>4. LoadsWhatWasSent'
  <2>1. \A q \in Ranks : consumer'[q] = IF Overlap THEN "acked" ELSE "off"
    OBVIOUS
  <2> QED
    BY <1>1, <2>1 DEF LoadsWhatWasSent, Loading, Overlap
<1>5. HostHoldsWeights'
  BY <1>1, RanksExist DEF TransferInv, HostHoldsWeights
<1>6. LoadedAreNew'
  <2>1. \A q \in RolloutRanks : LoadsDone(q)' = 0 /\ LoadsDone(q) = 0
    BY <1>1, RanksExist DEF LoadsDone, Loading
  <2> QED
    BY <1>1, <2>1, RanksExist DEF TransferInv, LoadedAreNew, Params, Covered
<1> QED
  BY <1>2, <1>3, <1>4, <1>5, <1>6 DEF TransferInv

(* A load brings the parameters of the last bucket received to the newest  *)
(* version and leaves the others.                                          *)
LEMMA LoadBrings ==
  ASSUME TransferInv, NEW r \in RolloutRanks, Loading(r)
  PROVE  /\ gidx \in 1..Len(order) /\ job[r] = gidx - 1
         /\ tp[r] \notin {"idle", "register", "start", "final"}
         /\ actor_version > 0
         /\ Loaded(r, job[r]) \in [Params -> -1..MaxVersion]
         /\ \A p \in Params : Loaded(r, job[r])[p] =
                IF Covered(gidx, p) THEN actor_version ELSE actor_version - 1
<1>1. r \in Ranks
  BY RanksExist
<1>2. /\ gidx > 0 /\ job[r] = gidx - 1
      /\ half[r][HalfOf(gidx - 1)] = Content(gidx - 1)
  BY <1>1 DEF TransferInv, LoadsWhatWasSent
<1>3. /\ gidx \in 1..Len(order) /\ Len(order) \in Nat /\ actor_version \in 0..MaxVersion
  BY <1>2, PlanHas DEF TransferInv, TransferTypes
<1>4. tp[r] \notin {"idle", "register", "start", "final"}
  BY <1>1 DEF TransferInv, LoadsWhatWasSent, Loading
<1>5. PICK g \in 1..Len(order) : g = gidx
  BY <1>3
<1>6. /\ half[r][HalfOf(job[r])].owner = Bucket(job[r]).owner
      /\ half[r][HalfOf(job[r])].i = Bucket(job[r]).i
      /\ half[r][HalfOf(job[r])].version = actor_version
  BY <1>2 DEF Content
<1>7. Bucket(job[r]).metas = order[g].metas
  <2>1. Len(order) \in Nat /\ job[r] = g - 1 /\ g - 1 + 1 = g
    BY <1>2, <1>3, <1>5
  <2> QED
    BY <2>1 DEF Bucket
<1>8. \A p \in Params : Covered(g, p) <=> Covered(g - 1, p) \/ p \in ToSet(order[g].metas)
  <2>1. Len(order) \in Nat /\ 1..g = (1..(g - 1)) \cup {g}
    BY <1>3
  <2> QED
    BY <2>1 DEF Covered
<1>9. /\ actor_version > 0
      /\ \A p \in Params : model[r][p] = IF Covered(g - 1, p) THEN actor_version
                                         ELSE actor_version - 1
  <2>1. LoadsDone(r) = g - 1
    BY <1>5 DEF LoadsDone
  <2> QED
    BY <1>4, <2>1 DEF TransferInv, LoadedAreNew
<1>10. \A p \in Params : Loaded(r, job[r])[p] =
           IF p \in ToSet(order[g].metas) THEN actor_version ELSE model[r][p]
  BY <1>6, <1>7 DEF Loaded
<1>11. \A p \in Params : Loaded(r, job[r])[p] =
           IF Covered(g, p) THEN actor_version ELSE actor_version - 1
  <2> HIDE DEF Loaded, Covered
  <2> QED
    BY <1>8, <1>9, <1>10
<1>12. Loaded(r, job[r]) \in [Params -> -1..MaxVersion]
  <2>1. DOMAIN Loaded(r, job[r]) = Params
        /\ Loaded(r, job[r]) = [p \in Params |-> Loaded(r, job[r])[p]]
    BY DEF Loaded
  <2>2. actor_version \in -1..MaxVersion /\ actor_version - 1 \in -1..MaxVersion
    BY <1>3, TransferAssumption
  <2>3. \A p \in Params : Loaded(r, job[r])[p] \in -1..MaxVersion
    BY <1>11, <2>2
  <2> QED
    BY <2>1, <2>3
<1> QED
  BY <1>2, <1>3, <1>4, <1>5, <1>9, <1>11, <1>12

(* LoadInline: without overlap, the bucket is loaded before the next one.  *)
LEMMA LoadInlineKeeps ==
  ASSUME TransferInv, NEW r \in Ranks, LoadInline(r), PlanIsComplete'
  PROVE  TransferInv'
<1> USE DEF LoadInline, settings, buffers
<1>1. /\ r \in RolloutRanks /\ ~Overlap /\ Loading(r)
      /\ Len(order) \in Nat /\ gidx \in 1..Len(order) /\ job[r] = gidx - 1
      /\ \A q \in Ranks : consumer[q] = "off" /\ tp'[q] = IF q = r THEN After(job[r]) ELSE tp[q]
  BY LoadBrings, PlanHas, RanksExist DEF TransferInv, LoadsWhatWasSent, Loading, TransferTypes
<1>2. After(job[r]) = IF gidx < Len(order) THEN "broadcast" ELSE AfterAll
  <2>1. job[r] + 1 = gidx
    BY <1>1
  <2> QED
    BY <2>1 DEF After, More
<1>3. AfterAll \in {"idle", "final"}
  BY <1>1 DEF AfterAll, Overlap, TransferInv, TransferTypes, Modes
<1>4. TransferTypes'
  <2>1. model' \in [RolloutRanks -> [Params -> -1..MaxVersion]]
    BY <1>1, LoadBrings DEF TransferInv, TransferTypes
  <2>2. tp' \in [Ranks -> {"idle", "register", "start", "broadcast", "load",
                           "ack", "barrier", "drain", "final"}]
    BY <1>2, <1>3 DEF TransferInv, TransferTypes
  <2> QED
    BY <2>1, <2>2 DEF TransferInv, TransferTypes, Params
<1>5. WalkPhases'
  <2>1. AfterAll' = AfterAll /\ Overlap' = Overlap
    BY DEF AfterAll, Overlap
  <2>2. CASE gidx < Len(order)
    <3>1. \A q \in Ranks : tp[q] \in {"broadcast", "load"}
      BY <1>1, <2>2 DEF TransferInv, WalkPhases
    <3> QED
      BY <1>1, <1>2, <2>2, <3>1 DEF WalkPhases
  <2>3. CASE gidx = Len(order)
    <3>1. \A q \in Ranks : tp[q] \in {AfterAll, "load"}
      BY <1>1, <2>3 DEF TransferInv, WalkPhases
    <3>2. \A q \in Ranks : tp'[q] \in {AfterAll, "load"}
      BY <1>1, <1>2, <2>3, <3>1
    <3> QED
      BY <2>1, <2>3, <3>2 DEF WalkPhases
  <2> QED
    BY <1>1, <2>2, <2>3
<1>6. /\ tp'[r] \in {"broadcast", "idle", "final"}
      /\ tp'[r] \in {"idle", "final"} => gidx = Len(order)
  BY <1>1, <1>2, <1>3
<1>7. LoadsWhatWasSent'
  <2>1. \A q \in Ranks : ~Loading(r)' /\ (q # r => Loading(q)' = Loading(q))
    BY <1>1, <1>6 DEF Loading
  <2>2. \A g : Content(g)' = Content(g) /\ HalfOf(g)' = HalfOf(g)
    BY DEF Content, Bucket, HalfOf, Overlap
  <2>3. \A q \in Ranks : q # r => tp'[q] = tp[q]
    BY <1>1
  <2>4. Overlap' = Overlap
    BY DEF Overlap
  <2> HIDE DEF LoadInline
  <2>5. job' = job /\ half' = half /\ gidx' = gidx /\ consumer' = consumer
    BY DEF LoadInline
  <2>6. ASSUME NEW q \in Ranks
        PROVE  /\ tp'[q] = "load" => q \in RolloutRanks /\ ~Overlap'
               /\ consumer'[q] \in {"busy", "loading"} => q \in RolloutRanks
               /\ tp'[q] = "barrier" => consumer'[q] = "idle"
               /\ ~Overlap' \/ tp'[q] \in {"idle", "register", "start", "final"}
                    => consumer'[q] = "off"
               /\ Loading(q)' => /\ gidx' > 0 /\ job'[q] = gidx' - 1
                                 /\ half'[q][HalfOf(gidx - 1)'] = Content(gidx - 1)'
               /\ tp'[q] \in {"ack", "barrier"} => half'[q][HalfOf(gidx)'] = Content(gidx)'
    <3>1. CASE q = r
      BY <1>1, <1>6, <2>1, <2>5, <3>1
    <3>2. CASE q # r
      BY <1>1, <2>1, <2>2, <2>3, <2>4, <2>5, <3>2 DEF TransferInv, LoadsWhatWasSent
    <3> QED
      BY <3>1, <3>2
  <2> QED
    BY <2>6 DEF LoadsWhatWasSent
<1>8. HostHoldsWeights'
  BY <1>1, RanksExist DEF TransferInv, HostHoldsWeights
<1>9. DeviceHoldsRow'
  <2>1. RowOnDevice(gidx - 1)' = RowOnDevice(gidx - 1) /\ RowOnDevice(gidx)' = RowOnDevice(gidx)
    BY DEF RowOnDevice, Bucket
  <2>2. \A q \in Ranks : /\ tp'[q] \in {"broadcast", "load"} => tp[q] \in {"broadcast", "load"}
                         /\ tp'[q] \in {"ack", "barrier"} => tp[q] \in {"ack", "barrier"}
    BY <1>1, <1>6
  <2> QED
    BY <2>1, <2>2 DEF TransferInv, DeviceHoldsRow
<1>10. LoadedAreNew'
  <2>1. /\ model' = [model EXCEPT ![r] = Loaded(r, job[r])]
        /\ actor_version' = actor_version /\ gidx' = gidx /\ Params' = Params
        /\ \A n, p : Covered(n, p)' = Covered(n, p)
    BY DEF Params, Covered
  <2>2. ASSUME NEW q \in RolloutRanks
        PROVE  IF tp'[q] \in {"idle", "final"}
               THEN \A p \in Params : model'[q][p] = actor_version
               ELSE /\ actor_version > 0
                    /\ \A p \in Params :
                         model'[q][p] = IF Covered(LoadsDone(q), p)' THEN actor_version
                                        ELSE actor_version - 1
    <3>1. CASE q = r
      <4>1. LoadsDone(q)' = gidx
        BY <1>1, <1>6, <3>1, RanksExist DEF LoadsDone, Loading
      <4>2. model'[q] = Loaded(r, job[r])
        BY <1>1, <2>1, <3>1 DEF TransferInv, TransferTypes
      <4>3. gidx = Len(order) => \A p \in Params : Covered(gidx, p)
        BY PlanHas DEF TransferInv, TransferTypes
      <4>4. \A p : Covered(LoadsDone(q), p)' = Covered(gidx, p)
        BY <4>1 DEF Covered
      <4> QED
        BY <1>1, <1>6, <3>1, <4>2, <4>3, <4>4, LoadBrings
    <3>2. CASE q # r
      <4>1. LoadsDone(q)' = LoadsDone(q) /\ tp'[q] = tp[q] /\ model'[q] = model[q]
        BY <1>1, <2>1, <3>2, RanksExist DEF LoadsDone, Loading, TransferInv, TransferTypes
      <4>2. \A p : Covered(LoadsDone(q), p)' = Covered(LoadsDone(q), p)
        BY <4>1 DEF Covered
      <4> QED
        BY <4>1, <4>2 DEF TransferInv, LoadedAreNew
    <3> QED
      BY <3>1, <3>2
  <2> QED
    BY <2>1, <2>2 DEF LoadedAreNew
<1> QED
  BY <1>4, <1>5, <1>7, <1>8, <1>9, <1>10 DEF TransferInv

(* ConsumerLoads: the thread has begun.                                    *)
LEMMA ConsumerLoadsKeeps ==
  ASSUME TransferInv, NEW r \in Ranks, ConsumerLoads(r), PlanIsComplete'
  PROVE  TransferInv'
<1> USE DEF ConsumerLoads, settings, buffers
<1>1. \A q \in Ranks : consumer'[q] = IF q = r THEN "loading" ELSE consumer[q]
  BY DEF TransferInv, TransferTypes
<1>2. \A q \in Ranks : Loading(q)' = Loading(q)
  BY <1>1 DEF Loading
<1>3. TransferTypes'
  BY DEF TransferInv, TransferTypes, Params
<1>4. WalkPhases' /\ HostHoldsWeights' /\ DeviceHoldsRow'
  BY DEF TransferInv, WalkPhases, AfterAll, Overlap, HostHoldsWeights, DeviceHoldsRow,
     RowOnDevice, Bucket
<1>5. LoadsWhatWasSent'
  <2>1. consumer[r] = "busy"
    OBVIOUS
  <2>2. /\ Content(gidx)' = Content(gidx) /\ HalfOf(gidx)' = HalfOf(gidx)
        /\ Content(gidx - 1)' = Content(gidx - 1) /\ HalfOf(gidx - 1)' = HalfOf(gidx - 1)
        /\ Overlap' = Overlap
    BY DEF Content, Bucket, HalfOf, Overlap
  <2> QED
    BY <1>1, <1>2, <2>1, <2>2 DEF TransferInv, LoadsWhatWasSent
<1>6. LoadedAreNew'
  <2>1. \A q \in RolloutRanks : LoadsDone(q)' = LoadsDone(q)
    BY <1>2, RanksExist DEF LoadsDone
  <2> QED
    BY <2>1 DEF TransferInv, LoadedAreNew, Params, Covered
<1> QED
  BY <1>3, <1>4, <1>5, <1>6 DEF TransferInv

(* ConsumerLoaded: the thread has loaded its half of the buffer.           *)
LEMMA ConsumerLoadedKeeps ==
  ASSUME TransferInv, NEW r \in Ranks, ConsumerLoaded(r), PlanIsComplete'
  PROVE  TransferInv'
<1> USE DEF ConsumerLoaded, settings, buffers
<1>1. /\ r \in RolloutRanks /\ Overlap /\ Loading(r)
      /\ tp[r] \notin {"load", "barrier", "idle", "register", "start", "final"}
      /\ \A q \in Ranks : consumer'[q] = IF q = r THEN "acked" ELSE consumer[q]
  BY DEF TransferInv, TransferTypes, LoadsWhatWasSent, Loading
<1>2. ~Loading(r)' /\ \A q \in Ranks : q # r => Loading(q)' = Loading(q)
  BY <1>1 DEF Loading
<1>3. TransferTypes'
  BY <1>1, LoadBrings DEF TransferInv, TransferTypes, Params
<1>4. WalkPhases' /\ HostHoldsWeights' /\ DeviceHoldsRow'
  BY DEF TransferInv, WalkPhases, AfterAll, Overlap, HostHoldsWeights, DeviceHoldsRow,
     RowOnDevice, Bucket
<1>5. LoadsWhatWasSent'
  <2>1. /\ Content(gidx)' = Content(gidx) /\ HalfOf(gidx)' = HalfOf(gidx)
        /\ Content(gidx - 1)' = Content(gidx - 1) /\ HalfOf(gidx - 1)' = HalfOf(gidx - 1)
        /\ Overlap' = Overlap
    BY DEF Content, Bucket, HalfOf, Overlap
  <2> QED
    BY <1>1, <1>2, <2>1 DEF TransferInv, LoadsWhatWasSent
<1>6. LoadedAreNew'
  <2>1. /\ actor_version' = actor_version /\ tp' = tp /\ Params' = Params
        /\ \A q \in RolloutRanks :
             model'[q] = IF q = r THEN Loaded(r, job[r]) ELSE model[q]
    BY DEF Params, TransferInv, TransferTypes
  <2>2. LoadsDone(r)' = gidx
        /\ \A q \in RolloutRanks : q # r => LoadsDone(q)' = LoadsDone(q)
    BY <1>2, RanksExist DEF LoadsDone
  <2>3. /\ \A p : Covered(LoadsDone(r), p)' = Covered(gidx, p)
        /\ \A q \in RolloutRanks : q # r =>
             \A p : Covered(LoadsDone(q), p)' = Covered(LoadsDone(q), p)
    BY <2>2 DEF Covered
  <2> QED
    BY <1>1, <2>1, <2>3, LoadBrings DEF TransferInv, LoadedAreNew
<1> QED
  BY <1>3, <1>4, <1>5, <1>6 DEF TransferInv

(* ReceiveAck: the thread is done with the bucket before.                  *)
LEMMA ReceiveAckKeeps ==
  ASSUME TransferInv, NEW r \in Ranks, ReceiveAck(r), PlanIsComplete'
  PROVE  TransferInv'
<1> USE DEF ReceiveAck, settings, buffers
<1>1. \A q \in Ranks : /\ consumer'[q] = IF q = r THEN "idle" ELSE consumer[q]
                       /\ tp'[q] = IF q = r THEN "barrier" ELSE tp[q]
  BY DEF TransferInv, TransferTypes
<1>2. \A q \in Ranks : Loading(q)' = Loading(q)
  BY <1>1 DEF Loading
<1>3. TransferTypes'
  BY DEF TransferInv, TransferTypes, Params
<1>4. Overlap /\ gidx < Len(order) /\ \A q \in Ranks : tp[q] \in {"ack", "barrier"}
  BY DEF TransferInv, WalkPhases, AfterAll
<1>5. WalkPhases' /\ HostHoldsWeights'
  BY <1>1, <1>4, RanksExist DEF TransferInv, WalkPhases, Overlap, HostHoldsWeights
<1>6. DeviceHoldsRow'
  <2>1. RowOnDevice(gidx)' = RowOnDevice(gidx)
    BY DEF RowOnDevice, Bucket
  <2> QED
    BY <1>1, <1>4, <2>1 DEF TransferInv, DeviceHoldsRow
<1>7. LoadsWhatWasSent'
  <2>1. /\ Content(gidx)' = Content(gidx) /\ HalfOf(gidx)' = HalfOf(gidx)
        /\ Content(gidx - 1)' = Content(gidx - 1) /\ HalfOf(gidx - 1)' = HalfOf(gidx - 1)
        /\ Overlap' = Overlap
    BY DEF Content, Bucket, HalfOf, Overlap
  <2> QED
    BY <1>1, <1>2, <1>4, <2>1 DEF TransferInv, LoadsWhatWasSent
<1>8. LoadedAreNew'
  <2>1. \A q \in RolloutRanks : LoadsDone(q)' = LoadsDone(q)
    BY <1>2, RanksExist DEF LoadsDone
  <2> QED
    BY <1>1, <1>4, <2>1, RanksExist DEF TransferInv, LoadedAreNew, Params, Covered
<1> QED
  BY <1>3, <1>5, <1>6, <1>7, <1>8 DEF TransferInv

(* DrainConsumer: the last bucket has been loaded.                         *)
LEMMA DrainConsumerKeeps ==
  ASSUME TransferInv, NEW r \in Ranks, DrainConsumer(r), PlanIsComplete'
  PROVE  TransferInv'
<1> USE DEF DrainConsumer, settings, buffers
<1>1. \A q \in Ranks : /\ consumer'[q] = IF q = r THEN "off" ELSE consumer[q]
                       /\ tp'[q] = IF q = r THEN "final" ELSE tp[q]
  BY DEF TransferInv, TransferTypes
<1>2. ~Loading(r) /\ \A q \in Ranks : Loading(q)' = Loading(q)
  BY <1>1 DEF Loading
<1>3. TransferTypes'
  BY DEF TransferInv, TransferTypes, Params
<1>4. /\ AfterAll = "drain" /\ Overlap /\ gidx = Len(order)
      /\ \A q \in Ranks : tp[q] \in {"drain", "load", "final"}
  <2>1. /\ gidx = Len(order)
        /\ \A q \in Ranks : tp[q] \in {AfterAll, "load", "final"}
    BY DEF TransferInv, WalkPhases
  <2>2. AfterAll = "drain"
    BY <2>1
  <2>3. Overlap
    BY <2>2 DEF AfterAll, Overlap, TransferInv, TransferTypes, Modes
  <2> QED
    BY <2>1, <2>2, <2>3
<1>5. WalkPhases' /\ HostHoldsWeights' /\ DeviceHoldsRow'
  <2>1. WalkPhases'
    BY <1>1, <1>4 DEF WalkPhases, AfterAll, Overlap
  <2>2. HostHoldsWeights'
    BY <1>1, <1>4, RanksExist DEF TransferInv, HostHoldsWeights
  <2>3. RowOnDevice(gidx - 1)' = RowOnDevice(gidx - 1)
    BY DEF RowOnDevice, Bucket
  <2> QED
    BY <1>1, <1>4, <2>1, <2>2, <2>3 DEF TransferInv, DeviceHoldsRow
<1>6. LoadsWhatWasSent'
  <2>1. /\ Content(gidx - 1)' = Content(gidx - 1) /\ HalfOf(gidx - 1)' = HalfOf(gidx - 1)
        /\ Overlap' = Overlap
    BY DEF Content, Bucket, HalfOf, Overlap
  <2> QED
    BY <1>1, <1>2, <1>4, <2>1 DEF TransferInv, LoadsWhatWasSent
<1>7. LoadedAreNew'
  <2>1. \A q \in RolloutRanks : LoadsDone(q)' = LoadsDone(q)
    BY <1>2, RanksExist DEF LoadsDone
  <2>2. r \in RolloutRanks => LoadsDone(r) = Len(order)
    BY <1>2, <1>4 DEF LoadsDone
  <2>3. \A p \in Params : Covered(Len(order), p)
    BY PlanHas DEF TransferInv, TransferTypes
  <2> QED
    BY <1>1, <1>4, <2>1, <2>2, <2>3, RanksExist
       DEF TransferInv, LoadedAreNew, Params, Covered
<1> QED
  BY <1>3, <1>5, <1>6, <1>7 DEF TransferInv

(* FinishUpdate: nothing is being loaded any more.                         *)
LEMMA FinishUpdateKeeps ==
  ASSUME TransferInv, FinishUpdate, PlanIsComplete'
  PROVE  TransferInv'
<1> USE DEF FinishUpdate, settings, buffers
<1>1. \A q \in Ranks : tp[q] = "final" /\ tp'[q] = "idle" /\ consumer[q] = "off"
  BY DEF TransferInv, LoadsWhatWasSent
<1>2. \A q \in Ranks : ~Loading(q)'
  BY <1>1 DEF Loading
<1>3. TransferTypes'
  BY TransferAssumption DEF TransferInv, TransferTypes, Params
<1>4. WalkPhases' /\ HostHoldsWeights' /\ DeviceHoldsRow'
  BY <1>1, RanksExist DEF WalkPhases, HostHoldsWeights, DeviceHoldsRow
<1>5. LoadsWhatWasSent'
  BY <1>1, <1>2 DEF LoadsWhatWasSent
<1>6. LoadedAreNew'
  BY <1>1, RanksExist DEF TransferInv, LoadedAreNew, Params
<1> QED
  BY <1>3, <1>4, <1>5, <1>6 DEF TransferInv

(* What is sent is what the plan says: an actor rank's device holds its    *)
(* bucket of the present row, copied there at the row's first broadcast.   *)
LEMMA SentIsRight ==
  ASSUME TransferInv, \A r \in Ranks : tp[r] = "broadcast"
  PROVE  /\ gidx < Len(order)
         /\ Sent(Bucket(gidx).owner, gidx) = Content(gidx)
         /\ \A r \in Ranks : OnDevice(r, gidx) \in Contents
         /\ Content(gidx) \in Contents
         /\ mode # "plain" =>
              \A k \in 1..Len(order) : order[k].i = Bucket(gidx).i =>
                OnDevice(order[k].owner, gidx) =
                  [owner |-> order[k].owner, i |-> Bucket(gidx).i, version |-> actor_version]
<1>1. gidx < Len(order)
  BY RanksExist DEF TransferInv, WalkPhases, AfterAll
<1>2. /\ Len(order) \in Nat /\ gidx \in 0..Len(order)
      /\ actor_version \in 0..MaxVersion /\ MaxVersion \in Nat
  BY PlanHas, TransferAssumption DEF TransferInv, TransferTypes
<1>3. PICK g \in Nat : g = gidx
  BY <1>2
<1>4. g + 1 \in 1..Len(order) /\ Bucket(g) = order[g + 1]
  BY <1>1, <1>2, <1>3 DEF Bucket
<1>5. /\ Bucket(g).owner \in ToSet(ActorRanks) /\ Bucket(g).owner \in Ranks
      /\ Bucket(g).i \in Nat
  BY <1>4, PlanHas DEF TransferInv, TransferTypes
<1>6. /\ \A r \in Ranks : memory_buffers[r] \in -1..MaxVersion /\ h2d_buffer[r] \in Contents
      /\ \A k \in 1..Len(order) : order[k].owner \in ToSet(ActorRanks)
      /\ ToSet(ActorRanks) \subseteq Ranks
  BY PlanHas, RanksExist DEF TransferInv, TransferTypes
<1>7. mode # "plain" => \A r \in ToSet(ActorRanks) : memory_buffers[r] = actor_version
  BY <1>6 DEF TransferInv, HostHoldsWeights
<1>8. ASSUME NEW r \in Ranks  PROVE OnDevice(r, g) \in Contents
  <2>1. CASE /\ mode # "plain" /\ FirstOfRow(g) /\ memory_buffers[r] >= 0
             /\ \E k \in 1..Len(order) : order[k].owner = r /\ order[k].i = Bucket(g).i
    <3>1. OnDevice(r, g) = [owner |-> r, i |-> Bucket(g).i, version |-> memory_buffers[r]]
      BY <2>1 DEF OnDevice
    <3>2. r \in ToSet(ActorRanks)
      BY <1>6, <2>1
    <3> QED
      BY <1>5, <1>6, <3>1, <3>2 DEF Contents
  <2>2. CASE ~(/\ mode # "plain" /\ FirstOfRow(g) /\ memory_buffers[r] >= 0
               /\ \E k \in 1..Len(order) : order[k].owner = r /\ order[k].i = Bucket(g).i)
    BY <1>6, <2>2 DEF OnDevice
  <2> QED
    BY <2>1, <2>2
<1>9. ASSUME mode # "plain", NEW k \in 1..Len(order), order[k].i = Bucket(g).i
      PROVE  OnDevice(order[k].owner, g) =
               [owner |-> order[k].owner, i |-> Bucket(g).i, version |-> actor_version]
  <2>1. memory_buffers[order[k].owner] = actor_version /\ actor_version >= 0
    BY <1>2, <1>6, <1>7, <1>9
  <2>2. CASE FirstOfRow(g)
    BY <1>9, <2>1, <2>2 DEF OnDevice
  <2>3. CASE ~FirstOfRow(g)
    <3>1. g > 0 /\ Bucket(g - 1).i = Bucket(g).i
      BY <1>3, <2>3 DEF FirstOfRow
    <3>2. RowOnDevice(g - 1)
      BY <1>3, <1>9, <3>1, RanksExist DEF TransferInv, DeviceHoldsRow
    <3> QED
      BY <1>9, <2>3, <3>1, <3>2 DEF OnDevice, RowOnDevice
  <2> QED
    BY <2>2, <2>3
<1>10. Sent(Bucket(g).owner, g) = Content(g)
  <2>1. CASE mode = "plain"
    BY <2>1 DEF Sent, Content
  <2>2. CASE mode # "plain"
    BY <1>4, <1>9, <2>2 DEF Sent, Content
  <2> QED
    BY <2>1, <2>2
<1>11. Content(g) \in Contents
  BY <1>2, <1>5 DEF Content, Contents
<1> QED
  BY <1>1, <1>3, <1>8, <1>9, <1>10, <1>11

(* Broadcast, with overlap: the bucket goes into the half that the thread  *)
(* is not loading.                                                         *)
LEMMA BroadcastKeepsOverlap ==
  ASSUME TransferInv, Broadcast, Overlap, PlanIsComplete'
  PROVE  TransferInv'
<1>1. /\ \A r \in Ranks : tp[r] = "broadcast" /\ tp'[r] = "ack"
      /\ h2d_buffer' = [r \in Ranks |-> OnDevice(r, gidx)]
      /\ half' = [r \in Ranks |-> [half[r] EXCEPT ![HalfOf(gidx)] =
                                     Sent(Bucket(gidx).owner, gidx)]]
      /\ tp' = [r \in Ranks |-> "ack"]
      /\ job' = job /\ gidx' = gidx /\ actor_version' = actor_version
      /\ memory_buffers' = memory_buffers /\ consumer' = consumer /\ model' = model
      /\ mode' = mode /\ order' = order /\ weights_info' = weights_info
  BY DEF Broadcast, settings
<1>2. /\ gidx < Len(order) /\ Len(order) \in Nat /\ gidx \in 0..Len(order)
      /\ Overlap' = Overlap /\ Params' = Params /\ mode # "plain"
  BY <1>1, SentIsRight, PlanHas DEF TransferInv, TransferTypes, Overlap, Params
<1>3. PICK g \in Nat : g = gidx
  BY <1>2
<1>4. /\ Content(g)' = Content(g) /\ HalfOf(g)' = HalfOf(g)
      /\ Content(g - 1)' = Content(g - 1) /\ HalfOf(g - 1)' = HalfOf(g - 1)
      /\ HalfOf(g) \in 0..1 /\ HalfOf(g - 1) # HalfOf(g)
  BY <1>1, <1>2 DEF Content, Bucket, HalfOf, Overlap
<1>5. \A r \in Ranks : Loading(r)' = Loading(r)
  BY <1>1 DEF Loading
<1>6. TransferTypes'
  <2>1. h2d_buffer' \in [Ranks -> Contents]
    BY <1>1, SentIsRight
  <2>2. half' \in [Ranks -> [0..1 -> Contents]]
    BY <1>1, <1>3, <1>4, SentIsRight DEF TransferInv, TransferTypes
  <2> QED
    BY <1>1, <1>2, <2>1, <2>2 DEF TransferInv, TransferTypes
<1>7. WalkPhases'
  BY <1>1, <1>2 DEF WalkPhases
<1>8. LoadsWhatWasSent'
  <2>1. \A r \in Ranks : /\ half'[r][HalfOf(g)] = Content(g)
                         /\ half'[r][HalfOf(g - 1)] = half[r][HalfOf(g - 1)]
    BY <1>1, <1>3, <1>4, SentIsRight DEF TransferInv, TransferTypes
  <2>2. \A r \in Ranks : /\ consumer[r] \in {"busy", "loading"} => r \in RolloutRanks
                         /\ Loading(r) => /\ g > 0 /\ job[r] = g - 1
                                          /\ half[r][HalfOf(g - 1)] = Content(g - 1)
    BY <1>3 DEF TransferInv, LoadsWhatWasSent
  <2>3. gidx' = g
    BY <1>1, <1>3
  <2> QED
    BY <1>1, <1>2, <1>4, <1>5, <2>1, <2>2, <2>3 DEF LoadsWhatWasSent
<1>9. HostHoldsWeights'
  BY <1>1, RanksExist DEF TransferInv, HostHoldsWeights
<1>10. DeviceHoldsRow'
  <2>1. RowOnDevice(g)'
    BY <1>1, <1>2, <1>3, SentIsRight, PlanHas DEF RowOnDevice, Bucket, TransferInv, TransferTypes
  <2>2. RowOnDevice(gidx)'
    BY <1>1, <1>3, <2>1 DEF RowOnDevice, Bucket
  <2> QED
    BY <1>1, <2>2 DEF DeviceHoldsRow
<1>11. LoadedAreNew'
  <2>1. \A r \in RolloutRanks : LoadsDone(r)' = LoadsDone(r)
    BY <1>1, <1>5, RanksExist DEF LoadsDone
  <2> QED
    BY <1>1, <1>2, <2>1, RanksExist DEF TransferInv, LoadedAreNew, Covered
<1> QED
  BY <1>6, <1>7, <1>8, <1>9, <1>10, <1>11 DEF TransferInv

(* Broadcast, without overlap: the rollout ranks go on to load the bucket. *)
LEMMA BroadcastKeepsInline ==
  ASSUME TransferInv, Broadcast, ~Overlap, PlanIsComplete'
  PROVE  TransferInv'
<1>1. /\ \A r \in Ranks : tp[r] = "broadcast"
      /\ h2d_buffer' = [r \in Ranks |-> OnDevice(r, gidx)]
      /\ half' = [r \in Ranks |-> [half[r] EXCEPT ![HalfOf(gidx)] =
                                     Sent(Bucket(gidx).owner, gidx)]]
      /\ tp' = [r \in Ranks |-> IF r \in RolloutRanks THEN "load" ELSE After(gidx)]
      /\ job' = [r \in Ranks |-> gidx] /\ gidx' = gidx + 1
      /\ actor_version' = actor_version
      /\ memory_buffers' = memory_buffers /\ consumer' = consumer /\ model' = model
      /\ mode' = mode /\ order' = order /\ weights_info' = weights_info
  BY DEF Broadcast, settings
<1>2. /\ gidx < Len(order) /\ Len(order) \in Nat /\ gidx \in 0..Len(order)
      /\ Overlap' = Overlap /\ Params' = Params
  BY <1>1, SentIsRight, PlanHas DEF TransferInv, TransferTypes, Overlap, Params
<1>3. PICK g \in Nat : g = gidx
  BY <1>2
<1>4. /\ Content(g)' = Content(g) /\ HalfOf(g)' = 0 /\ HalfOf(g) = 0
      /\ gidx' = g + 1 /\ gidx' - 1 = g /\ gidx' > 0 /\ gidx' <= Len(order)
  BY <1>1, <1>2, <1>3 DEF Content, Bucket, HalfOf, Overlap
<1>5. After(g) = IF gidx' < Len(order) THEN "broadcast" ELSE AfterAll
  BY <1>4 DEF After, More
<1>6. AfterAll \in {"idle", "final"} /\ AfterAll' = AfterAll
  BY <1>1 DEF AfterAll, Overlap, TransferInv, TransferTypes, Modes
<1>7. \A r \in Ranks : /\ tp'[r] = IF r \in RolloutRanks THEN "load" ELSE After(g)
                       /\ tp'[r] \in {"load", "broadcast", "idle", "final"}
                       /\ consumer'[r] = "off"
                       /\ job'[r] = g
                       /\ Loading(r)' <=> r \in RolloutRanks
                       /\ ~Loading(r)
  <2>1. \A r \in Ranks : consumer[r] = "off"
    BY DEF TransferInv, LoadsWhatWasSent
  <2>2. \A r \in Ranks : tp'[r] = IF r \in RolloutRanks THEN "load" ELSE After(g)
    BY <1>1, <1>3
  <2>3. After(g) \in {"broadcast", "idle", "final"}
    BY <1>5, <1>6
  <2> QED
    BY <1>1, <1>3, <2>1, <2>2, <2>3 DEF Loading
<1>8. TransferTypes'
  <2>1. h2d_buffer' \in [Ranks -> Contents]
    BY <1>1, SentIsRight
  <2>2. half' \in [Ranks -> [0..1 -> Contents]]
    BY <1>1, <1>3, <1>4, SentIsRight DEF TransferInv, TransferTypes
  <2>3. gidx' \in 0..Len(order)
    BY <1>2, <1>4
  <2>4. job' \in [Ranks -> Nat]
    BY <1>1, <1>3
  <2>5. tp' \in [Ranks -> {"idle", "register", "start", "broadcast", "load",
                           "ack", "barrier", "drain", "final"}]
    BY <1>1, <1>7
  <2> QED
    BY <1>1, <1>2, <2>1, <2>2, <2>3, <2>4, <2>5 DEF TransferInv, TransferTypes
<1>9. WalkPhases'
  <2>1. CASE gidx' < Len(order)
    BY <1>1, <1>5, <1>7, <2>1 DEF WalkPhases
  <2>2. CASE gidx' = Len(order)
    <3>1. \A r \in Ranks : tp'[r] \in {AfterAll, "load"}
      BY <1>5, <1>7, <2>2, <1>2
    <3> QED
      BY <1>1, <1>6, <2>2, <3>1 DEF WalkPhases
  <2> QED
    BY <1>2, <1>4, <2>1, <2>2
<1>10. LoadsWhatWasSent'
  <2>1. \A r \in Ranks : half'[r][HalfOf(g)'] = Content(g)'
    BY <1>1, <1>3, <1>4, SentIsRight DEF TransferInv, TransferTypes
  <2>2. HalfOf(gidx - 1)' = HalfOf(g)' /\ Content(gidx - 1)' = Content(g)'
    BY <1>4 DEF HalfOf, Content, Bucket
  <2>3. \A r \in Ranks : /\ gidx' > 0 /\ job'[r] = gidx' - 1
                         /\ half'[r][HalfOf(gidx - 1)'] = Content(gidx - 1)'
    BY <1>4, <1>7, <2>1, <2>2
  <2>4. \A r \in Ranks : /\ tp'[r] = "load" => r \in RolloutRanks /\ ~Overlap'
                         /\ consumer'[r] \in {"busy", "loading"} => r \in RolloutRanks
                         /\ tp'[r] = "barrier" => consumer'[r] = "idle"
                         /\ consumer'[r] = "off"
                         /\ tp'[r] \notin {"ack", "barrier"}
    <3>1. \A r \in Ranks : /\ tp'[r] = "load" => r \in RolloutRanks
                           /\ tp'[r] \notin {"ack", "barrier"}
      BY <1>5, <1>6, <1>7
    <3> QED
      BY <1>2, <1>7, <3>1
  <2> QED
    BY <2>3, <2>4 DEF LoadsWhatWasSent
<1>11. HostHoldsWeights'
  BY <1>1, RanksExist DEF TransferInv, HostHoldsWeights
<1>12. DeviceHoldsRow'
  <2>1. mode # "plain" => RowOnDevice(g)'
    BY <1>1, <1>2, <1>3, SentIsRight, PlanHas DEF RowOnDevice, Bucket, TransferInv, TransferTypes
  <2>2. mode # "plain" => RowOnDevice(gidx - 1)'
    BY <1>4, <2>1 DEF RowOnDevice, Bucket
  <2> QED
    BY <1>1, <1>7, <2>2 DEF DeviceHoldsRow
<1>13. LoadedAreNew'
  <2>1. \A r \in RolloutRanks : /\ LoadsDone(r)' = g /\ LoadsDone(r) = g
                                /\ tp'[r] = "load"
    BY <1>3, <1>4, <1>7, RanksExist DEF LoadsDone
  <2> QED
    BY <1>1, <1>2, <2>1, RanksExist DEF TransferInv, LoadedAreNew, Covered
<1> QED
  BY <1>8, <1>9, <1>10, <1>11, <1>12, <1>13 DEF TransferInv

(* Barrier: every rank has the bucket, and its thread is free to load it.  *)
LEMMA BarrierKeeps ==
  ASSUME TransferInv, Barrier, PlanIsComplete'
  PROVE  TransferInv'
<1>1. /\ \A r \in Ranks : tp[r] = "barrier"
      /\ tp' = [r \in Ranks |-> After(gidx)]
      /\ consumer' = [r \in Ranks |-> IF r \in RolloutRanks THEN "busy" ELSE "acked"]
      /\ job' = [r \in Ranks |-> gidx] /\ gidx' = gidx + 1
      /\ actor_version' = actor_version /\ model' = model
      /\ memory_buffers' = memory_buffers /\ h2d_buffer' = h2d_buffer /\ half' = half
      /\ mode' = mode /\ order' = order /\ weights_info' = weights_info
  BY DEF Barrier, settings, buffers
<1>2. Overlap /\ gidx < Len(order) /\ \A r \in Ranks : consumer[r] = "idle"
  <2>1. Overlap /\ gidx < Len(order)
    BY <1>1, RanksExist DEF TransferInv, WalkPhases, AfterAll
  <2> QED
    BY <1>1, <2>1 DEF TransferInv, LoadsWhatWasSent
<1>3. /\ Len(order) \in Nat /\ gidx \in 0..Len(order)
      /\ Overlap' = Overlap /\ Params' = Params
  BY <1>1, PlanHas DEF TransferInv, TransferTypes, Overlap, Params
<1>4. PICK g \in Nat : g = gidx
  BY <1>3
<1>5. /\ Content(g)' = Content(g) /\ HalfOf(g)' = HalfOf(g)
      /\ gidx' = g + 1 /\ gidx' - 1 = g /\ gidx' > 0 /\ gidx' <= Len(order)
  BY <1>1, <1>2, <1>3, <1>4 DEF Content, Bucket, HalfOf, Overlap
<1>6. AfterAll = "drain" /\ AfterAll' = AfterAll
  BY <1>1, <1>2 DEF AfterAll, Overlap
<1>7. After(g) = IF gidx' < Len(order) THEN "broadcast" ELSE "drain"
  BY <1>5, <1>6 DEF After, More
<1>8. \A r \in Ranks : /\ tp'[r] = After(g) /\ tp'[r] \in {"broadcast", "drain"}
                       /\ consumer'[r] = IF r \in RolloutRanks THEN "busy" ELSE "acked"
                       /\ job'[r] = g
                       /\ Loading(r)' <=> r \in RolloutRanks
                       /\ ~Loading(r)
  BY <1>1, <1>2, <1>4, <1>7 DEF Loading
<1>9. TransferTypes'
  <2>1. gidx' \in 0..Len(order)
    BY <1>3, <1>5
  <2>2. job' \in [Ranks -> Nat]
    BY <1>1, <1>4
  <2>3. tp' \in [Ranks -> {"idle", "register", "start", "broadcast", "load",
                           "ack", "barrier", "drain", "final"}]
    BY <1>1, <1>8
  <2>4. consumer' \in [Ranks -> {"off", "idle", "busy", "loading", "acked"}]
    BY <1>1
  <2> QED
    BY <1>1, <1>3, <2>1, <2>2, <2>3, <2>4 DEF TransferInv, TransferTypes
<1>10. WalkPhases'
  <2>1. CASE gidx' < Len(order)
    BY <1>1, <1>7, <1>8, <2>1 DEF WalkPhases
  <2>2. CASE gidx' = Len(order)
    <3>1. \A r \in Ranks : tp'[r] = AfterAll'
      BY <1>3, <1>6, <1>7, <1>8, <2>2
    <3> QED
      BY <1>1, <2>2, <3>1 DEF WalkPhases
  <2> QED
    BY <1>3, <1>5, <2>1, <2>2
<1>11. LoadsWhatWasSent'
  <2>1. \A r \in Ranks : half'[r][HalfOf(g)'] = Content(g)'
    BY <1>1, <1>4, <1>5 DEF TransferInv, LoadsWhatWasSent
  <2> QED
    BY <1>2, <1>3, <1>5, <1>8, <2>1 DEF LoadsWhatWasSent
<1>12. HostHoldsWeights'
  BY <1>1, RanksExist DEF TransferInv, HostHoldsWeights
<1>13. DeviceHoldsRow'
  <2>1. mode # "plain" => RowOnDevice(g)
    BY <1>1, <1>4, RanksExist DEF TransferInv, DeviceHoldsRow
  <2>2. mode # "plain" => RowOnDevice(gidx - 1)'
    BY <1>1, <1>5, <2>1 DEF RowOnDevice, Bucket
  <2> QED
    BY <1>1, <1>8, <2>2 DEF DeviceHoldsRow
<1>14. LoadedAreNew'
  <2>1. \A r \in RolloutRanks : LoadsDone(r)' = g /\ LoadsDone(r) = g
    BY <1>4, <1>5, <1>8, RanksExist DEF LoadsDone
  <2> QED
    BY <1>1, <1>3, <1>8, <2>1, RanksExist DEF TransferInv, LoadedAreNew, Covered
<1> QED
  BY <1>9, <1>10, <1>11, <1>12, <1>13, <1>14 DEF TransferInv

(* Every step of the transfer keeps the invariant.                         *)
LEMMA TransferNextInv ==
  ASSUME TransferInv, [TransferNext]_transferVars
  PROVE  TransferInv'
<1>1. PlanIsComplete'
  BY PlanStays DEF TransferInv
<1>2. CASE StartTransfer
  BY <1>1, <1>2, StartTransferKeeps
<1>3. CASE StartUpdate
  BY <1>1, <1>3, StartUpdateKeeps
<1>4. CASE Broadcast
  BY <1>1, <1>4, BroadcastKeepsOverlap, BroadcastKeepsInline
<1>5. CASE Barrier
  BY <1>1, <1>5, BarrierKeeps
<1>6. CASE FinishUpdate
  BY <1>1, <1>6, FinishUpdateKeeps
<1>7. ASSUME NEW r \in Ranks,
             \/ RegisterCheckpoint(r) \/ LoadInline(r) \/ ReceiveAck(r)
             \/ ConsumerLoads(r) \/ ConsumerLoaded(r) \/ DrainConsumer(r)
      PROVE  TransferInv'
  BY <1>1, <1>7, RegisterCheckpointKeeps, LoadInlineKeeps, ReceiveAckKeeps,
     ConsumerLoadsKeeps, ConsumerLoadedKeeps, DrainConsumerKeeps
<1>8. CASE UNCHANGED transferVars
  <2>1. /\ TransferTypes' = TransferTypes /\ WalkPhases' = WalkPhases
        /\ HostHoldsWeights' = HostHoldsWeights
    BY <1>8 DEF transferVars, settings, buffers, TransferTypes, WalkPhases, HostHoldsWeights,
       Params, AfterAll, Overlap
  <2>2. LoadsWhatWasSent' = LoadsWhatWasSent /\ DeviceHoldsRow' = DeviceHoldsRow
    BY <1>8 DEF transferVars, settings, buffers, LoadsWhatWasSent, DeviceHoldsRow, Loading,
       HalfOf, Content, Bucket, RowOnDevice, Overlap
  <2>3. LoadedAreNew' = LoadedAreNew
    BY <1>8 DEF transferVars, settings, LoadedAreNew, LoadsDone, Loading, Params, Covered
  <2> QED
    BY <1>1, <2>1, <2>2, <2>3 DEF TransferInv
<1> QED
  BY <1>2, <1>3, <1>4, <1>5, <1>6, <1>7, <1>8 DEF TransferNext, TransferStep

(* To the ranks the synchronization is a transfer now and then.            *)
LEMMA UpdateTransfers == [Next]_vars => [TransferNext]_transferVars
<1> SUFFICES ASSUME [Next]_vars  PROVE [TransferNext]_transferVars
  OBVIOUS
<1>1. CASE Processor \/ Synchronizer
  BY <1>1 DEF Processor, Synchronizer, CreateTask, SubmitSample, SampleReturns, PauseEnds, SyncWeights,
     UpdateParamVersion, ResumeBegins, ResumeEnds, ServeCancel, ServeResume, TransferNext
<1>2. CASE PauseBegins \/ MonitorDecides \/ MonitorUnpauses
  BY <1>2 DEF PauseBegins, MonitorDecides, MonitorUnpauses
<1>3. CASE Transfer
  BY <1>3 DEF Transfer, TransferNext
<1>4. CASE (\E g \in Gens : Generation(g)) \/ Done \/ UNCHANGED vars
  BY <1>4 DEF Generation, Done, vars
<1> QED
  BY <1>1, <1>2, <1>3, <1>4 DEF Next

(* The invariant holds throughout.                                         *)
LEMMA TransferInvHolds == Spec => []TransferInv
<1>1. Init => TransferInv
  BY TransferInitInv, PlanHolds DEF Init
<1>2. TransferInv /\ [Next]_vars => TransferInv'
  BY TransferNextInv, UpdateTransfers
<1> QED
  BY <1>1, <1>2, PTL DEF Spec

(* The types that the runs check are parts of the invariant.               *)
LEMMA TransferTypesFollow ==
  ASSUME TransferInv
  PROVE  TransferTypeOK
<1>1. \A r \in Ranks : tp[r] = "broadcast" => More(gidx)
  BY DEF TransferInv, WalkPhases, AfterAll, More
<1>2. gidx \in Nat
  BY PlanHas DEF TransferInv, TransferTypes
<1> QED
  BY <1>1, <1>2 DEF TransferInv, TransferTypes, TransferTypeOK

(* Whatever the number of ranks, the parameters, the bucket size and the   *)
(* variant of the transfer, no parameter of a rollout rank ever becomes    *)
(* garbage or is more than a version behind, and all are of the newest     *)
(* version when a rank is through: no half of a buffer is overwritten      *)
(* before its thread has loaded it, and no bucket is missed or sent from a *)
(* device that holds another row (register_checkpoint, update_checkpoint). *)
THEOREM WeightsArrive == Spec => []EveryParameterArrives
BY TransferInvHolds, ArrivalFollows, PTL

(* The transfer's state is well-formed, and no rank waits for a broadcast  *)
(* that is not in the plan.                                                *)
THEOREM TransferIsTyped == Spec => []TransferTypeOK
BY TransferInvHolds, TransferTypesFollow, PTL

-----------------------------------------------------------------------------
(* The generations.                                                        *)

Token == [pos : 1..Len(Plan), versions : SUBSET (0..MaxVersion)]

(* The tokens that may be with g: of one version, and of one recorded for  *)
(* it unless a task was made during a synchronization.                     *)
RecordedTokens(g) ==
  {t \in Token : t.versions # {} =>
     /\ \E v \in 0..MaxVersion : t.versions = {v}
     /\ intruders = 0 =>
          \E v \in param_version_start[g]..param_version_end[g] : t.versions = {v}}

GenerationTypes ==
  /\ kind \in Kinds /\ response_length \in ResponseLengths
  /\ handles \in Shuffles /\ on_worker \in WorkerSet
  /\ gpc \in [Gens -> {"waiting", "loop", "called", "running", "answered",
                       "tools", "scoring", "completed"}]
  /\ state \in [Gens -> {"PENDING", "GENERATING", "PROCESSING_TOOLS", "TERMINATED"}]
  /\ ids \in [Gens -> Seq(Token)]
  /\ mask \in [Gens -> Seq({0, 1})]
  /\ logprobs \in [Gens -> Seq(1..Len(Plan))]
  /\ param_version_start \in [Gens -> -1..MaxVersion]
  /\ param_version_end \in [Gens -> -1..MaxVersion]
  /\ request \in [Gens -> [server : Servers \cup {NoServer}, tokens : Seq(Token),
                           finished : BOOLEAN, stop : BOOLEAN]]
  /\ reply \in [Gens -> [tokens : Seq(Token), is_cancel : BOOLEAN]]
  /\ split \in [Gens -> BOOLEAN]
  /\ cancellation_event \in [WorkerSet -> BOOLEAN]
  /\ server_paused \in [Servers -> BOOLEAN]
  /\ requests_sent \in [WorkerSet -> [Servers -> Nat]]
  /\ request_id_to_server \in [WorkerSet -> [Gens -> Servers \cup {NoServer}]]

UpdateTypes ==
  /\ partial_rollout \in BOOLEAN
  /\ rp \in {"running", "pausing", "paused", "transfer", "updated", "resuming"}
  /\ calls \subseteq Servers \cup WorkerSet
  /\ current_param_version \in 0..actor_version
  /\ sample \in {"queued", "created", "running", "finished"}
  /\ worker_index \in 1..Len(Workers)

PauseTypes ==
  /\ paused \in BOOLEAN /\ unpausing \in BOOLEAN
  /\ Options \in Setups /\ intruders \in 0..MaxIntruders[Options]

(* Nothing is generated while the weights are being changed, unless a task *)
(* was made then.                                                          *)
QuietTransfer ==
  /\ intruders = 0 /\ rp \notin {"running", "pausing"} => sample \notin {"created", "running"}
  /\ sample # "running" => \A g \in Gens : gpc[g] \in {"waiting", "completed"}
  /\ rp # "transfer" => /\ \A r \in RolloutRanks : tp[r] = "idle"
                        /\ current_param_version = actor_version

(* Requests and replies are there when the agent loop waits for them.      *)
RequestsMatch(g) ==
  /\ gpc[g] \notin {"called", "running", "answered"} => request[g] = NoRequest
  /\ gpc[g] # "answered" => reply[g] = NoReply
  /\ gpc[g] = "called" => request[g].tokens = <<>> /\ ~request[g].finished
  /\ gpc[g] \in {"called", "running"} => request[g].server \in Servers

(* The recorded versions, and the tokens of each.                          *)
VersionsRecorded(g) ==
  /\ \/ /\ param_version_start[g] = -1 /\ param_version_end[g] = -1
        /\ gpc[g] = "waiting" /\ ids[g] = <<>>
     \/ /\ param_version_start[g] \in 0..param_version_end[g]
        /\ param_version_end[g] \in 0..current_param_version
  /\ gpc[g] \notin {"waiting", "completed"} =>
       /\ param_version_start[g] # -1
       /\ intruders = 0 => param_version_end[g] = current_param_version
  /\ ids[g] \in Seq(RecordedTokens(g))
  /\ request[g].tokens \in Seq(RecordedTokens(g))
  /\ reply[g].tokens \in Seq(RecordedTokens(g))

GenerationInv ==
  /\ GenerationTypes
  /\ UpdateTypes
  /\ QuietTransfer
  /\ \A g \in Gens : RequestsMatch(g) /\ VersionsRecorded(g)


-----------------------------------------------------------------------------
(* Interruptions.                                                          *)

(* A beginning of what the model and the tools say.                        *)
Beginning(i, m, l) ==
  /\ Len(m) = Len(i) /\ Len(l) = Len(i)
  /\ \A k \in 1..Len(i) : /\ i[k].pos = k /\ l[k] = k
                          /\ m[k] = IF Plan[k] = "tool" THEN 0 ELSE 1

(* What the model says after n tokens, up to where a request ends.         *)
Continues(n, new) ==
  /\ \A k \in 1..Len(new) : new[k].pos = n + k /\ Plan[n + k] # "tool"
  /\ \A k \in 1..Len(new) - 1 : Plan[n + k] \notin {"close", "end"}

Ends(n, new) == new # <<>> /\ Plan[n + Len(new)] \in {"close", "end"}

(* After n tokens the model would go on, not a tool.                       *)
ModelIsNext(n) == n < Len(Plan) => Plan[n + 1] # "tool"

(* Nothing is missing at the end of n tokens.                              *)
Whole(n) == n = Len(Plan) \/ n >= response_length \/ n + Len(ToolResponse(n)) >= response_length

(* What is asked of a server and answered goes on from the tokens g has.   *)
AnswersFit(g) ==
  /\ Continues(Len(ids[g]), request[g].tokens)
  /\ request[g].finished <=> Ends(Len(ids[g]), request[g].tokens)
  /\ Continues(Len(ids[g]), reply[g].tokens)
  /\ gpc[g] = "answered" => (~reply[g].is_cancel <=> Ends(Len(ids[g]), reply[g].tokens))

(* Where each agent loop stops.                                            *)
StopsRight(g) ==
  /\ gpc[g] \in {"scoring", "completed"} => Len(ids[g]) <= response_length
  /\ kind = "single" =>
       /\ gpc[g] # "tools"
       /\ gpc[g] \in {"scoring", "completed"} => Whole(Len(ids[g]))
  /\ kind = "tool" =>
       /\ gpc[g] \in {"called", "running", "answered"} => state[g] = "GENERATING"
       /\ gpc[g] = "tools" => state[g] = "PROCESSING_TOOLS"
       /\ gpc[g] \in {"scoring", "completed"} => state[g] = "TERMINATED"
       /\ state[g] \in {"PENDING", "GENERATING"} => ModelIsNext(Len(ids[g]))
       /\ state[g] = "PROCESSING_TOOLS" => ids[g] # <<>>
       /\ state[g] = "TERMINATED" /\ ~split[g] => Whole(Len(ids[g]))

ResumesRight(g) ==
  Beginning(ids[g], mask[g], logprobs[g]) /\ AnswersFit(g) /\ StopsRight(g)

(* Helpers: the least of a set of numbers, and the beginning of a sequence.*)
LEMMA LeastExists ==
  ASSUME NEW T \in SUBSET Nat, T # {}
  PROVE  \E m \in T : \A n \in T : m <= n
<1> DEFINE Less == {ss \in Nat \X Nat : ss[1] < ss[2]}
<1>1. IsWellFoundedOn(Less, Nat)
  BY NatLessThanWellFounded, Zenon DEF OpToRel
<1>2. \E m \in T : \A n \in T : ~(<<n, m>> \in Less)
  <2> HIDE DEF Less
  <2> QED
    BY <1>1, WFMin
<1> QED
  <2>1. \A m, n \in T : n < m => <<n, m>> \in Less
    OBVIOUS
  <2>2. \A m, n \in T : n < m \/ m <= n
    OBVIOUS
  <2> HIDE DEF Less
  <2> QED
    BY <1>2, <2>1, <2>2

(* A prefix of a sequence: its length, and its elements, which are those   *)
(* of the sequence.                                                        *)
LEMMA PrefixProperties ==
  ASSUME NEW S, NEW s \in Seq(S), NEW n \in Nat
  PROVE  /\ Prefix(s, n) \in Seq(S)
         /\ Len(Prefix(s, n)) = IF Len(s) < n THEN Len(s) ELSE n
         /\ \A k \in 1..Len(Prefix(s, n)) : k \in 1..Len(s) /\ Prefix(s, n)[k] = s[k]
<1>1. Len(s) \in Nat /\ \A k \in 1..Len(s) : s[k] \in S
  BY LenProperties, ElementOfSeq
<1>2. PICK one \in Int : one = 1
  OBVIOUS
<1>3. PICK m \in Nat : m = IF Len(s) < n THEN Len(s) ELSE n
  BY <1>1
<1>4. m <= Len(s) /\ \A k \in one..m : s[k] \in S
  BY <1>1, <1>2, <1>3
<1>5. /\ SubSeq(s, one, m) \in Seq(S)
      /\ Len(SubSeq(s, one, m)) = IF one <= m THEN m - one + 1 ELSE 0
      /\ \A k \in 1..m - one + 1 : SubSeq(s, one, m)[k] = s[one + k - 1]
  BY <1>4, SubSeqProperties
<1>6. Prefix(s, n) = SubSeq(s, one, m)
  BY <1>2, <1>3 DEF Prefix
<1> QED
  BY <1>1, <1>2, <1>3, <1>4, <1>5, <1>6

(* The response of a tool is what the plan has next that the model does    *)
(* not say: all of it, of no version.                                      *)
LEMMA ToolResponseIs ==
  ASSUME NEW k \in Nat, kind \in Kinds
  PROVE  /\ ToolResponse(k) \in Seq(Token)
         /\ \A j \in 1..Len(ToolResponse(k)) :
              /\ ToolResponse(k)[j] = [pos |-> k + j, versions |-> {}]
              /\ k + j \in 1..Len(Plan) /\ Plan[k + j] = "tool"
         /\ k + Len(ToolResponse(k)) < Len(Plan) =>
              Plan[k + Len(ToolResponse(k)) + 1] # "tool"
<1> DEFINE J == {j \in k + 1..Len(Plan) : \A i \in k + 1..j : Plan[i] = "tool"}
           D == (k + 1..Len(Plan)) \ J
<1>1. Len(Plan) \in Nat
  BY GenerationAssumption, LenProperties DEF Plan
<1>2. PICK n \in Nat : /\ n = Cardinality(J)
                       /\ \A j \in 1..n : k + j \in 1..Len(Plan) /\ Plan[k + j] = "tool"
                       /\ k + n < Len(Plan) => Plan[k + n + 1] # "tool"
  <2>1. CASE D = {}
    <3>1. J = k + 1..Len(Plan)
      BY <2>1
    <3>2. k + 1 \in Int /\ Len(Plan) \in Int
      BY <1>1
    <3>3. Cardinality(k + 1..Len(Plan)) = IF k + 1 > Len(Plan) THEN 0 ELSE Len(Plan) - (k + 1) + 1
      BY <3>2, FS_Interval
    <3>4. PICK n \in Nat : n = IF k + 1 > Len(Plan) THEN 0 ELSE Len(Plan) - k
      BY <1>1
    <3>5. Cardinality(J) = n
      <4>1. (IF k + 1 > Len(Plan) THEN 0 ELSE Len(Plan) - (k + 1) + 1) = n
        BY <1>1, <3>4
      <4> HIDE DEF J
      <4> QED
        BY <3>1, <3>3, <4>1
    <3>6. \A j \in 1..n : k + j \in k + 1..Len(Plan)
      BY <1>1, <3>4
    <3>7. \A i \in k + 1..Len(Plan) : Plan[i] = "tool"
      <4>1. \A i \in k + 1..Len(Plan) : i \in k + 1..i
        BY <1>1
      <4> QED
        BY <3>1, <4>1
    <3>8. ~(k + n < Len(Plan))
      BY <1>1, <3>4
    <3>9. \A j \in 1..n : k + j \in 1..Len(Plan)
      BY <1>1, <3>6
    <3> HIDE DEF J
    <3> QED
      BY <3>5, <3>6, <3>7, <3>8, <3>9
  <2>2. CASE D # {}
    <3>1. D \in SUBSET Nat
      BY <1>1
    <3>2. PICK m \in D : \A d \in D : m <= d
      <4> HIDE DEF D
      <4> QED
        BY <2>2, <3>1, LeastExists
    <3>3. m \in Nat /\ m \in k + 1..Len(Plan) /\ m \notin J
      BY <1>1, <3>2
    <3>4. \A i \in k + 1..m - 1 : i \in J
      <4>1. ASSUME NEW i \in k + 1..m - 1  PROVE i \in J
        <5>1. i \in k + 1..Len(Plan) /\ ~(m <= i)
          BY <1>1, <3>3
        <5> QED
          BY <3>2, <5>1
      <4> QED
        BY <4>1
    <3>5. J = k + 1..m - 1
      <4>1. ASSUME NEW j \in J, j >= m  PROVE FALSE
        <5>1. j \in k + 1..Len(Plan) /\ \A i \in k + 1..j : Plan[i] = "tool"
          OBVIOUS
        <5>2. \A i \in k + 1..m : i \in k + 1..j
          BY <1>1, <3>3, <4>1, <5>1
        <5>3. m \in J
          BY <3>3, <5>1, <5>2
        <5> QED
          BY <3>3, <5>3
      <4>2. \A j \in J : j \in k + 1..m - 1
        BY <1>1, <3>3, <4>1
      <4> QED
        BY <3>4, <4>2
    <3>6. PICK n \in Nat : n = m - 1 - k
      BY <1>1, <3>3
    <3>7. Cardinality(J) = n
      <4>1. k + 1 \in Int /\ m - 1 \in Int
        BY <3>3
      <4>2. Cardinality(k + 1..m - 1) = IF k + 1 > m - 1 THEN 0 ELSE (m - 1) - (k + 1) + 1
        BY <4>1, FS_Interval
      <4>3. (IF k + 1 > m - 1 THEN 0 ELSE (m - 1) - (k + 1) + 1) = n
        BY <3>3, <3>6
      <4> HIDE DEF J
      <4> QED
        BY <3>5, <4>2, <4>3
    <3>8. \A i \in k + 1..m - 1 : Plan[i] = "tool" /\ i \in 1..Len(Plan)
      <4>1. \A i \in k + 1..m - 1 : i \in k + 1..i /\ i \in 1..Len(Plan)
        BY <1>1, <3>3
      <4> QED
        BY <3>4, <4>1
    <3>9. Plan[m] # "tool"
      <4>1. PICK i \in k + 1..m : Plan[i] # "tool"
        BY <3>3
      <4>2. i = m \/ i \in k + 1..m - 1
        BY <3>3
      <4> QED
        BY <3>8, <4>1, <4>2
    <3>10. k + n + 1 = m /\ \A j \in 1..n : k + j \in k + 1..m - 1
      BY <3>3, <3>6
    <3> HIDE DEF J
    <3> QED
      BY <3>7, <3>8, <3>9, <3>10
  <2> QED
    BY <2>1, <2>2
<1>3. ToolResponse(k) = [j \in 1..n |-> [pos |-> k + j, versions |-> {}]]
  BY <1>2 DEF ToolResponse
<1>4. \A j \in 1..n : [pos |-> k + j, versions |-> {}] \in Token
  BY <1>2 DEF Token
<1>5. ToolResponse(k) \in Seq(Token) /\ Len(ToolResponse(k)) = n
  <2> DEFINE e(j) == [pos |-> k + j, versions |-> {}]
  <2>1. \A j \in 1..n : e(j) \in Token
    BY <1>4
  <2> HIDE DEF e
  <2>2. [j \in 1..n |-> e(j)] \in Seq(Token) /\ Len([j \in 1..n |-> e(j)]) = n
    BY <2>1, IsASeq
  <2> QED
    BY <1>3, <2>2 DEF e
<1> QED
  BY <1>2, <1>3, <1>5

(* The least used server exists, and is a server.                          *)
LEMMA ChosenIsServer ==
  ASSUME GenerationTypes, NEW w \in WorkerSet, NEW g \in Gens
  PROVE  Chosen(w, g) \in Servers
<1> DEFINE h == handles[w]
           First(k) == \A j \in DOMAIN h :
                         \/ requests_sent[w][h[k]] < requests_sent[w][h[j]]
                         \/ requests_sent[w][h[k]] = requests_sent[w][h[j]] /\ k <= j
<1>1. h \in Seq(Servers) /\ ToSet(h) = Servers /\ Servers # {}
  BY GenerationAssumption DEF GenerationTypes
<1>2. /\ DOMAIN h = 1..Len(h) /\ Len(h) \in Nat /\ DOMAIN h # {}
      /\ \A k \in DOMAIN h : h[k] \in Servers
  <2>1. DOMAIN h = 1..Len(h) /\ Len(h) \in Nat /\ \A k \in DOMAIN h : h[k] \in Servers
    BY <1>1, LenProperties, ElementOfSeq
  <2>2. DOMAIN h # {}
    BY <1>1 DEF ToSet
  <2> QED
    BY <2>1, <2>2
<1>3. \A s \in Servers : requests_sent[w][s] \in Nat
  BY DEF GenerationTypes
<1>4. \E k \in DOMAIN h : First(k)
  <2> DEFINE Counts == {requests_sent[w][h[k]] : k \in DOMAIN h}
  <2>1. Counts \in SUBSET Nat /\ Counts # {}
    BY <1>2, <1>3
  <2>2. PICK m \in Counts : \A n \in Counts : m <= n
    <3> HIDE DEF Counts
    <3> QED
      BY <2>1, LeastExists
  <2> DEFINE Least1 == {k \in DOMAIN h : requests_sent[w][h[k]] = m}
  <2>3. Least1 \in SUBSET Nat /\ Least1 # {}
    BY <1>2, <2>2
  <2>4. PICK k \in Least1 : \A j \in Least1 : k <= j
    <3> HIDE DEF Least1
    <3> QED
      BY <2>3, LeastExists
  <2>5. ASSUME NEW j \in DOMAIN h
        PROVE  \/ requests_sent[w][h[k]] < requests_sent[w][h[j]]
               \/ requests_sent[w][h[k]] = requests_sent[w][h[j]] /\ k <= j
    <3>1. requests_sent[w][h[k]] = m /\ m \in Nat
      BY <2>1, <2>4
    <3>2. requests_sent[w][h[j]] \in Nat /\ m <= requests_sent[w][h[j]]
      BY <1>2, <1>3, <2>2
    <3>3. requests_sent[w][h[j]] = m => k <= j
      BY <2>4
    <3> QED
      BY <3>1, <3>2, <3>3
  <2> QED
    BY <2>4, <2>5
<1>5. h[CHOOSE k \in DOMAIN h : First(k)] \in Servers
  <2> HIDE DEF First
  <2> QED
    BY <1>2, <1>4
<1>6. request_id_to_server[w][g] # NoServer => request_id_to_server[w][g] \in Servers
  BY DEF GenerationTypes
<1> QED
  BY <1>5, <1>6 DEF Chosen

-----------------------------------------------------------------------------
(* The steps of a generation.                                              *)

Untouched(q) ==
  /\ gpc'[q] = gpc[q] /\ state'[q] = state[q]
  /\ ids'[q] = ids[q] /\ mask'[q] = mask[q] /\ logprobs'[q] = logprobs[q]
  /\ param_version_start'[q] = param_version_start[q]
  /\ param_version_end'[q] = param_version_end[q]
  /\ request'[q] = request[q] /\ reply'[q] = reply[q] /\ split'[q] = split[q]

(* What a step of g leaves.                                                *)
Moved(g) ==
  /\ GenerationTypes'
  /\ RequestsMatch(g)' /\ VersionsRecorded(g)'
  /\ \A q \in Gens \ {g} : Untouched(q)

(* What a generation does not touch, of what is said about its tokens.     *)
UpdateStays ==
  /\ current_param_version' = current_param_version
  /\ intruders' = intruders

(* The recorded tokens depend on the recorded versions, the plan, and on   *)
(* whether a task was made during a synchronization.                       *)
LEMMA TokensStay ==
  ASSUME kind' = kind, intruders' = intruders, NEW g,
         param_version_start'[g] = param_version_start[g],
         param_version_end'[g] = param_version_end[g]
  PROVE  Token' = Token /\ RecordedTokens(g)' = RecordedTokens(g)
BY DEF Token, Plan, RecordedTokens

(* A generation whose tokens and versions stay keeps what is said of them. *)
LEMMA UntouchedKeeps ==
  ASSUME NEW q \in Gens, Untouched(q), kind' = kind,
         current_param_version' = current_param_version,
         intruders' = 0 => intruders = 0,
         RequestsMatch(q), VersionsRecorded(q)
  PROVE  RequestsMatch(q)' /\ VersionsRecorded(q)'
<1>1. RecordedTokens(q) \subseteq RecordedTokens(q)'
  BY DEF Untouched, RecordedTokens, Token, Plan
<1>2. Seq(RecordedTokens(q)) \subseteq Seq(RecordedTokens(q)')
  BY <1>1, SeqMonotonic
<1>3. RequestsMatch(q)'
  BY DEF Untouched, RequestsMatch
<1>4. VersionsRecorded(q)'
  BY <1>2 DEF Untouched, VersionsRecorded
<1> QED
  BY <1>3, <1>4

(* Recorded tokens are tokens.                                             *)
LEMMA RecordedAreTokens ==
  ASSUME NEW g
  PROVE  Seq(RecordedTokens(g)) \subseteq Seq(Token)
<1>1. RecordedTokens(g) \subseteq Token
  BY DEF RecordedTokens
<1> QED
  BY <1>1, SeqMonotonic

(* A step of g that neither touches its tokens nor its request.            *)
LEMMA QuietStepMoves ==
  ASSUME GenerationInv, UpdateStays, NEW g \in Gens,
         Interrupted(g) \/ Pending(g) \/ CallTool(g) \/ Scored(g)
  PROVE  Moved(g)
<1>1. /\ kind' = kind /\ response_length' = response_length /\ handles' = handles
      /\ on_worker' = on_worker /\ ids' = ids /\ mask' = mask /\ logprobs' = logprobs
      /\ param_version_start' = param_version_start
      /\ param_version_end' = param_version_end
      /\ request' = request /\ reply' = reply /\ split' = split
      /\ cancellation_event' = cancellation_event /\ server_paused' = server_paused
      /\ requests_sent' = requests_sent /\ request_id_to_server' = request_id_to_server
  BY DEF Interrupted, Pending, CallTool, Scored, outputs, routing
<1>2. /\ gpc[g] \in {"loop", "scoring"} /\ gpc'[g] \in {"waiting", "loop", "tools", "completed"}
      /\ gpc' \in [Gens -> {"waiting", "loop", "called", "running", "answered",
                            "tools", "scoring", "completed"}]
      /\ state' \in [Gens -> {"PENDING", "GENERATING", "PROCESSING_TOOLS", "TERMINATED"}]
      /\ \A q \in Gens \ {g} : gpc'[q] = gpc[q] /\ state'[q] = state[q]
  BY DEF Interrupted, Pending, CallTool, Scored, outputs, MayContinue,
     GenerationInv, GenerationTypes
<1>3. Token' = Token /\ RecordedTokens(g)' = RecordedTokens(g) /\ Plan' = Plan
  BY <1>1, TokensStay DEF Plan, UpdateStays
<1>4. GenerationTypes'
  BY <1>1, <1>2, <1>3 DEF GenerationInv, GenerationTypes
<1>5. RequestsMatch(g)'
  BY <1>1, <1>2 DEF GenerationInv, RequestsMatch
<1>6. VersionsRecorded(g)'
  BY <1>1, <1>2, <1>3 DEF GenerationInv, VersionsRecorded, UpdateStays
<1>7. \A q \in Gens \ {g} : Untouched(q)
  BY <1>1, <1>2 DEF Untouched
<1> QED
  BY <1>4, <1>5, <1>6, <1>7 DEF Moved

(* The positions of tokens of the plan.                                    *)
LEMMA PositionsOf ==
  ASSUME NEW s \in Seq(Token)
  PROVE  /\ Positions(s) \in Seq(1..Len(Plan)) /\ Len(Positions(s)) = Len(s)
         /\ \A k \in 1..Len(s) : Positions(s)[k] = s[k].pos
<1>1. Len(s) \in Nat /\ DOMAIN s = 1..Len(s) /\ \A k \in 1..Len(s) : s[k] \in Token
  BY LenProperties, ElementOfSeq
<1> DEFINE p(k) == s[k].pos
<1>2. \A k \in 1..Len(s) : p(k) \in 1..Len(Plan)
  BY <1>1 DEF Token
<1>3. Positions(s) = [k \in 1..Len(s) |-> p(k)]
  BY <1>1 DEF Positions
<1> HIDE DEF p
<1>4. /\ [k \in 1..Len(s) |-> p(k)] \in Seq(1..Len(Plan))
      /\ Len([k \in 1..Len(s) |-> p(k)]) = Len(s)
  BY <1>1, <1>2, IsASeq
<1> QED
  BY <1>3, <1>4 DEF p

(* A mask of ones is a mask.                                               *)
LEMMA OnesAre ==
  ASSUME NEW n \in Nat
  PROVE  Ones(n) \in Seq({0, 1}) /\ Len(Ones(n)) = n /\ \A k \in 1..n : Ones(n)[k] = 1
<1> DEFINE e(k) == 1
<1>1. \A k \in 1..n : e(k) \in {0, 1}
  OBVIOUS
<1> HIDE DEF e
<1>2. [k \in 1..n |-> e(k)] \in Seq({0, 1}) /\ Len([k \in 1..n |-> e(k)]) = n
  BY <1>1, IsASeq
<1> QED
  BY <1>2 DEF Ones, e

(* Terminated: the outputs are cut.                                        *)
LEMMA TerminatedMoves ==
  ASSUME GenerationInv, UpdateStays, NEW g \in Gens,
         Terminated(g)
  PROVE  Moved(g)
<1>1. /\ kind' = kind /\ response_length' = response_length /\ handles' = handles
      /\ on_worker' = on_worker /\ state' = state
      /\ param_version_start' = param_version_start
      /\ param_version_end' = param_version_end
      /\ request' = request /\ reply' = reply /\ split' = split
      /\ cancellation_event' = cancellation_event /\ server_paused' = server_paused
      /\ requests_sent' = requests_sent /\ request_id_to_server' = request_id_to_server
      /\ gpc[g] = "loop" /\ gpc' = [gpc EXCEPT ![g] = "scoring"]
      /\ ids' = [ids EXCEPT ![g] = Prefix(ids[g], response_length)]
      /\ mask' = [mask EXCEPT ![g] = Prefix(mask[g], response_length)]
      /\ logprobs' = [logprobs EXCEPT ![g] = Prefix(logprobs[g], response_length)]
  BY DEF Terminated, routing
<1>2. Token' = Token /\ RecordedTokens(g)' = RecordedTokens(g) /\ Plan' = Plan
  BY <1>1, TokensStay DEF Plan, UpdateStays
<1>3. response_length \in Nat
  BY GenerationAssumption DEF GenerationInv, GenerationTypes
<1>4. /\ Prefix(ids[g], response_length) \in Seq(RecordedTokens(g))
      /\ Prefix(ids[g], response_length) \in Seq(Token)
  BY <1>3, PrefixProperties, RecordedAreTokens DEF GenerationInv, VersionsRecorded
<1>5. /\ Prefix(mask[g], response_length) \in Seq({0, 1})
      /\ Prefix(logprobs[g], response_length) \in Seq(1..Len(Plan))
  BY <1>3, PrefixProperties DEF GenerationInv, GenerationTypes
<1>6. GenerationTypes'
  BY <1>1, <1>2, <1>4, <1>5 DEF GenerationInv, GenerationTypes
<1>7. gpc'[g] = "scoring" /\ ids'[g] = Prefix(ids[g], response_length)
  BY <1>1 DEF GenerationInv, GenerationTypes
<1>8. RequestsMatch(g)'
  BY <1>1, <1>7 DEF GenerationInv, RequestsMatch
<1>9. VersionsRecorded(g)'
  BY <1>1, <1>2, <1>4, <1>7 DEF GenerationInv, VersionsRecorded, UpdateStays
<1>10. \A q \in Gens \ {g} : Untouched(q)
  BY <1>1 DEF Untouched, GenerationInv, GenerationTypes
<1> QED
  BY <1>6, <1>8, <1>9, <1>10 DEF Moved

(* CallServer: to a server.                                                *)
LEMMA CallServerMoves ==
  ASSUME GenerationInv, UpdateStays, NEW g \in Gens,
         CallServer(g)
  PROVE  Moved(g)
<1> DEFINE w == on_worker
           s == Chosen(w, g)
<1>1. /\ kind' = kind /\ response_length' = response_length /\ handles' = handles
      /\ on_worker' = on_worker /\ state' = state
      /\ ids' = ids /\ mask' = mask /\ logprobs' = logprobs
      /\ param_version_start' = param_version_start
      /\ param_version_end' = param_version_end
      /\ reply' = reply /\ split' = split
      /\ cancellation_event' = cancellation_event /\ server_paused' = server_paused
      /\ gpc[g] = "loop" /\ gpc' = [gpc EXCEPT ![g] = "called"]
      /\ request' = [request EXCEPT ![g] = [NoRequest EXCEPT !.server = s]]
      /\ \/ requests_sent' = requests_sent
         \/ requests_sent' = [requests_sent EXCEPT ![w][s] = @ + 1]
      /\ \/ request_id_to_server' = request_id_to_server
         \/ request_id_to_server' = [request_id_to_server EXCEPT ![w][g] = s]
  BY DEF CallServer, MayContinue, outputs
<1>2. w \in WorkerSet /\ s \in Servers
  BY ChosenIsServer DEF GenerationInv, GenerationTypes
<1> HIDE DEF w, s
<1>3. Token' = Token /\ RecordedTokens(g)' = RecordedTokens(g) /\ Plan' = Plan
  BY <1>1, TokensStay DEF Plan, UpdateStays
<1>4. <<>> \in Seq(Token) /\ <<>> \in Seq(RecordedTokens(g))
  BY EmptySeq
<1> DEFINE R == [server : Servers \cup {NoServer}, tokens : Seq(Token),
                 finished : BOOLEAN, stop : BOOLEAN]
           r == [NoRequest EXCEPT !.server = s]
<1>5. r \in R /\ r.server = s /\ r.tokens = <<>> /\ ~r.finished
  <2>1. NoRequest \in R /\ NoRequest.tokens = <<>> /\ ~NoRequest.finished
    BY <1>4 DEF NoRequest
  <2> QED
    BY <1>2, <2>1
<1> HIDE DEF r
<1>6. request' \in [Gens -> R]
  <2>1. request' = [request EXCEPT ![g] = r]
    BY <1>1 DEF r
  <2> QED
    BY <1>5, <2>1 DEF GenerationInv, GenerationTypes
<1>7. requests_sent' \in [WorkerSet -> [Servers -> Nat]]
  <2>1. requests_sent \in [WorkerSet -> [Servers -> Nat]]
    BY DEF GenerationInv, GenerationTypes
  <2>2. [requests_sent[w] EXCEPT ![s] = @ + 1] \in [Servers -> Nat]
    BY <1>2, <2>1
  <2>3. [requests_sent EXCEPT ![w][s] = @ + 1] \in [WorkerSet -> [Servers -> Nat]]
    BY <1>2, <2>1, <2>2
  <2> QED
    BY <1>1, <2>1, <2>3
<1>8. request_id_to_server' \in [WorkerSet -> [Gens -> Servers \cup {NoServer}]]
  <2>1. request_id_to_server \in [WorkerSet -> [Gens -> Servers \cup {NoServer}]]
    BY DEF GenerationInv, GenerationTypes
  <2>2. [request_id_to_server EXCEPT ![w][g] = s]
          \in [WorkerSet -> [Gens -> Servers \cup {NoServer}]]
    BY <1>2, <2>1
  <2> QED
    BY <1>1, <2>1, <2>2
<1>9. gpc' \in [Gens -> {"waiting", "loop", "called", "running", "answered",
                         "tools", "scoring", "completed"}]
  BY <1>1 DEF GenerationInv, GenerationTypes
<1>10. GenerationTypes'
  BY <1>1, <1>3, <1>6, <1>7, <1>8, <1>9 DEF GenerationInv, GenerationTypes
<1>11. /\ gpc'[g] = "called" /\ request'[g].server = s
       /\ request'[g].tokens = <<>> /\ ~request'[g].finished
  <2>1. request' = [request EXCEPT ![g] = r]
    BY <1>1 DEF r
  <2> QED
    BY <1>1, <1>5, <2>1 DEF GenerationInv, GenerationTypes
<1>12. RequestsMatch(g)'
  BY <1>1, <1>2, <1>11 DEF GenerationInv, RequestsMatch
<1>13. VersionsRecorded(g)'
  BY <1>1, <1>3, <1>4, <1>11 DEF GenerationInv, VersionsRecorded, UpdateStays
<1>14. \A q \in Gens \ {g} : Untouched(q)
  BY <1>1 DEF Untouched, GenerationInv, GenerationTypes
<1> QED
  BY <1>10, <1>12, <1>13, <1>14 DEF Moved

(* ServerAccepts and ServerReplies: what is answered is what was generated.*)
LEMMA ServerMoves ==
  ASSUME GenerationInv, UpdateStays, NEW g \in Gens,
         ServerAccepts(g) \/ ServerReplies(g)
  PROVE  Moved(g)
<1>1. /\ kind' = kind /\ response_length' = response_length /\ handles' = handles
      /\ on_worker' = on_worker /\ state' = state
      /\ ids' = ids /\ mask' = mask /\ logprobs' = logprobs
      /\ param_version_start' = param_version_start
      /\ param_version_end' = param_version_end
      /\ request' = request /\ split' = split
      /\ cancellation_event' = cancellation_event /\ server_paused' = server_paused
      /\ requests_sent' = requests_sent /\ request_id_to_server' = request_id_to_server
  BY DEF ServerAccepts, ServerReplies, routing, outputs
<1>2. <<>> \in Seq(Token) /\ <<>> \in Seq(RecordedTokens(g))
  BY EmptySeq
<1>3. \/ /\ gpc[g] = "called" /\ gpc' = [gpc EXCEPT ![g] = "running"] /\ reply' = reply
      \/ /\ gpc[g] \in {"called", "running"}
         /\ gpc' = [gpc EXCEPT ![g] = "answered"]
         /\ \E a : /\ a \in [tokens : Seq(Token), is_cancel : BOOLEAN]
                   /\ a.tokens \in Seq(RecordedTokens(g))
                   /\ reply' = [reply EXCEPT ![g] = a]
  <2>1. CASE ServerAccepts(g)
    <3>1. [tokens |-> <<>>, is_cancel |-> TRUE] \in [tokens : Seq(Token), is_cancel : BOOLEAN]
      BY <1>2
    <3> QED
      BY <1>2, <2>1, <3>1 DEF ServerAccepts
  <2>2. CASE ServerReplies(g)
    <3> DEFINE a == [tokens |-> request[g].tokens, is_cancel |-> ~request[g].finished]
    <3>1. a \in [tokens : Seq(Token), is_cancel : BOOLEAN]
      BY DEF GenerationInv, GenerationTypes
    <3>2. a.tokens \in Seq(RecordedTokens(g))
      BY DEF GenerationInv, VersionsRecorded
    <3>3. /\ gpc[g] = "running" /\ gpc' = [gpc EXCEPT ![g] = "answered"]
          /\ reply' = [reply EXCEPT ![g] = a]
      BY <2>2 DEF ServerReplies
    <3> QED
      BY <3>1, <3>2, <3>3
  <2> QED
    BY <2>1, <2>2
<1>4. Token' = Token /\ RecordedTokens(g)' = RecordedTokens(g) /\ Plan' = Plan
  BY <1>1, TokensStay DEF Plan, UpdateStays
<1>5. /\ gpc' \in [Gens -> {"waiting", "loop", "called", "running", "answered",
                            "tools", "scoring", "completed"}]
      /\ gpc[g] \in {"called", "running"}
      /\ gpc'[g] = "answered" \/ (gpc'[g] = "running" /\ reply' = reply /\ gpc[g] = "called")
      /\ \A q \in Gens \ {g} : gpc'[q] = gpc[q] /\ reply'[q] = reply[q]
  BY <1>3 DEF GenerationInv, GenerationTypes
<1>6. /\ reply' \in [Gens -> [tokens : Seq(Token), is_cancel : BOOLEAN]]
      /\ reply'[g].tokens \in Seq(RecordedTokens(g))
  <2>1. /\ reply \in [Gens -> [tokens : Seq(Token), is_cancel : BOOLEAN]]
        /\ reply[g].tokens \in Seq(RecordedTokens(g))
    BY DEF GenerationInv, GenerationTypes, VersionsRecorded
  <2>2. CASE reply' = reply
    BY <2>1, <2>2
  <2>3. ASSUME NEW a \in [tokens : Seq(Token), is_cancel : BOOLEAN],
               a.tokens \in Seq(RecordedTokens(g)), reply' = [reply EXCEPT ![g] = a]
        PROVE  /\ reply' \in [Gens -> [tokens : Seq(Token), is_cancel : BOOLEAN]]
               /\ reply'[g].tokens \in Seq(RecordedTokens(g))
    BY <2>1, <2>3
  <2> QED
    BY <1>3, <2>2, <2>3
<1>7. GenerationTypes'
  BY <1>1, <1>4, <1>5, <1>6 DEF GenerationInv, GenerationTypes
<1>8. RequestsMatch(g)'
  BY <1>1, <1>5 DEF GenerationInv, RequestsMatch
<1>9. VersionsRecorded(g)'
  BY <1>1, <1>4, <1>5, <1>6 DEF GenerationInv, VersionsRecorded, UpdateStays
<1>10. \A q \in Gens \ {g} : Untouched(q)
  BY <1>1, <1>5 DEF Untouched
<1> QED
  BY <1>7, <1>8, <1>9, <1>10 DEF Moved

(* The event loop of a rank is free before it has loaded anything, or when *)
(* it has loaded everything.                                               *)
LEMMA ComputesOneVersion ==
  ASSUME TransferInv, NEW r \in RolloutRanks, Computes(r)
  PROVE  \E v \in 0..MaxVersion : \A p \in Params : model[r][p] = v
<1>1. actor_version \in 0..MaxVersion /\ MaxVersion \in Nat
  BY TransferAssumption DEF TransferInv, TransferTypes
<1>2. CASE tp[r] = "idle"
  BY <1>1, <1>2 DEF TransferInv, LoadedAreNew
<1>3. CASE NotYetCalled(r)
  <2>1. r \in Ranks
    BY RanksExist
  <2>2. gidx = 0 /\ tp[r] \in {"register", "broadcast"}
    BY <1>3, <2>1 DEF NotYetCalled, TransferInv, WalkPhases, AfterAll
  <2>3. consumer[r] = "off"
    BY <1>3, <2>1 DEF NotYetCalled, TransferInv, LoadsWhatWasSent, Overlap
  <2>4. LoadsDone(r) = 0 /\ \A p : ~Covered(0, p)
    BY <2>2, <2>3 DEF LoadsDone, Loading, Covered
  <2>5. actor_version > 0 /\ \A p \in Params : model[r][p] = actor_version - 1
    BY <2>2, <2>4 DEF TransferInv, LoadedAreNew
  <2>6. actor_version - 1 \in 0..MaxVersion
    BY <1>1, <2>5
  <2> QED
    BY <2>5, <2>6
<1> QED
  BY <1>2, <1>3 DEF Computes

(* EngineToken: all parameters are of one version; unless a task was made  *)
(* meanwhile no weights are being loaded, and the version is the one that  *)
(* the rollouter and g have recorded.                                      *)
LEMMA EngineTokenMoves ==
  ASSUME GenerationInv, TransferInv, UpdateStays, NEW g \in Gens, EngineToken(g)
  PROVE  Moved(g)
<1> DEFINE r == request[g]
           pos == Len(ids[g]) + Len(r.tokens) + 1
           tok == [pos |-> pos, versions |-> {model[r.server][p] : p \in Params}]
           R == [server : Servers \cup {NoServer}, tokens : Seq(Token),
                 finished : BOOLEAN, stop : BOOLEAN]
           new == [r EXCEPT !.tokens = Append(@, tok),
                            !.finished = Plan[pos] \in {"close", "end"}]
<1>1. /\ kind' = kind /\ response_length' = response_length /\ handles' = handles
      /\ on_worker' = on_worker /\ state' = state /\ gpc' = gpc
      /\ ids' = ids /\ mask' = mask /\ logprobs' = logprobs
      /\ param_version_start' = param_version_start
      /\ param_version_end' = param_version_end
      /\ reply' = reply /\ split' = split
      /\ cancellation_event' = cancellation_event /\ server_paused' = server_paused
      /\ requests_sent' = requests_sent /\ request_id_to_server' = request_id_to_server
      /\ gpc[g] = "running" /\ pos <= Len(Plan)
  BY DEF EngineToken, routing, outputs
<1>2. request' = [request EXCEPT ![g] = new]
  BY DEF EngineToken
<1>3. /\ r \in R /\ ids[g] \in Seq(Token) /\ r.tokens \in Seq(Token)
      /\ r.server \in Servers
  BY <1>1 DEF GenerationInv, GenerationTypes, RequestsMatch
<1>4. pos \in 1..Len(Plan)
  <2>1. Len(ids[g]) \in Nat /\ Len(r.tokens) \in Nat
    BY <1>3, LenProperties
  <2>2. Len(Plan) \in Nat
    BY GenerationAssumption, LenProperties DEF Plan, GenerationInv, GenerationTypes
  <2>3. PICK a \in Nat, b \in Nat, n \in Nat :
          a = Len(ids[g]) /\ b = Len(r.tokens) /\ n = Len(Plan)
    BY <2>1, <2>2
  <2>4. pos = a + b + 1 /\ a + b + 1 <= n
    BY <1>1, <2>3
  <2>5. a + b + 1 \in 1..n
    BY <2>4
  <2> QED
    BY <2>3, <2>4, <2>5
<1> DEFINE vs == {model[r.server][p] : p \in Params}
<1>5. vs \subseteq 0..MaxVersion
  <2>1. \E v \in 0..MaxVersion : \A p \in Params : model[r.server][p] = v
    BY <1>3, ComputesOneVersion DEF EngineToken, Servers
  <2> QED
    BY <2>1
<1>6. rp # "transfer" => vs \subseteq {actor_version} /\ current_param_version = actor_version
  BY <1>3, ArrivalFollows DEF GenerationInv, QuietTransfer, EveryParameterArrives, Servers
<1>7. tok \in RecordedTokens(g) /\ tok \in Token
  <2>1. gpc[g] = "running" /\ sample = "running"
    BY <1>1 DEF GenerationInv, QuietTransfer
  <2>2. intruders = 0 => rp # "transfer"
    BY <2>1 DEF GenerationInv, QuietTransfer
  <2>3. rp # "transfer" /\ vs # {} => vs = {actor_version} /\ actor_version \in 0..MaxVersion
    BY <1>5, <1>6
  <2>4. intruders = 0 => param_version_end[g] = current_param_version
    BY <1>1 DEF GenerationInv, VersionsRecorded
  <2>5. param_version_end[g] \in param_version_start[g]..param_version_end[g]
    <3>1. /\ param_version_start[g] \in 0..param_version_end[g]
          /\ param_version_end[g] \in -1..MaxVersion
      BY <1>1 DEF GenerationInv, VersionsRecorded, GenerationTypes
    <3> QED
      BY <3>1, TransferAssumption
  <2>6. intruders = 0 /\ vs # {} =>
          \E v \in param_version_start[g]..param_version_end[g] : vs = {v}
    <3> HIDE DEF vs
    <3> QED
      BY <1>6, <2>2, <2>3, <2>4, <2>5
  <2>7. vs # {} => \E v \in 0..MaxVersion : vs = {v}
    <3>1. PICK v \in 0..MaxVersion : \A p \in Params : model[r.server][p] = v
      BY <1>3, ComputesOneVersion DEF EngineToken, Servers
    <3> QED
      BY <3>1
  <2> HIDE DEF vs, pos
  <2>8. [pos |-> pos, versions |-> vs] \in Token
    BY <1>4, <1>5 DEF Token
  <2>9. [pos |-> pos, versions |-> vs] \in RecordedTokens(g)
    BY <2>6, <2>7, <2>8 DEF RecordedTokens
  <2> QED
    BY <2>8, <2>9 DEF vs
<1> HIDE DEF tok, pos
<1>8. /\ Append(r.tokens, tok) \in Seq(RecordedTokens(g))
      /\ Append(r.tokens, tok) \in Seq(Token)
  BY <1>3, <1>7, AppendProperties DEF GenerationInv, VersionsRecorded
<1>9. new \in R /\ new.tokens = Append(r.tokens, tok) /\ new.server = r.server
  <2> DEFINE longer == Append(r.tokens, tok)
             done == Plan[pos] \in {"close", "end"}
             made == [r EXCEPT !.tokens = longer, !.finished = done]
  <2>1. longer \in Seq(Token) /\ done \in BOOLEAN
    BY <1>8
  <2>2. new = made
    OBVIOUS
  <2> HIDE DEF longer, done, r, new
  <2>3. made \in R /\ made.tokens = longer /\ made.server = r.server
    BY <1>3, <2>1
  <2> HIDE DEF made
  <2>4. new \in R /\ new.tokens = longer /\ new.server = r.server
    BY <2>2, <2>3
  <2> QED
    BY <2>4 DEF longer
<1> HIDE DEF new
<1>10. Token' = Token /\ RecordedTokens(g)' = RecordedTokens(g) /\ Plan' = Plan
  BY <1>1, TokensStay DEF Plan, UpdateStays
<1>11. request' \in [Gens -> R] /\ request'[g] = new
       /\ \A q \in Gens \ {g} : request'[q] = request[q]
  BY <1>2, <1>9 DEF GenerationInv, GenerationTypes
<1>12. GenerationTypes'
  BY <1>1, <1>10, <1>11 DEF GenerationInv, GenerationTypes
<1>13. RequestsMatch(g)'
  BY <1>1, <1>3, <1>9, <1>11 DEF GenerationInv, RequestsMatch
<1>14. VersionsRecorded(g)'
  BY <1>1, <1>8, <1>9, <1>10, <1>11 DEF GenerationInv, VersionsRecorded, UpdateStays
<1>15. \A q \in Gens \ {g} : Untouched(q)
  BY <1>1, <1>11 DEF Untouched
<1> QED
  BY <1>12, <1>13, <1>14, <1>15 DEF Moved

(* What the agent loops make of a reply and of a tool's response: the      *)
(* tokens, mask and log-probabilities of g grow, or are cut.               *)
LEMMA OutputsMove ==
  ASSUME GenerationInv, UpdateStays, NEW g \in Gens,
         SingleTurnAnswered(g) \/ ToolAgentAnswered(g) \/ ToolReturns(g)
  PROVE  Moved(g)
<1> DEFINE all == ids[g] \o reply[g].tokens
           t == ToolResponse(Len(ids[g]))
<1>1. /\ kind' = kind /\ response_length' = response_length /\ handles' = handles
      /\ on_worker' = on_worker
      /\ param_version_start' = param_version_start
      /\ param_version_end' = param_version_end
      /\ cancellation_event' = cancellation_event /\ server_paused' = server_paused
      /\ requests_sent' = requests_sent /\ request_id_to_server' = request_id_to_server
  BY DEF SingleTurnAnswered, ToolAgentAnswered, ToolReturns, routing
<1>2. Token' = Token /\ RecordedTokens(g)' = RecordedTokens(g) /\ Plan' = Plan
  BY <1>1, TokensStay DEF Plan, UpdateStays
<1>3. /\ ids[g] \in Seq(RecordedTokens(g)) /\ reply[g].tokens \in Seq(RecordedTokens(g))
      /\ reply[g].tokens \in Seq(Token) /\ ids[g] \in Seq(Token)
      /\ mask[g] \in Seq({0, 1}) /\ logprobs[g] \in Seq(1..Len(Plan))
      /\ response_length \in Nat
      /\ Len(ids[g]) \in Nat /\ Len(reply[g].tokens) \in Nat
  <2>1. /\ ids[g] \in Seq(RecordedTokens(g)) /\ reply[g].tokens \in Seq(RecordedTokens(g))
        /\ reply[g].tokens \in Seq(Token) /\ ids[g] \in Seq(Token)
        /\ mask[g] \in Seq({0, 1}) /\ logprobs[g] \in Seq(1..Len(Plan))
    BY DEF GenerationInv, GenerationTypes, VersionsRecorded
  <2> QED
    BY <2>1, LenProperties, GenerationAssumption DEF GenerationInv, GenerationTypes
<1>4. /\ all \in Seq(RecordedTokens(g)) /\ all \in Seq(Token) /\ Len(all) \in Nat
  BY <1>3, ConcatProperties, RecordedAreTokens, LenProperties
<1>5. /\ t \in Seq(RecordedTokens(g)) /\ t \in Seq(Token) /\ Len(t) \in Nat
      /\ Positions(t) \in Seq(1..Len(Plan))
      /\ [k \in DOMAIN t |-> 0] \in Seq({0, 1})
  <2>1. /\ t \in Seq(Token)
        /\ \A j \in 1..Len(t) : t[j] = [pos |-> Len(ids[g]) + j, versions |-> {}]
    BY <1>3, ToolResponseIs DEF GenerationInv, GenerationTypes
  <2> HIDE DEF t
  <2>2. Len(t) \in Nat /\ DOMAIN t = 1..Len(t) /\ t = [j \in 1..Len(t) |-> t[j]]
        /\ \A j \in 1..Len(t) : t[j] \in Token
    BY <2>1, LenProperties, ElementOfSeq
  <2>3. \A j \in 1..Len(t) : t[j] \in RecordedTokens(g)
    BY <2>1, <2>2 DEF RecordedTokens
  <2>4. t \in Seq(RecordedTokens(g))
    <3> DEFINE e(j) == t[j]
    <3>1. \A j \in 1..Len(t) : e(j) \in RecordedTokens(g)
      BY <2>3
    <3> HIDE DEF e
    <3>2. [j \in 1..Len(t) |-> e(j)] \in Seq(RecordedTokens(g))
      BY <2>2, <3>1, IsASeq
    <3> QED
      BY <2>2, <3>2 DEF e
  <2>5. [k \in DOMAIN t |-> 0] \in Seq({0, 1})
    <3> DEFINE e(k) == 0
    <3>1. \A k \in 1..Len(t) : e(k) \in {0, 1}
      OBVIOUS
    <3> HIDE DEF e
    <3>2. [k \in 1..Len(t) |-> e(k)] \in Seq({0, 1})
      BY <2>2, <3>1, IsASeq
    <3> QED
      BY <2>2, <3>2 DEF e
  <2>6. Positions(t) \in Seq(1..Len(Plan))
    BY <2>1, PositionsOf
  <2> QED
    BY <2>1, <2>2, <2>4, <2>5, <2>6
<1>6. /\ Ones(Len(all)) \in Seq({0, 1}) /\ Ones(Len(reply[g].tokens)) \in Seq({0, 1})
      /\ Positions(reply[g].tokens) \in Seq(1..Len(Plan))
  BY <1>3, <1>4, OnesAre, PositionsOf
<1>7. \E i, m, l, s :
        /\ i \in Seq(RecordedTokens(g)) /\ i \in Seq(Token)
        /\ m \in Seq({0, 1}) /\ l \in Seq(1..Len(Plan))
        /\ s \in {"PENDING", "GENERATING", "PROCESSING_TOOLS", "TERMINATED"}
        /\ ids' = [ids EXCEPT ![g] = i] /\ mask' = [mask EXCEPT ![g] = m]
        /\ logprobs' = [logprobs EXCEPT ![g] = l] /\ state' = [state EXCEPT ![g] = s]
  <2> HIDE DEF all, t
  <2>1. CASE SingleTurnAnswered(g)
    <3> DEFINE i == Prefix(all, response_length)
               m == Prefix(Ones(Len(all)), response_length)
               long == logprobs[g] \o Positions(reply[g].tokens)
               l == Prefix(long, response_length)
    <3>1. /\ ids' = [ids EXCEPT ![g] = i] /\ mask' = [mask EXCEPT ![g] = m]
          /\ logprobs' = [logprobs EXCEPT ![g] = l] /\ state' = state
      BY <2>1 DEF SingleTurnAnswered, all
    <3>2. i \in Seq(RecordedTokens(g)) /\ i \in Seq(Token)
      BY <1>3, <1>4, PrefixProperties
    <3>3. m \in Seq({0, 1})
      BY <1>3, <1>6, PrefixProperties
    <3>4. long \in Seq(1..Len(Plan))
      BY <1>3, <1>6, ConcatProperties
    <3>5. l \in Seq(1..Len(Plan))
      <4> HIDE DEF long
      <4> QED
        BY <1>3, <3>4, PrefixProperties
    <3>6. state' = [state EXCEPT ![g] = state[g]]
          /\ state[g] \in {"PENDING", "GENERATING", "PROCESSING_TOOLS", "TERMINATED"}
      BY <3>1 DEF GenerationInv, GenerationTypes
    <3> HIDE DEF i, m, l
    <3> QED
      BY <3>1, <3>2, <3>3, <3>5, <3>6
  <2>2. CASE ToolAgentAnswered(g)
    <3> DEFINE m == mask[g] \o Ones(Len(reply[g].tokens))
               l == logprobs[g] \o Positions(reply[g].tokens)
               s == NextState(g, Len(mask[g]) + Len(reply[g].tokens))
    <3>1. /\ ids' = [ids EXCEPT ![g] = all] /\ mask' = [mask EXCEPT ![g] = m]
          /\ logprobs' = [logprobs EXCEPT ![g] = l] /\ state' = [state EXCEPT ![g] = s]
      BY <2>2 DEF ToolAgentAnswered, all
    <3>2. m \in Seq({0, 1}) /\ l \in Seq(1..Len(Plan))
      BY <1>3, <1>6, ConcatProperties
    <3>3. s \in {"PENDING", "GENERATING", "PROCESSING_TOOLS", "TERMINATED"}
      BY DEF NextState
    <3> HIDE DEF m, l, s
    <3> QED
      BY <1>4, <3>1, <3>2, <3>3
  <2>3. CASE ToolReturns(g)
    <3> DEFINE fits == Len(mask[g]) + Len(t) < response_length
               s == IF fits THEN "GENERATING" ELSE "TERMINATED"
               zeros == [k \in DOMAIN t |-> 0]
               i == IF fits THEN ids[g] \o t ELSE ids[g]
               m == IF fits THEN mask[g] \o zeros ELSE mask[g]
               l == IF fits /\ logprobs[g] # <<>> THEN logprobs[g] \o Positions(t)
                    ELSE logprobs[g]
    <3>1. /\ ids' = [ids EXCEPT ![g] = i] /\ mask' = [mask EXCEPT ![g] = m]
          /\ logprobs' = [logprobs EXCEPT ![g] = l] /\ state' = [state EXCEPT ![g] = s]
      <4>1. /\ state' = [state EXCEPT ![g] = s]
            /\ ids' = IF fits THEN [ids EXCEPT ![g] = ids[g] \o t] ELSE ids
            /\ mask' = IF fits THEN [mask EXCEPT ![g] = mask[g] \o zeros] ELSE mask
            /\ logprobs' = IF fits /\ logprobs[g] # <<>>
                           THEN [logprobs EXCEPT ![g] = logprobs[g] \o Positions(t)]
                           ELSE logprobs
        BY <2>3 DEF ToolReturns, t
      <4>2. /\ [ids EXCEPT ![g] = ids[g]] = ids /\ [mask EXCEPT ![g] = mask[g]] = mask
            /\ [logprobs EXCEPT ![g] = logprobs[g]] = logprobs
        BY DEF GenerationInv, GenerationTypes
      <4> HIDE DEF fits
      <4> QED
        BY <4>1, <4>2
    <3>2. i \in Seq(RecordedTokens(g)) /\ i \in Seq(Token)
      BY <1>3, <1>5, ConcatProperties, RecordedAreTokens
    <3>3. m \in Seq({0, 1}) /\ l \in Seq(1..Len(Plan))
      BY <1>3, <1>5, ConcatProperties
    <3>4. s \in {"PENDING", "GENERATING", "PROCESSING_TOOLS", "TERMINATED"}
      OBVIOUS
    <3> HIDE DEF i, m, l, s
    <3> QED
      BY <3>1, <3>2, <3>3, <3>4
  <2> QED
    BY <2>1, <2>2, <2>3
<1>8. /\ gpc' \in [Gens -> {"waiting", "loop", "called", "running", "answered",
                            "tools", "scoring", "completed"}]
      /\ gpc[g] \in {"answered", "tools"} /\ gpc'[g] \in {"waiting", "loop", "scoring"}
      /\ \A q \in Gens \ {g} : gpc'[q] = gpc[q]
  BY DEF SingleTurnAnswered, ToolAgentAnswered, ToolReturns, GenerationInv, GenerationTypes
<1>9. /\ request' \in [Gens -> [server : Servers \cup {NoServer}, tokens : Seq(Token),
                                finished : BOOLEAN, stop : BOOLEAN]]
      /\ reply' \in [Gens -> [tokens : Seq(Token), is_cancel : BOOLEAN]]
      /\ request'[g] = NoRequest /\ reply'[g] = NoReply
      /\ \A q \in Gens \ {g} : request'[q] = request[q] /\ reply'[q] = reply[q]
  <2>1. \/ /\ request' = [request EXCEPT ![g] = NoRequest]
           /\ reply' = [reply EXCEPT ![g] = NoReply]
        \/ request' = request /\ reply' = reply /\ gpc[g] = "tools"
    BY DEF SingleTurnAnswered, ToolAgentAnswered, ToolReturns
  <2>2. /\ NoRequest \in [server : Servers \cup {NoServer}, tokens : Seq(Token),
                          finished : BOOLEAN, stop : BOOLEAN]
        /\ NoReply \in [tokens : Seq(Token), is_cancel : BOOLEAN]
    BY EmptySeq DEF NoRequest, NoReply
  <2>3. gpc[g] = "tools" => request[g] = NoRequest /\ reply[g] = NoReply
    BY DEF GenerationInv, RequestsMatch
  <2>4. /\ request \in [Gens -> [server : Servers \cup {NoServer}, tokens : Seq(Token),
                                 finished : BOOLEAN, stop : BOOLEAN]]
        /\ reply \in [Gens -> [tokens : Seq(Token), is_cancel : BOOLEAN]]
    BY DEF GenerationInv, GenerationTypes
  <2>5. CASE /\ request' = [request EXCEPT ![g] = NoRequest]
             /\ reply' = [reply EXCEPT ![g] = NoReply]
    BY <2>2, <2>4, <2>5
  <2>6. CASE request' = request /\ reply' = reply /\ gpc[g] = "tools"
    BY <2>3, <2>4, <2>6
  <2> QED
    BY <2>1, <2>5, <2>6
<1>10. split' \in [Gens -> BOOLEAN] /\ \A q \in Gens \ {g} : split'[q] = split[q]
  <2>1. \/ split' = split
        \/ split' = [split EXCEPT ![g] = split[g] \/ CallWasCut(all, reply[g].tokens)]
    BY DEF SingleTurnAnswered, ToolAgentAnswered, ToolReturns
  <2>2. split \in [Gens -> BOOLEAN]
    BY DEF GenerationInv, GenerationTypes
  <2> HIDE DEF all
  <2>3. (split[g] \/ CallWasCut(all, reply[g].tokens)) \in BOOLEAN
    OBVIOUS
  <2> QED
    BY <2>1, <2>2, <2>3
<1> HIDE DEF all, t
<1>11. PICK i, m, l, s :
         /\ i \in Seq(RecordedTokens(g)) /\ i \in Seq(Token)
         /\ m \in Seq({0, 1}) /\ l \in Seq(1..Len(Plan))
         /\ s \in {"PENDING", "GENERATING", "PROCESSING_TOOLS", "TERMINATED"}
         /\ ids' = [ids EXCEPT ![g] = i] /\ mask' = [mask EXCEPT ![g] = m]
         /\ logprobs' = [logprobs EXCEPT ![g] = l] /\ state' = [state EXCEPT ![g] = s]
  BY <1>7
<1>12. GenerationTypes'
  BY <1>1, <1>2, <1>8, <1>9, <1>10, <1>11 DEF GenerationInv, GenerationTypes
<1>13. RequestsMatch(g)'
  BY <1>8, <1>9 DEF RequestsMatch
<1>14. VersionsRecorded(g)'
  <2>1. <<>> \in Seq(RecordedTokens(g)) /\ ids'[g] = i
    BY <1>11, EmptySeq DEF GenerationInv, GenerationTypes
  <2>2. request'[g].tokens = <<>> /\ reply'[g].tokens = <<>>
    BY <1>9 DEF NoRequest, NoReply
  <2> QED
    BY <1>1, <1>2, <1>8, <1>11, <2>1, <2>2 DEF GenerationInv, VersionsRecorded, UpdateStays
<1>15. \A q \in Gens \ {g} : Untouched(q)
  BY <1>1, <1>8, <1>9, <1>10, <1>11 DEF Untouched, GenerationInv, GenerationTypes
<1> QED
  BY <1>12, <1>13, <1>14, <1>15 DEF Moved

(* Every step of a generation is one of its moves, nothing else changing.  *)
LEMMA GenerationMoves ==
  ASSUME GenerationInv, TransferInv, NEW g \in Gens, Generation(g)
  PROVE  /\ Moved(g)
         /\ kind' = kind /\ response_length' = response_length
         /\ updateVars' = updateVars /\ transferVars' = transferVars
<1>1. UpdateStays /\ updateVars' = updateVars /\ transferVars' = transferVars
  BY DEF Generation, updateVars, pauseVars, UpdateStays
<1>2. kind' = kind /\ response_length' = response_length
  BY DEF Generation, GenerationStep, Interrupted, Terminated, Pending, CallServer,
     ServerAccepts, EngineToken, ServerReplies, SingleTurnAnswered, ToolAgentAnswered,
     CallTool, ToolReturns, Scored
<1>3. Moved(g)
  BY <1>1, QuietStepMoves, TerminatedMoves, CallServerMoves, ServerMoves, EngineTokenMoves,
     OutputsMove DEF Generation, GenerationStep
<1> QED
  BY <1>1, <1>2, <1>3

(* So it keeps the invariant.                                              *)
LEMMA GenerationKeeps ==
  ASSUME GenerationInv, TransferInv, NEW g \in Gens, Generation(g)
  PROVE  GenerationInv'
<1>1. /\ Moved(g) /\ kind' = kind
      /\ partial_rollout' = partial_rollout /\ rp' = rp /\ calls' = calls
      /\ current_param_version' = current_param_version /\ sample' = sample
      /\ worker_index' = worker_index /\ actor_version' = actor_version /\ tp' = tp
      /\ intruders' = intruders
  BY GenerationMoves DEF updateVars, pauseVars, transferVars
<1>2. UpdateTypes'
  BY <1>1 DEF GenerationInv, UpdateTypes
<1>3. QuietTransfer'
  <2>1. gpc[g] \notin {"waiting", "completed"}
    BY DEF Generation, GenerationStep, Interrupted, Terminated, Pending, CallServer,
       ServerAccepts, EngineToken, ServerReplies, SingleTurnAnswered, ToolAgentAnswered,
       CallTool, ToolReturns, Scored, MayContinue
  <2>2. sample = "running"
    BY <2>1 DEF GenerationInv, QuietTransfer
  <2> QED
    BY <1>1, <2>2 DEF GenerationInv, QuietTransfer
<1>4. \A q \in Gens : RequestsMatch(q)' /\ VersionsRecorded(q)'
  <2>1. ASSUME NEW q \in Gens, q # g  PROVE RequestsMatch(q)' /\ VersionsRecorded(q)'
    BY <1>1, <2>1, UntouchedKeeps DEF Moved, GenerationInv
  <2> QED
    BY <1>1, <2>1 DEF Moved
<1> QED
  BY <1>1, <1>2, <1>3, <1>4 DEF GenerationInv, Moved

(* A transfer that is not running does not start by itself.                *)
LEMMA IdleStays ==
  ASSUME TransferInv, TransferStep, \A r \in RolloutRanks : tp[r] = "idle"
  PROVE  \A r \in RolloutRanks : tp'[r] = "idle"
<1>1. \E r \in RolloutRanks : TRUE
  BY GenerationAssumption DEF Servers
<1>2. RolloutRanks \subseteq Ranks /\ \E r \in Ranks : tp[r] = "idle"
  BY <1>1, RanksExist
<1>3. ~StartUpdate /\ ~Broadcast /\ ~Barrier /\ ~FinishUpdate
  BY <1>2 DEF StartUpdate, Broadcast, Barrier, FinishUpdate
<1>4. ASSUME NEW q \in Ranks,
             \/ RegisterCheckpoint(q) \/ LoadInline(q) \/ ReceiveAck(q)
             \/ ConsumerLoads(q) \/ ConsumerLoaded(q) \/ DrainConsumer(q)
      PROVE  \A r \in RolloutRanks : tp'[r] = "idle"
  <2>1. \A r \in Ranks : tp[r] = "idle" => tp'[r] = tp[r]
    BY <1>4 DEF RegisterCheckpoint, LoadInline, ReceiveAck, ConsumerLoads, ConsumerLoaded,
       DrainConsumer, TransferInv, TransferTypes
  <2> QED
    BY <1>2, <2>1
<1> QED
  BY <1>3, <1>4 DEF TransferStep

(* What does not touch the generations keeps what is said of them.         *)
LEMMA GenerationsStay ==
  ASSUME GenerationInv, UNCHANGED generationVars,
         current_param_version' = current_param_version,
         intruders' = 0 => intruders = 0
  PROVE  GenerationTypes' /\ \A g \in Gens : RequestsMatch(g)' /\ VersionsRecorded(g)'
<1>1. /\ kind' = kind /\ response_length' = response_length /\ handles' = handles
      /\ on_worker' = on_worker /\ gpc' = gpc /\ state' = state
      /\ ids' = ids /\ mask' = mask /\ logprobs' = logprobs
      /\ param_version_start' = param_version_start
      /\ param_version_end' = param_version_end
      /\ request' = request /\ reply' = reply /\ split' = split
      /\ cancellation_event' = cancellation_event /\ server_paused' = server_paused
      /\ requests_sent' = requests_sent /\ request_id_to_server' = request_id_to_server
  BY DEF generationVars, outputs, routing
<1>2. Token' = Token /\ Plan' = Plan
  BY <1>1 DEF Token, Plan
<1>3. GenerationTypes'
  BY <1>1, <1>2 DEF GenerationInv, GenerationTypes
<1>4. \A g \in Gens : RequestsMatch(g)' /\ VersionsRecorded(g)'
  BY <1>1, UntouchedKeeps DEF GenerationInv, Untouched
<1> QED
  BY <1>3, <1>4

(* cancel and resume: only the flags of servers, workers and requests.     *)
LEMMA CallsKeep ==
  ASSUME GenerationInv, NEW x \in Servers \cup WorkerSet, ServeCancel(x) \/ ServeResume(x)
  PROVE  GenerationInv'
<1>1. /\ kind' = kind /\ response_length' = response_length /\ handles' = handles
      /\ on_worker' = on_worker /\ gpc' = gpc /\ state' = state
      /\ ids' = ids /\ mask' = mask /\ logprobs' = logprobs
      /\ param_version_start' = param_version_start
      /\ param_version_end' = param_version_end
      /\ reply' = reply /\ split' = split
      /\ requests_sent' = requests_sent /\ request_id_to_server' = request_id_to_server
      /\ partial_rollout' = partial_rollout /\ rp' = rp /\ calls' = calls \ {x}
      /\ current_param_version' = current_param_version /\ sample' = sample
      /\ worker_index' = worker_index /\ actor_version' = actor_version /\ tp' = tp
      /\ intruders' = intruders
  BY DEF ServeCancel, ServeResume, CancelServer, ResumeServer, CancelAgentLoops,
     ResumeAgentLoops, transferVars, outputs, routing, pauseVars
<1>2. Token' = Token /\ Plan' = Plan
  BY <1>1 DEF Token, Plan
<1> DEFINE R == [server : Servers \cup {NoServer}, tokens : Seq(Token),
                 finished : BOOLEAN, stop : BOOLEAN]
<1>3. request \in [Gens -> R]
  BY DEF GenerationInv, GenerationTypes
<1>4. /\ request' \in [Gens -> R]
      /\ \A g \in Gens : /\ request'[g].server = request[g].server
                         /\ request'[g].tokens = request[g].tokens
                         /\ request'[g].finished = request[g].finished
                         /\ gpc[g] # "running" => request'[g] = request[g]
  <2>1. CASE request' = request
    BY <1>3, <2>1
  <2>2. CASE request' = [g \in Gens |->
                           IF gpc[g] = "running" /\ request[g].server = x
                           THEN [request[g] EXCEPT !.stop = TRUE] ELSE request[g]]
    <3> HIDE DEF R
    <3>1. \A g \in Gens : /\ [request[g] EXCEPT !.stop = TRUE] \in R
                          /\ [request[g] EXCEPT !.stop = TRUE].server = request[g].server
                          /\ [request[g] EXCEPT !.stop = TRUE].tokens = request[g].tokens
                          /\ [request[g] EXCEPT !.stop = TRUE].finished = request[g].finished
      BY <1>3 DEF R
    <3> QED
      BY <1>3, <2>2, <3>1
  <2> QED
    BY <2>1, <2>2 DEF ServeCancel, ServeResume, CancelServer, ResumeServer,
       CancelAgentLoops, ResumeAgentLoops
<1>5. /\ cancellation_event' \in [WorkerSet -> BOOLEAN]
      /\ server_paused' \in [Servers -> BOOLEAN]
  BY DEF ServeCancel, ServeResume, CancelServer, ResumeServer, CancelAgentLoops,
     ResumeAgentLoops, GenerationInv, GenerationTypes
<1>6. GenerationTypes'
  BY <1>1, <1>2, <1>4, <1>5 DEF GenerationInv, GenerationTypes
<1>7. UpdateTypes' /\ QuietTransfer'
  BY <1>1 DEF GenerationInv, UpdateTypes, QuietTransfer
<1>8. ASSUME NEW g \in Gens  PROVE RequestsMatch(g)' /\ VersionsRecorded(g)'
  <2>1. RecordedTokens(g)' = RecordedTokens(g)
    BY <1>1, TokensStay
  <2>2. RequestsMatch(g)'
    BY <1>1, <1>4 DEF GenerationInv, RequestsMatch
  <2>3. VersionsRecorded(g)'
    BY <1>1, <1>4, <2>1 DEF GenerationInv, VersionsRecorded
  <2> QED
    BY <2>2, <2>3
<1> QED
  BY <1>6, <1>7, <1>8 DEF GenerationInv

(* SubmitSample: the versions are recorded when the runs start.            *)
LEMMA SubmitSampleKeeps ==
  ASSUME TransferTypes, GenerationInv, SubmitSample
  PROVE  GenerationInv'
<1> DEFINE cpv == current_param_version
<1>1. /\ sample = "created" /\ sample' = "running"
      /\ kind' = kind /\ response_length' = response_length /\ handles' = handles
      /\ on_worker' = Workers[worker_index] /\ state' = state
      /\ gpc' = [g \in Gens |-> IF gpc[g] = "waiting" THEN "loop" ELSE gpc[g]]
      /\ ids' = ids /\ mask' = mask /\ logprobs' = logprobs
      /\ param_version_start' = [g \in Gens |-> IF param_version_start[g] = -1
                                                THEN cpv ELSE param_version_start[g]]
      /\ param_version_end' = [g \in Gens |-> IF gpc[g] = "waiting" THEN cpv
                                              ELSE param_version_end[g]]
      /\ request' = request /\ reply' = reply /\ split' = split
      /\ cancellation_event' = cancellation_event /\ server_paused' = server_paused
      /\ requests_sent' = requests_sent /\ request_id_to_server' = request_id_to_server
      /\ partial_rollout' = partial_rollout /\ rp' = rp /\ calls' = calls
      /\ current_param_version' = cpv
      /\ worker_index' = (worker_index % Len(Workers)) + 1
      /\ actor_version' = actor_version /\ tp' = tp /\ intruders' = intruders
  BY DEF SubmitSample, StartRuns, transferVars, routing, pauseVars
<1>2. /\ Workers \in Seq(WorkerSet) /\ Len(Workers) \in Nat \ {0}
      /\ worker_index \in 1..Len(Workers) /\ Workers[worker_index] \in WorkerSet
  <2>1. Workers \in Seq(WorkerSet) /\ Workers # <<>>
    BY GenerationAssumption
  <2>2. Len(Workers) \in Nat \ {0}
    BY <2>1, EmptySeq, LenProperties
  <2>3. worker_index \in 1..Len(Workers)
    BY DEF GenerationInv, UpdateTypes
  <2> QED
    BY <2>1, <2>2, <2>3, ElementOfSeq
<1>3. /\ \A g \in Gens : gpc[g] \in {"waiting", "completed"}
      /\ cpv \in 0..actor_version
  BY <1>1 DEF GenerationInv, QuietTransfer, UpdateTypes
<1>4. Token' = Token /\ Plan' = Plan
  BY <1>1 DEF Token, Plan
<1>5. cpv \in 0..MaxVersion /\ cpv \in -1..MaxVersion /\ cpv \in Nat
  BY <1>3, TransferAssumption DEF TransferTypes
<1>6. GenerationTypes'
  <2>1. /\ gpc' \in [Gens -> {"waiting", "loop", "called", "running", "answered",
                              "tools", "scoring", "completed"}]
        /\ param_version_start' \in [Gens -> -1..MaxVersion]
        /\ param_version_end' \in [Gens -> -1..MaxVersion]
    BY <1>1, <1>5 DEF GenerationInv, GenerationTypes
  <2> QED
    BY <1>1, <1>2, <1>4, <2>1 DEF GenerationInv, GenerationTypes
<1>7. UpdateTypes'
  <2>1. (worker_index % Len(Workers)) + 1 \in 1..Len(Workers)
    <3>1. PICK n \in Nat \ {0}, k \in Nat : n = Len(Workers) /\ k = worker_index
      BY <1>2
    <3>2. (k % n) \in 0..n - 1
      BY <3>1
    <3>3. (k % n) + 1 \in 1..n
      BY <3>2
    <3> QED
      BY <3>1, <3>3
  <2> QED
    BY <1>1, <2>1 DEF GenerationInv, UpdateTypes
<1>8. QuietTransfer'
  BY <1>1, <1>3 DEF GenerationInv, QuietTransfer
<1>9. ASSUME NEW g \in Gens  PROVE RequestsMatch(g)' /\ VersionsRecorded(g)'
  <2>1. request[g] = NoRequest /\ reply[g] = NoReply
    BY <1>3 DEF GenerationInv, RequestsMatch
  <2>2. /\ gpc'[g] \in {"loop", "completed"} /\ request'[g] = NoRequest /\ reply'[g] = NoReply
        /\ gpc[g] = "waiting" <=> gpc'[g] = "loop"
    BY <1>1, <1>3, <2>1
  <2>3. RequestsMatch(g)'
    BY <2>2 DEF RequestsMatch
  <2>4. request'[g].tokens = <<>> /\ reply'[g].tokens = <<>>
    BY <2>2 DEF NoRequest, NoReply
  <2>5. <<>> \in Seq(RecordedTokens(g)')
    BY EmptySeq
  <2>6. PICK s \in Int, e \in Int : s = param_version_start[g] /\ e = param_version_end[g]
    BY DEF GenerationInv, GenerationTypes
  <2>7. /\ param_version_start'[g] = IF s = -1 THEN cpv ELSE s
        /\ param_version_end'[g] = IF gpc[g] = "waiting" THEN cpv ELSE e
        /\ ids'[g] = ids[g]
    BY <1>1, <2>6
  <2>8. /\ (s = -1 /\ e = -1 /\ gpc[g] = "waiting" /\ ids[g] = <<>>) \/ (s \in 0..e /\ e \in 0..cpv)
        /\ ids[g] \in Seq(RecordedTokens(g))
    BY <2>6 DEF GenerationInv, VersionsRecorded
  <2>9. CASE s = -1
    <3>1. /\ gpc[g] = "waiting" /\ ids[g] = <<>>
          /\ param_version_start'[g] = cpv /\ param_version_end'[g] = cpv
      BY <2>7, <2>8, <2>9
    <3>2. /\ param_version_start'[g] \in 0..param_version_end'[g] /\ param_version_start'[g] # -1
          /\ param_version_end'[g] \in 0..current_param_version'
      BY <1>1, <1>5, <3>1
    <3> QED
      BY <1>1, <2>3, <2>4, <2>5, <2>7, <3>1, <3>2 DEF VersionsRecorded
  <2>10. CASE s # -1
    <3>1. PICK f \in Int : f = param_version_end'[g]
      BY <1>5, <2>7
    <3>2. /\ param_version_start'[g] = s /\ s \in 0..e /\ e \in 0..cpv
      BY <2>7, <2>8, <2>10
    <3>3. e <= f /\ f \in 0..cpv /\ s \in 0..f
      BY <1>5, <2>7, <3>1, <3>2
    <3>4. RecordedTokens(g) \subseteq RecordedTokens(g)'
      <4>1. \A v \in s..e : v \in s..f
        BY <3>3, <3>2
      <4>2. intruders' = intruders
        BY <1>1
      <4> QED
        BY <1>4, <2>6, <3>1, <3>2, <4>1, <4>2 DEF RecordedTokens
    <3>5. ids'[g] \in Seq(RecordedTokens(g)')
      BY <2>7, <2>8, <3>4, SeqMonotonic
    <3>6. gpc'[g] \notin {"waiting", "completed"} => f = cpv
      BY <2>2, <2>7, <3>1
    <3>7. current_param_version' = cpv
      BY <1>1
    <3> QED
      BY <2>3, <2>4, <2>5, <2>10, <3>1, <3>2, <3>3, <3>5, <3>6, <3>7 DEF VersionsRecorded
  <2> QED
    BY <2>9, <2>10
<1> QED
  BY <1>6, <1>7, <1>8, <1>9 DEF GenerationInv

(* UpdateParamVersion: no generation is running, but an intruder's.        *)
LEMMA UpdateParamVersionKeeps ==
  ASSUME TransferTypes, GenerationInv, UpdateParamVersion
  PROVE  GenerationInv'
<1>1. /\ rp = "transfer" /\ rp' = "updated" /\ current_param_version' = actor_version
      /\ \A r \in RolloutRanks : tp[r] = "idle"
      /\ kind' = kind /\ response_length' = response_length /\ handles' = handles
      /\ on_worker' = on_worker /\ gpc' = gpc /\ state' = state
      /\ ids' = ids /\ mask' = mask /\ logprobs' = logprobs
      /\ param_version_start' = param_version_start
      /\ param_version_end' = param_version_end
      /\ request' = request /\ reply' = reply /\ split' = split
      /\ cancellation_event' = cancellation_event /\ server_paused' = server_paused
      /\ requests_sent' = requests_sent /\ request_id_to_server' = request_id_to_server
      /\ partial_rollout' = partial_rollout /\ calls' = calls /\ sample' = sample
      /\ worker_index' = worker_index /\ actor_version' = actor_version /\ tp' = tp
      /\ intruders' = intruders
  BY DEF UpdateParamVersion, generationVars, transferVars, outputs, routing, pauseVars
<1>2. Token' = Token /\ Plan' = Plan
  BY <1>1 DEF Token, Plan
<1>3. intruders = 0 => \A g \in Gens : gpc[g] \in {"waiting", "completed"}
  BY <1>1 DEF GenerationInv, QuietTransfer
<1>4. current_param_version \in 0..current_param_version' /\ current_param_version' \in Nat
  BY <1>1 DEF GenerationInv, UpdateTypes, TransferTypes
<1>5. GenerationTypes'
  BY <1>1, <1>2 DEF GenerationInv, GenerationTypes
<1>6. UpdateTypes'
  BY <1>1, <1>4 DEF GenerationInv, UpdateTypes
<1>7. QuietTransfer'
  BY <1>1 DEF GenerationInv, QuietTransfer
<1>8. ASSUME NEW g \in Gens  PROVE RequestsMatch(g)' /\ VersionsRecorded(g)'
  <2>1. RecordedTokens(g)' = RecordedTokens(g)
    BY <1>1, TokensStay
  <2>2. RequestsMatch(g)'
    BY <1>1 DEF GenerationInv, RequestsMatch
  <2>3. param_version_end[g] \in 0..current_param_version =>
          param_version_end[g] \in 0..current_param_version'
    BY <1>4
  <2>4. intruders' = 0 => gpc'[g] \in {"waiting", "completed"}
    BY <1>1, <1>3
  <2>5. VersionsRecorded(g)'
    BY <1>1, <2>1, <2>3, <2>4 DEF GenerationInv, VersionsRecorded
  <2> QED
    BY <2>2, <2>5
<1> QED
  BY <1>5, <1>6, <1>7, <1>8 DEF GenerationInv

\* How many tasks were made during synchronizations, and how many may be.
LEMMA IntrudersAre ==
  ASSUME PauseTypes
  PROVE  intruders \in Nat /\ MaxIntruders[Options] \in Nat
<1>1. MaxIntruders[Options] \in Nat
  BY IntruderAssumption DEF PauseTypes
<1> QED
  BY <1>1 DEF PauseTypes

(* The rollouter's other steps, the transfer, and the start of both.       *)
LEMMA UpdateKeeps ==
  ASSUME TransferInv, PauseTypes, GenerationInv,
         \/ CreateTask \/ SampleReturns \/ MonitorDecides \/ MonitorUnpauses
         \/ PauseBegins \/ PauseEnds \/ SyncWeights
         \/ ResumeBegins \/ ResumeEnds \/ Transfer \/ Done \/ UNCHANGED vars
  PROVE  GenerationInv'
<1>1. /\ UNCHANGED generationVars /\ current_param_version' = current_param_version
      /\ worker_index' = worker_index /\ partial_rollout' = partial_rollout
      /\ (intruders' = intruders \/ intruders' = intruders + 1)
  BY DEF CreateTask, SampleReturns, MonitorDecides, MonitorUnpauses, PauseBegins,
     PauseEnds, SyncWeights, ResumeBegins, ResumeEnds, Transfer, Done, vars, updateVars,
     pauseVars
<1>0. intruders \in Nat
  BY IntrudersAre
<1>2. intruders' = 0 => intruders = 0
  BY <1>0, <1>1
<1>3. GenerationTypes' /\ \A g \in Gens : RequestsMatch(g)' /\ VersionsRecorded(g)'
  BY <1>1, <1>2, GenerationsStay
<1>4. gpc' = gpc
  BY <1>1 DEF generationVars
<1>5. actor_version \in Nat /\ actor_version' \in {actor_version, actor_version + 1}
      /\ (~SyncWeights => actor_version' = actor_version)
  <2>1. TransferStep => actor_version' = actor_version
    BY DEF TransferStep, StartUpdate, Broadcast, Barrier, FinishUpdate, RegisterCheckpoint,
       LoadInline, ReceiveAck, ConsumerLoads, ConsumerLoaded, DrainConsumer
  <2>2. actor_version \in Nat
    BY DEF TransferInv, TransferTypes
  <2> QED
    BY <2>1, <2>2 DEF CreateTask, SampleReturns, MonitorDecides, MonitorUnpauses,
       PauseBegins, PauseEnds, SyncWeights, StartTransfer,
       ResumeBegins, ResumeEnds, Transfer, Done, vars, transferVars
<1>6. UpdateTypes'
  <2>1. current_param_version \in 0..actor_version'
    BY <1>5 DEF GenerationInv, UpdateTypes
  <2>2. calls' \subseteq Servers \cup WorkerSet
    BY DEF CreateTask, SampleReturns, MonitorDecides, MonitorUnpauses, PauseBegins,
       PauseEnds, SyncWeights, ResumeBegins, ResumeEnds, Transfer, Done, vars, updateVars,
       GenerationInv, UpdateTypes
  <2>3. /\ sample' \in {"queued", "created", "running", "finished"}
        /\ rp' \in {"running", "pausing", "paused", "transfer", "updated", "resuming"}
    BY DEF CreateTask, SampleReturns, MonitorDecides, MonitorUnpauses, PauseBegins,
       PauseEnds, SyncWeights, ResumeBegins, ResumeEnds, Transfer, Done, vars, updateVars,
       GenerationInv, UpdateTypes
  <2> QED
    BY <1>1, <2>1, <2>2, <2>3 DEF GenerationInv, UpdateTypes
<1>7. QuietTransfer'
  <2>1. CASE Transfer
    <3>1. sample' = sample /\ rp' = rp
      BY <2>1 DEF Transfer, updateVars
    <3>2. rp # "transfer" => /\ \A r \in RolloutRanks : tp'[r] = "idle"
                             /\ actor_version' = actor_version
      <4>1. actor_version' = actor_version
        BY <2>1, <1>5, <3>1 DEF SyncWeights, Transfer, updateVars, GenerationInv, UpdateTypes
      <4> QED
        BY <2>1, <4>1, IdleStays DEF Transfer, GenerationInv, QuietTransfer
    <3> QED
      BY <1>1, <1>2, <1>4, <3>1, <3>2 DEF GenerationInv, QuietTransfer
  <2>2. CASE SyncWeights
    BY <1>2, <1>4, <2>2 DEF SyncWeights, GenerationInv, QuietTransfer
  <2>3. CASE \/ CreateTask \/ SampleReturns \/ MonitorDecides \/ MonitorUnpauses
             \/ PauseBegins \/ PauseEnds
             \/ ResumeBegins \/ ResumeEnds \/ Done \/ UNCHANGED vars
    <3>1. tp' = tp /\ actor_version' = actor_version
      BY <2>3 DEF CreateTask, SampleReturns, MonitorDecides, MonitorUnpauses,
         PauseBegins, PauseEnds, ResumeBegins, ResumeEnds, Done, vars, transferVars
    <3>2. \/ sample' = sample /\ rp' = rp
          \/ /\ sample = "queued" /\ sample' = "created" /\ rp' = rp
             /\ rp = "running" \/ intruders' # 0
          \/ /\ sample' \in {"queued", "finished"} /\ rp' = rp
             /\ \A g \in Gens : gpc[g] \in {"waiting", "completed"}
          \/ sample' = sample /\ rp = "running" /\ rp' = "pausing"
          \/ sample' = sample /\ sample \notin {"created", "running"} /\ rp = "pausing" /\ rp' = "paused"
          \/ sample' = sample /\ rp \in {"updated", "resuming"} /\ rp' \in {"resuming", "running"}
      <4>1. intruders + 1 # 0
        BY <1>0
      <4> QED
        BY <2>3, <4>1 DEF CreateTask, SampleReturns, MonitorDecides, MonitorUnpauses,
           PauseBegins, PauseEnds, ResumeBegins, ResumeEnds, Done, vars, updateVars
    <3> QED
      BY <1>1, <1>2, <1>4, <3>1, <3>2 DEF GenerationInv, QuietTransfer
  <2> QED
    BY <2>1, <2>2, <2>3
<1> QED
  BY <1>3, <1>6, <1>7 DEF GenerationInv

(* The options are those of the start.                                     *)
LEMMA OptionsStay ==
  ASSUME [Next]_vars
  PROVE  Options' = Options
<1>1. TransferStep \/ StartTransfer => mode' = mode /\ weights_info' = weights_info
  BY DEF TransferStep, StartTransfer, StartUpdate, Broadcast, Barrier, FinishUpdate,
     RegisterCheckpoint, LoadInline, ReceiveAck, ConsumerLoads, ConsumerLoaded,
     DrainConsumer, settings
<1>2. \A g \in Gens : GenerationStep(g) => kind' = kind /\ response_length' = response_length
  BY DEF GenerationStep, Interrupted, Terminated, Pending, CallServer, ServerAccepts,
     EngineToken, ServerReplies, SingleTurnAnswered, ToolAgentAnswered, CallTool,
     ToolReturns, Scored
<1>3. CASE Processor \/ MonitorDecides \/ MonitorUnpauses \/ PauseBegins
  BY <1>3 DEF Processor, CreateTask, SubmitSample, SampleReturns, MonitorDecides,
     MonitorUnpauses, PauseBegins, StartRuns, transferVars, generationVars, settings, Options
<1>4. CASE Synchronizer
  BY <1>1, <1>4 DEF Synchronizer, PauseEnds, SyncWeights, UpdateParamVersion, ResumeBegins,
     ResumeEnds, ServeCancel, ServeResume, CancelServer, CancelAgentLoops, ResumeServer,
     ResumeAgentLoops, transferVars, generationVars, settings, Options
<1>5. CASE Transfer \/ (\E g \in Gens : Generation(g)) \/ Done \/ UNCHANGED vars
  BY <1>1, <1>2, <1>5 DEF Transfer, Generation, Done, vars, transferVars, generationVars,
     updateVars, settings, Options
<1> QED
  BY <1>3, <1>4, <1>5 DEF Next

(* The flags of the pause, and the bound of the intruders.                 *)
LEMMA PauseTypesNext ==
  ASSUME PauseTypes, [Next]_vars
  PROVE  PauseTypes'
<1>1. Options' = Options
  BY OptionsStay
<1>2. CASE CreateTask
  <2>1. /\ rp # "running" => intruders < MaxIntruders[Options]
        /\ intruders' = (IF rp = "running" THEN intruders ELSE intruders + 1)
        /\ paused' = paused /\ unpausing' = unpausing
    BY <1>2 DEF CreateTask
  <2>2. intruders \in 0..MaxIntruders[Options] /\ MaxIntruders[Options] \in Nat
    BY IntrudersAre DEF PauseTypes
  <2>3. intruders' \in 0..MaxIntruders[Options]
    BY <2>1, <2>2
  <2> QED
    BY <1>1, <2>1, <2>3 DEF PauseTypes
<1>3. CASE SubmitSample \/ SampleReturns \/ MonitorDecides \/ MonitorUnpauses
  BY <1>1, <1>3 DEF SubmitSample, SampleReturns, MonitorDecides, MonitorUnpauses, pauseVars,
     PauseTypes
<1>4. CASE Synchronizer \/ PauseBegins
  BY <1>1, <1>4 DEF Synchronizer, PauseBegins, PauseEnds, SyncWeights, UpdateParamVersion,
     ResumeBegins, ResumeEnds, ServeCancel, ServeResume, pauseVars, PauseTypes
<1>5. CASE Transfer \/ (\E g \in Gens : Generation(g)) \/ Done \/ UNCHANGED vars
  BY <1>1, <1>5 DEF Transfer, Generation, Done, vars, updateVars, pauseVars, PauseTypes
<1> QED
  BY <1>2, <1>3, <1>4, <1>5 DEF Next, Processor

(* The invariant at the start: nothing is generated or recorded.           *)
LEMMA GenerationInitInv ==
  ASSUME Init
  PROVE  GenerationInv
<1>1. /\ <<>> \in Seq(Token) /\ <<>> \in Seq({0, 1}) /\ <<>> \in Seq(1..Len(Plan))
      /\ \A g \in Gens : <<>> \in Seq(RecordedTokens(g))
  BY EmptySeq
<1>2. Workers[1] \in WorkerSet /\ 1 \in 1..Len(Workers)
  <2>1. Workers \in Seq(WorkerSet) /\ Workers # <<>>
    BY GenerationAssumption
  <2>2. 1 \in 1..Len(Workers)
    BY <2>1, EmptySeq, LenProperties
  <2> QED
    BY <2>1, <2>2, ElementOfSeq
<1>3. /\ NoRequest \in [server : Servers \cup {NoServer}, tokens : Seq(Token),
                        finished : BOOLEAN, stop : BOOLEAN]
      /\ NoReply \in [tokens : Seq(Token), is_cancel : BOOLEAN]
      /\ NoRequest.tokens = <<>> /\ NoReply.tokens = <<>>
  BY <1>1 DEF NoRequest, NoReply
<1>4. -1 \in -1..MaxVersion
  BY TransferAssumption
<1>5. GenerationTypes
  BY <1>1, <1>2, <1>3, <1>4 DEF Init, GenerationInit, GenerationTypes
<1>6. UpdateTypes
  BY <1>2 DEF Init, TransferInit, UpdateTypes
<1>7. QuietTransfer
  BY RanksExist DEF Init, TransferInit, GenerationInit, QuietTransfer
<1>8. ASSUME NEW g \in Gens  PROVE RequestsMatch(g) /\ VersionsRecorded(g)
  BY <1>1, <1>3 DEF Init, GenerationInit, RequestsMatch, VersionsRecorded
<1> QED
  BY <1>5, <1>6, <1>7, <1>8 DEF GenerationInv

(* Every step of the synchronization keeps the invariant.                  *)
LEMMA GenerationNextInv ==
  ASSUME TransferInv, PauseTypes, GenerationInv, [Next]_vars
  PROVE  GenerationInv'
<1>1. EveryParameterArrives /\ TransferTypes
  BY ArrivalFollows DEF TransferInv
<1>2. CASE SubmitSample
  BY <1>1, <1>2, SubmitSampleKeeps
<1>3. CASE UpdateParamVersion
  BY <1>1, <1>3, UpdateParamVersionKeeps
<1>4. CASE \E x \in Servers \cup WorkerSet : ServeCancel(x) \/ ServeResume(x)
  BY <1>4, CallsKeep
<1>5. CASE \E g \in Gens : Generation(g)
  BY <1>1, <1>5, GenerationKeeps
<1>6. CASE \/ CreateTask \/ SampleReturns \/ MonitorDecides \/ MonitorUnpauses
           \/ PauseBegins \/ PauseEnds \/ SyncWeights
           \/ ResumeBegins \/ ResumeEnds \/ Transfer \/ Done \/ UNCHANGED vars
  BY <1>6, UpdateKeeps
<1> QED
  BY <1>2, <1>3, <1>4, <1>5, <1>6 DEF Next, Processor, Synchronizer

UpdateInv == TransferInv /\ PauseTypes /\ GenerationInv

(* The invariants of the synchronization hold throughout.                  *)
LEMMA GenerationInvHolds == Spec => []UpdateInv
<1>1. Init => UpdateInv
  <2>1. Init => PauseTypes
    <3>1. \A s \in Setups : 0 \in 0..MaxIntruders[s]
      BY IntruderAssumption
    <3>2. Init => /\ paused = FALSE /\ unpausing = FALSE /\ intruders = 0
                  /\ Options \in Setups
      BY Zenon DEF Init
    <3> QED
      BY <3>1, <3>2 DEF PauseTypes
  <2>2. Init => TransferInv /\ GenerationInv
    BY TransferInitInv, GenerationInitInv, PlanHolds DEF Init
  <2> QED
    BY <2>1, <2>2 DEF UpdateInv
<1>2. UpdateInv /\ [Next]_vars => UpdateInv'
  BY TransferNextInv, UpdateTransfers, PauseTypesNext, GenerationNextInv DEF UpdateInv
<1> QED
  BY <1>1, <1>2, PTL DEF Spec

(* Recorded tokens with a version have one of those recorded.              *)
LEMMA RecordedFollows ==
  ASSUME GenerationInv
  PROVE  TokensOfRecordedVersions
<1> SUFFICES ASSUME NEW g \in Gens, NEW k \in DOMAIN ids[g], ids[g][k].versions # {}
             PROVE  /\ \E v \in 0..MaxVersion : ids[g][k].versions = {v}
                    /\ intruders = 0 =>
                         \E v \in param_version_start[g]..param_version_end[g] :
                           ids[g][k].versions = {v}
  BY DEF TokensOfRecordedVersions
<1>1. ids[g] \in Seq(RecordedTokens(g))
  BY DEF GenerationInv, VersionsRecorded
<1>2. ids[g][k] \in RecordedTokens(g)
  BY <1>1, LenProperties, ElementOfSeq
<1> QED
  BY <1>2 DEF RecordedTokens

(* The types that the runs check are parts of both invariants.             *)
LEMMA TypesFollow ==
  ASSUME UpdateInv
  PROVE  TypeOK
<1>1. TransferTypeOK
  BY TransferTypesFollow DEF UpdateInv
<1>2. current_param_version \in 0..MaxVersion
  BY TransferAssumption DEF UpdateInv, TransferInv, TransferTypes, GenerationInv,
     UpdateTypes
<1> QED
  BY <1>1, <1>2 DEF TypeOK, UpdateInv, PauseTypes, GenerationInv, GenerationTypes, UpdateTypes, Token

(* Every token that a generation has was computed with the weights of one  *)
(* version: a rank's event loop has no time for a token from the first     *)
(* parameter that it loads to the last.  And the version is one that is    *)
(* recorded with the tokens, unless a task was made during a               *)
(* synchronization, which the monitor can bring about: pause() waits for   *)
(* the active tasks, and a generation that goes on later records the       *)
(* version it goes on with (pause, sync_weights, generate_for_partial).    *)
THEOREM TokensAreRecorded == Spec => []TokensOfRecordedVersions
<1>1. UpdateInv => TokensOfRecordedVersions
  BY RecordedFollows DEF UpdateInv
<1> QED
  BY <1>1, GenerationInvHolds, PTL

(* The type invariant of the synchronization: among its parts, no token    *)
(* beyond the plan, and no request on what is not a server.                *)
THEOREM UpdateIsTyped == Spec => []TypeOK
BY GenerationInvHolds, TypesFollow, PTL

(* The plan: its length and tokens, of which no single turn has a tool's.  *)
LEMMA PlanIs ==
  ASSUME GenerationTypes
  PROVE  /\ Plan \in Seq({"text", "open", "close", "end", "tool"}) /\ Len(Plan) \in Nat
         /\ kind \in {"single", "tool"} /\ response_length \in Nat \ {0}
         /\ \A k \in 1..Len(Plan) :
              /\ Plan[k] = "end" => k = Len(Plan)
              /\ Plan[k] = "close" => kind = "tool" /\ \E j \in 1..k - 1 : Plan[j] = "open"
              /\ Plan[k] = "tool" => kind = "tool" /\ k > 1 /\ Plan[k - 1] \in {"close", "tool"}
<1>1. kind \in Kinds /\ response_length \in ResponseLengths
  BY DEF GenerationTypes
<1>2. Plan \in Seq({"text", "open", "close", "end", "tool"})
  BY <1>1, GenerationAssumption DEF Plan
<1> QED
  BY <1>1, <1>2, GenerationAssumption, ScriptAssumption, LenProperties DEF Plan

(* A beginning grows by what comes next.                                   *)
LEMMA BeginningGrows ==
  ASSUME NEW i \in Seq(Token), NEW Bits, NEW m \in Seq(Bits), NEW l \in Seq(1..Len(Plan)),
         Beginning(i, m, l),
         NEW new \in Seq(Token), NEW o \in Seq(Bits), Len(o) = Len(new),
         \A k \in 1..Len(new) :
           /\ new[k].pos = Len(i) + k
           /\ o[k] = IF Plan[Len(i) + k] = "tool" THEN 0 ELSE 1
  PROVE  Beginning(i \o new, m \o o, l \o Positions(new))
<1> DEFINE p == Positions(new)
<1>1. p \in Seq(1..Len(Plan)) /\ Len(p) = Len(new) /\ \A k \in 1..Len(new) : p[k] = new[k].pos
  BY PositionsOf
<1> HIDE DEF p
<1>2. PICK n \in Nat, d \in Nat : n = Len(i) /\ d = Len(new)
  BY LenProperties
<1>3. Len(m) = n /\ Len(l) = n /\ Len(o) = d /\ Len(p) = d
  BY <1>1, <1>2 DEF Beginning
<1>4. /\ Len(i \o new) = n + d /\ Len(m \o o) = n + d /\ Len(l \o p) = n + d
      /\ \A k \in 1..n + d :
           /\ (i \o new)[k] = IF k <= n THEN i[k] ELSE new[k - n]
           /\ (m \o o)[k] = IF k <= n THEN m[k] ELSE o[k - n]
           /\ (l \o p)[k] = IF k <= n THEN l[k] ELSE p[k - n]
  <2>1. Len(i \o new) = n + d /\ \A k \in 1..n + d :
          (i \o new)[k] = IF k <= n THEN i[k] ELSE new[k - n]
    BY <1>2, ConcatProperties
  <2>2. Len(m \o o) = n + d /\ \A k \in 1..n + d :
          (m \o o)[k] = IF k <= n THEN m[k] ELSE o[k - n]
    BY <1>3, ConcatProperties
  <2>3. Len(l \o p) = n + d /\ \A k \in 1..n + d :
          (l \o p)[k] = IF k <= n THEN l[k] ELSE p[k - n]
    <3>1. PICK T : T = 1..Len(Plan)
      OBVIOUS
    <3>2. l \in Seq(T) /\ p \in Seq(T)
      BY <1>1, <3>1
    <3>3. PICK q : q = p
      OBVIOUS
    <3>4. /\ Len(l \o q) = Len(l) + Len(q)
          /\ \A k \in 1..Len(l) + Len(q) :
               (l \o q)[k] = IF k <= Len(l) THEN l[k] ELSE q[k - Len(l)]
      BY <3>2, <3>3, ConcatProperties
    <3> QED
      BY <1>3, <3>3, <3>4
  <2> QED
    BY <2>1, <2>2, <2>3
<1>5. ASSUME NEW k \in 1..n + d
      PROVE  /\ (i \o new)[k].pos = k /\ (l \o p)[k] = k
             /\ (m \o o)[k] = IF Plan[k] = "tool" THEN 0 ELSE 1
  <2>1. CASE k <= n
    <3>1. k \in 1..n
      BY <2>1
    <3>2. i[k].pos = k /\ l[k] = k /\ m[k] = IF Plan[k] = "tool" THEN 0 ELSE 1
      BY <1>2, <3>1 DEF Beginning
    <3> QED
      BY <1>4, <2>1, <3>2
  <2>2. CASE ~(k <= n)
    <3>1. PICK j \in 1..d : j = k - n /\ n + j = k
      BY <2>2
    <3>2. /\ new[j].pos = n + j /\ p[j] = n + j
          /\ o[j] = IF Plan[n + j] = "tool" THEN 0 ELSE 1
      BY <1>1, <1>2, <3>1
    <3> QED
      BY <1>4, <2>2, <3>1, <3>2
  <2> QED
    BY <2>1, <2>2
<1>6. Beginning(i \o new, m \o o, l \o p)
  BY <1>4, <1>5 DEF Beginning
<1> QED
  BY <1>6 DEF p

(* A beginning that is cut is one.                                         *)
LEMMA BeginningCut ==
  ASSUME NEW i \in Seq(Token), NEW Bits, NEW m \in Seq(Bits), NEW l \in Seq(1..Len(Plan)),
         Beginning(i, m, l), NEW n \in Nat
  PROVE  Beginning(Prefix(i, n), Prefix(m, n), Prefix(l, n))
<1>1. Len(m) = Len(i) /\ Len(l) = Len(i)
  BY DEF Beginning
<1>2. /\ Len(Prefix(i, n)) = IF Len(i) < n THEN Len(i) ELSE n
      /\ \A k \in 1..Len(Prefix(i, n)) : k \in 1..Len(i) /\ Prefix(i, n)[k] = i[k]
  BY PrefixProperties
<1>3. /\ Len(Prefix(m, n)) = IF Len(i) < n THEN Len(i) ELSE n
      /\ \A k \in 1..Len(Prefix(m, n)) : Prefix(m, n)[k] = m[k]
  BY <1>1, PrefixProperties
<1>4. /\ Len(Prefix(l, n)) = IF Len(i) < n THEN Len(i) ELSE n
      /\ \A k \in 1..Len(Prefix(l, n)) : Prefix(l, n)[k] = l[k]
  BY <1>1, PrefixProperties
<1> QED
  BY <1>2, <1>3, <1>4 DEF Beginning

(* What is said of g depends on its part of the state only.                *)
LEMMA ResumptionStays ==
  ASSUME NEW g, ResumesRight(g), kind' = kind, response_length' = response_length,
         ids'[g] = ids[g], mask'[g] = mask[g], logprobs'[g] = logprobs[g],
         request'[g].tokens = request[g].tokens, request'[g].finished = request[g].finished,
         reply'[g] = reply[g]
  PROVE  /\ Plan' = Plan
         /\ Beginning(ids[g], mask[g], logprobs[g])'
         /\ (gpc'[g] = "answered" => gpc[g] = "answered") => AnswersFit(g)'
         /\ gpc'[g] = gpc[g] /\ state'[g] = state[g] /\ split'[g] = split[g] => StopsRight(g)'
<1>1. Plan' = Plan
  BY DEF Plan
<1>2. Beginning(ids[g], mask[g], logprobs[g])'
  BY <1>1 DEF ResumesRight, Beginning
<1>3. (gpc'[g] = "answered" => gpc[g] = "answered") => AnswersFit(g)'
  BY <1>1 DEF ResumesRight, AnswersFit, Continues, Ends
<1>4. gpc'[g] = gpc[g] /\ state'[g] = state[g] /\ split'[g] = split[g] => StopsRight(g)'
  BY <1>1 DEF ResumesRight, StopsRight, ModelIsNext, Whole, ToolResponse
<1> QED
  BY <1>1, <1>2, <1>3, <1>4

(* Where nothing is asked or answered, nothing has to fit.                 *)
LEMMA NothingFits ==
  ASSUME NEW g, request'[g].tokens = <<>>, ~request'[g].finished, reply'[g].tokens = <<>>,
         gpc'[g] = "answered" => reply'[g].is_cancel
  PROVE  AnswersFit(g)'
<1>1. \A k \in 1..Len(<<>>) : FALSE
  OBVIOUS
<1>2. \A k \in 1..Len(<<>>) - 1 : FALSE
  OBVIOUS
<1> QED
  BY <1>1, <1>2 DEF AnswersFit, Continues, Ends

(* Steps that leave the tokens of g alone, and its request.                *)
LEMMA QuietStepResumes ==
  ASSUME GenerationInv, NEW g \in Gens, ResumesRight(g),
         Interrupted(g) \/ Pending(g) \/ CallTool(g) \/ Scored(g)
  PROVE  ResumesRight(g)'
<1>1. /\ kind' = kind /\ response_length' = response_length
      /\ ids' = ids /\ mask' = mask /\ logprobs' = logprobs
      /\ request' = request /\ reply' = reply /\ split' = split
  BY DEF Interrupted, Pending, CallTool, Scored, outputs
<1>2. gpc \in [Gens -> {"waiting", "loop", "called", "running", "answered",
                        "tools", "scoring", "completed"}]
      /\ state \in [Gens -> {"PENDING", "GENERATING", "PROCESSING_TOOLS", "TERMINATED"}]
  BY DEF GenerationInv, GenerationTypes
<1>3. \/ /\ kind = "tool" /\ gpc[g] = "loop" /\ gpc'[g] = "waiting" /\ state'[g] = state[g]
      \/ /\ kind = "tool" /\ gpc[g] = "loop" /\ gpc'[g] = gpc[g]
         /\ state[g] = "PENDING" /\ state'[g] = "GENERATING"
      \/ /\ kind = "tool" /\ gpc[g] = "loop" /\ gpc'[g] = "tools"
         /\ state[g] = "PROCESSING_TOOLS" /\ state'[g] = state[g]
      \/ gpc[g] = "scoring" /\ gpc'[g] = "completed" /\ state'[g] = state[g]
  BY <1>2 DEF Interrupted, Pending, CallTool, Scored, outputs, MayContinue
<1>4. /\ Plan' = Plan /\ Beginning(ids[g], mask[g], logprobs[g])' /\ AnswersFit(g)'
  BY <1>1, <1>3, ResumptionStays
<1>5. \A n : ModelIsNext(n)' = ModelIsNext(n) /\ Whole(n)' = Whole(n)
  BY <1>1, <1>4 DEF ModelIsNext, Whole, ToolResponse
<1>6. StopsRight(g)'
  BY <1>1, <1>3, <1>5 DEF ResumesRight, StopsRight
<1> QED
  BY <1>4, <1>6 DEF ResumesRight

(* Terminated: what is cut off is beyond response_length.                  *)
LEMMA TerminatedResumes ==
  ASSUME GenerationInv, NEW g \in Gens, ResumesRight(g), Terminated(g)
  PROVE  ResumesRight(g)'
<1>1. /\ kind' = kind /\ response_length' = response_length /\ state' = state
      /\ request' = request /\ reply' = reply /\ split' = split
      /\ gpc[g] = "loop" /\ kind = "tool" /\ state[g] = "TERMINATED" /\ gpc'[g] = "scoring"
      /\ ids'[g] = Prefix(ids[g], response_length)
      /\ mask'[g] = Prefix(mask[g], response_length)
      /\ logprobs'[g] = Prefix(logprobs[g], response_length)
  BY DEF Terminated, GenerationInv, GenerationTypes
<1>2. Plan' = Plan /\ response_length \in Nat /\ Len(ids[g]) \in Nat
  BY <1>1, PlanIs, LenProperties DEF Plan, GenerationInv, GenerationTypes
<1>3. Beginning(ids[g], mask[g], logprobs[g])'
  <2>1. Beginning(Prefix(ids[g], response_length), Prefix(mask[g], response_length),
                  Prefix(logprobs[g], response_length))
    BY <1>2, BeginningCut DEF ResumesRight, GenerationInv, GenerationTypes
  <2> QED
    BY <1>1, <1>2, <2>1 DEF Beginning
<1>4. AnswersFit(g)'
  <2>1. request'[g] = NoRequest /\ reply'[g] = NoReply
    BY <1>1 DEF GenerationInv, RequestsMatch
  <2> QED
    BY <1>1, <2>1, NothingFits DEF NoRequest, NoReply
<1>5. Len(ids'[g]) = IF Len(ids[g]) < response_length THEN Len(ids[g]) ELSE response_length
  BY <1>1, <1>2, PrefixProperties DEF GenerationInv, GenerationTypes
<1>6. StopsRight(g)'
  <2>1. \A n : Whole(n)' = Whole(n)
    BY <1>1, <1>2 DEF Whole, ToolResponse
  <2>2. ~split[g] => Whole(Len(ids[g]))
    BY <1>1 DEF ResumesRight, StopsRight
  <2>3. Len(ids'[g]) <= response_length
    BY <1>2, <1>5
  <2>4. Whole(Len(ids[g])) => Whole(Len(ids'[g]))
    <3>1. CASE Len(ids[g]) < response_length
      BY <1>5, <3>1
    <3>2. CASE ~(Len(ids[g]) < response_length)
      BY <1>2, <1>5, <3>2 DEF Whole
    <3> QED
      BY <3>1, <3>2
  <2> QED
    BY <1>1, <2>1, <2>2, <2>3, <2>4 DEF StopsRight
<1> QED
  BY <1>3, <1>4, <1>6 DEF ResumesRight

(* CallServer, and the server's answers.                                   *)
LEMMA ServerResumes ==
  ASSUME GenerationInv, NEW g \in Gens, ResumesRight(g),
         CallServer(g) \/ ServerAccepts(g) \/ ServerReplies(g)
  PROVE  ResumesRight(g)'
<1>1. /\ kind' = kind /\ response_length' = response_length /\ state' = state
      /\ ids' = ids /\ mask' = mask /\ logprobs' = logprobs /\ split' = split
  BY DEF CallServer, ServerAccepts, ServerReplies, outputs
<1>2. Plan' = Plan
  BY <1>1 DEF Plan
<1>3. Beginning(ids[g], mask[g], logprobs[g])'
  BY <1>1, <1>2 DEF ResumesRight, Beginning
<1>4. /\ gpc[g] \in {"loop", "called", "running"}
      /\ gpc'[g] \in {"called", "running", "answered"}
      /\ gpc[g] = "loop" /\ kind = "tool" => state[g] = "GENERATING"
  BY DEF CallServer, ServerAccepts, ServerReplies, MayContinue, GenerationInv, GenerationTypes
<1>5. StopsRight(g)'
  <2>1. \A n : ModelIsNext(n)' = ModelIsNext(n)
    BY <1>2 DEF ModelIsNext
  <2> QED
    BY <1>1, <1>4, <2>1 DEF ResumesRight, StopsRight
<1>6. AnswersFit(g)'
  <2> DEFINE n == Len(ids[g])
  <2>1. CASE CallServer(g)
    <3>1. gpc[g] = "loop" /\ reply[g] = NoReply /\ reply' = reply
      BY <2>1 DEF CallServer, MayContinue, GenerationInv, RequestsMatch
    <3>2. gpc'[g] = "called" /\ request'[g].tokens = <<>> /\ ~request'[g].finished
      BY <2>1 DEF CallServer, NoRequest, GenerationInv, GenerationTypes
    <3> QED
      BY <3>1, <3>2, NothingFits DEF NoReply
  <2>2. CASE ServerAccepts(g)
    <3>1. /\ request' = request /\ request[g].tokens = <<>> /\ ~request[g].finished
          /\ reply[g] = NoReply
      BY <2>2 DEF ServerAccepts, GenerationInv, RequestsMatch
    <3>2. \/ gpc'[g] = "running" /\ reply' = reply
          \/ reply'[g] = [tokens |-> <<>>, is_cancel |-> TRUE]
      BY <2>2 DEF ServerAccepts, GenerationInv, GenerationTypes
    <3> QED
      BY <3>1, <3>2, NothingFits DEF NoReply
  <2>3. CASE ServerReplies(g)
    <3>1. /\ request' = request /\ gpc[g] = "running"
          /\ reply'[g] = [tokens |-> request[g].tokens, is_cancel |-> ~request[g].finished]
      BY <2>3 DEF ServerReplies, GenerationInv, GenerationTypes
    <3>2. reply'[g].tokens = request[g].tokens /\ reply'[g].is_cancel = ~request[g].finished
      BY <3>1
    <3>3. /\ Continues(n, request[g].tokens)
          /\ request[g].finished <=> Ends(n, request[g].tokens)
      BY DEF ResumesRight, AnswersFit
    <3> QED
      BY <1>1, <1>2, <3>1, <3>2, <3>3 DEF AnswersFit, Continues, Ends
  <2> QED
    BY <2>1, <2>2, <2>3
<1> QED
  BY <1>3, <1>5, <1>6 DEF ResumesRight

(* EngineToken: the next token of the plan is the model's, since after a   *)
(* call or an end the request is finished.                                 *)
LEMMA EngineTokenResumes ==
  ASSUME GenerationInv, NEW g \in Gens, ResumesRight(g), EngineToken(g)
  PROVE  ResumesRight(g)'
<1> DEFINE t == request[g].tokens
           pos == Len(ids[g]) + Len(t) + 1
           tok == [pos |-> pos, versions |-> {model[request[g].server][p] : p \in Params}]
<1>1. /\ kind' = kind /\ response_length' = response_length /\ state' = state /\ gpc' = gpc
      /\ ids' = ids /\ mask' = mask /\ logprobs' = logprobs /\ split' = split
      /\ reply' = reply /\ gpc[g] = "running" /\ ~request[g].finished /\ pos <= Len(Plan)
  BY DEF EngineToken, outputs
<1>2. /\ request'[g].tokens = Append(t, tok)
      /\ request'[g].finished = (Plan[pos] \in {"close", "end"})
  <2> DEFINE longer == Append(t, tok)
             done == Plan[pos] \in {"close", "end"}
             R == [server : Servers \cup {NoServer}, tokens : Seq(Token),
                   finished : BOOLEAN, stop : BOOLEAN]
  <2>1. request' = [request EXCEPT ![g] = [request[g] EXCEPT !.tokens = longer,
                                                             !.finished = done]]
    BY DEF EngineToken
  <2>2. request \in [Gens -> R] /\ request[g] \in R
    BY DEF GenerationInv, GenerationTypes
  <2> HIDE DEF longer, done
  <2>3. request'[g].tokens = longer /\ request'[g].finished = done
    BY <2>1, <2>2
  <2> QED
    BY <2>3 DEF longer, done
<1>3. Plan' = Plan
  BY <1>1 DEF Plan
<1>4. /\ t \in Seq(Token) /\ ids[g] \in Seq(Token)
      /\ Continues(Len(ids[g]), t) /\ ~Ends(Len(ids[g]), t)
  BY <1>1 DEF GenerationInv, GenerationTypes, ResumesRight, AnswersFit
<1>5. PICK n \in Nat, d \in Nat, L \in Nat :
        n = Len(ids[g]) /\ d = Len(t) /\ L = Len(Plan)
  BY <1>4, PlanIs, LenProperties DEF GenerationInv
<1>6. pos = n + d + 1 /\ n + d + 1 \in 1..L
  <2>1. pos = n + d + 1 /\ n + d + 1 <= L
    BY <1>1, <1>5
  <2> HIDE DEF pos
  <2>2. n + d + 1 \in 1..L
    BY <2>1
  <2> QED
    BY <2>1, <2>2
<1>7. Plan[n + d + 1] # "tool"
  <2> SUFFICES ASSUME Plan[n + d + 1] = "tool"  PROVE FALSE
    OBVIOUS
  <2>1. PICK m \in 1..L : m = n + d + 1 /\ m - 1 = n + d
    BY <1>6
  <2>2. kind = "tool" /\ Plan[n + d] \in {"close", "tool"}
    BY <1>5, <2>1, PlanIs DEF GenerationInv
  <2>3. CASE d = 0
    <3>1. ModelIsNext(n)
      BY <1>1, <1>5, <2>2 DEF ResumesRight, StopsRight
    <3>2. n < L /\ n + d + 1 = n + 1
      BY <1>6, <2>3
    <3> QED
      BY <1>5, <3>1, <3>2 DEF ModelIsNext
  <2>4. CASE d # 0
    <3>1. d \in 1..Len(t) /\ t # <<>>
      BY <1>5, <2>4, EmptySeq
    <3>2. Plan[n + d] # "tool"
      BY <1>4, <1>5, <3>1 DEF Continues
    <3>3. Plan[n + d] \notin {"close", "end"}
      BY <1>4, <1>5, <3>1 DEF Ends
    <3> QED
      BY <2>2, <3>2, <3>3
  <2> QED
    BY <2>3, <2>4
<1> DEFINE longer == Append(t, tok)
<1>8. /\ Len(longer) = d + 1 /\ longer # <<>>
      /\ \A k \in 1..d : longer[k] = t[k]
      /\ longer[d + 1] = tok
  <2> HIDE DEF tok, t
  <2>1. Len(Append(t, tok)) = d + 1 /\ Append(t, tok)[d + 1] = tok
        /\ \A k \in 1..d : Append(t, tok)[k] = t[k]
    <3>1. PICK S : S = Token \cup {tok}
      OBVIOUS
    <3>2. t \in Seq(S) /\ tok \in S
      BY <1>4, <3>1, SeqMonotonic
    <3> QED
      BY <1>5, <3>2, AppendProperties
  <2>2. Len(longer) = d + 1
    BY <2>1
  <2>3. longer # <<>>
    <3> HIDE DEF longer
    <3> QED
      BY <2>2, EmptySeq
  <2> QED
    BY <2>1, <2>3
<1>9. tok.pos = n + d + 1
  BY <1>6
<1> HIDE DEF tok, longer, pos
<1>10. Continues(n, longer)
  <2>1. ASSUME NEW k \in 1..d + 1
        PROVE  longer[k].pos = n + k /\ Plan[n + k] # "tool"
    <3>1. CASE k \in 1..d
      BY <1>4, <1>5, <1>8, <3>1 DEF Continues
    <3>2. CASE k = d + 1
      <4>1. n + k = n + d + 1
        BY <3>2
      <4> QED
        BY <1>7, <1>8, <1>9, <3>2, <4>1
    <3> QED
      BY <3>1, <3>2
  <2>2. ASSUME NEW k \in 1..d
        PROVE  Plan[n + k] \notin {"close", "end"}
    <3>1. CASE k \in 1..d - 1
      BY <1>4, <1>5, <3>1 DEF Continues
    <3>2. CASE k = d
      <4>1. t # <<>>
        BY <1>5, <3>2, EmptySeq
      <4> QED
        BY <1>4, <1>5, <3>2, <4>1 DEF Ends
    <3> QED
      BY <3>1, <3>2
  <2>3. Len(longer) - 1 = d
    BY <1>8
  <2> QED
    BY <1>8, <2>1, <2>2, <2>3 DEF Continues
<1>11. Ends(n, longer) <=> Plan[n + d + 1] \in {"close", "end"}
  <2>1. n + Len(longer) = n + d + 1
    BY <1>8
  <2> QED
    BY <1>8, <2>1 DEF Ends
<1>12. AnswersFit(g)'
  <2>1. request'[g].tokens = longer /\ request'[g].finished = (Plan[n + d + 1] \in {"close", "end"})
    BY <1>2, <1>6 DEF longer, pos
  <2>2. Continues(n, request'[g].tokens) /\ (request'[g].finished <=> Ends(n, request'[g].tokens))
    BY <1>10, <1>11, <2>1
  <2>3. Continues(n, request[g].tokens)' /\ (request'[g].finished <=> Ends(n, request[g].tokens)')
    BY <1>3, <2>2 DEF Continues, Ends
  <2>4. reply'[g] = reply[g] /\ Continues(Len(ids[g]), reply[g].tokens)'
    BY <1>1, <1>3 DEF ResumesRight, AnswersFit, Continues
  <2> QED
    BY <1>1, <1>5, <2>3, <2>4 DEF AnswersFit
<1>13. Beginning(ids[g], mask[g], logprobs[g])'
  BY <1>1, <1>3 DEF ResumesRight, Beginning
<1>14. StopsRight(g)'
  BY <1>1, <1>3 DEF ResumesRight, StopsRight, ModelIsNext, Whole, ToolResponse
<1> QED
  BY <1>12, <1>13, <1>14 DEF ResumesRight

(* What a server answered goes on from the tokens of g.                    *)
LEMMA AnswerGrows ==
  ASSUME GenerationInv, NEW g \in Gens, ResumesRight(g)
  PROVE  LET new == reply[g].tokens IN
         /\ Beginning(ids[g] \o new, mask[g] \o Ones(Len(new)), logprobs[g] \o Positions(new))
         /\ ids[g] \o new \in Seq(Token) /\ Len(ids[g] \o new) = Len(ids[g]) + Len(new)
         /\ Len(ids[g]) \in Nat /\ Len(new) \in Nat /\ Len(mask[g]) = Len(ids[g])
         /\ mask[g] \o Ones(Len(new)) \in Seq({0, 1})
         /\ logprobs[g] \o Positions(new) \in Seq(1..Len(Plan))
<1> DEFINE new == reply[g].tokens
<1>1. /\ new \in Seq(Token) /\ ids[g] \in Seq(Token) /\ Len(new) \in Nat /\ Len(ids[g]) \in Nat
      /\ mask[g] \in Seq({0, 1}) /\ logprobs[g] \in Seq(1..Len(Plan))
  BY LenProperties DEF GenerationInv, GenerationTypes
<1>2. /\ Ones(Len(new)) \in Seq({0, 1}) /\ Len(Ones(Len(new))) = Len(new)
      /\ \A k \in 1..Len(new) : Ones(Len(new))[k] = 1
  BY <1>1, OnesAre
<1>3. \A k \in 1..Len(new) : new[k].pos = Len(ids[g]) + k /\ Plan[Len(ids[g]) + k] # "tool"
  BY DEF ResumesRight, AnswersFit, Continues
<1>4. Beginning(ids[g], mask[g], logprobs[g])
  BY DEF ResumesRight
<1>5. Positions(new) \in Seq(1..Len(Plan))
  BY <1>1, PositionsOf
<1> HIDE DEF new
<1>6. Beginning(ids[g] \o new, mask[g] \o Ones(Len(new)), logprobs[g] \o Positions(new))
  <2>1. \A k \in 1..Len(new) : /\ new[k].pos = Len(ids[g]) + k
                               /\ Ones(Len(new))[k] = IF Plan[Len(ids[g]) + k] = "tool"
                                                      THEN 0 ELSE 1
    BY <1>2, <1>3
  <2> QED
    BY <1>1, <1>2, <1>4, <2>1, BeginningGrows
<1>7. /\ ids[g] \o new \in Seq(Token) /\ Len(ids[g] \o new) = Len(ids[g]) + Len(new)
      /\ mask[g] \o Ones(Len(new)) \in Seq({0, 1})
  BY <1>1, <1>2, ConcatProperties
<1>8. logprobs[g] \o Positions(new) \in Seq(1..Len(Plan))
  BY <1>1, <1>5, ConcatProperties
<1> QED
  BY <1>1, <1>4, <1>6, <1>7, <1>8 DEF new, Beginning

(* SingleTurnAnswered.                                                     *)
LEMMA SingleTurnResumes ==
  ASSUME GenerationInv, NEW g \in Gens, ResumesRight(g), SingleTurnAnswered(g)
  PROVE  ResumesRight(g)'
<1> DEFINE new == reply[g].tokens
           all == ids[g] \o new
           long == logprobs[g] \o Positions(new)
           ones == Ones(Len(all))
           R == response_length
<1>1. /\ kind' = kind /\ response_length' = response_length /\ state' = state
      /\ split' = split /\ kind = "single" /\ gpc[g] = "answered"
      /\ gpc'[g] = IF reply[g].is_cancel /\ Len(all) < R THEN "waiting" ELSE "scoring"
      /\ ids'[g] = Prefix(all, R) /\ mask'[g] = Prefix(ones, R)
      /\ logprobs'[g] = Prefix(long, R)
      /\ request'[g] = NoRequest /\ reply'[g] = NoReply
  BY DEF SingleTurnAnswered, GenerationInv, GenerationTypes
<1>2. Plan' = Plan /\ R \in Nat /\ Len(Plan) \in Nat
  BY <1>1, PlanIs DEF Plan, GenerationInv
<1>3. /\ Beginning(all, mask[g] \o Ones(Len(new)), long)
      /\ all \in Seq(Token) /\ long \in Seq(1..Len(Plan))
      /\ Len(all) = Len(ids[g]) + Len(new) /\ Len(ids[g]) \in Nat /\ Len(new) \in Nat
  BY AnswerGrows
<1> HIDE DEF new, all, long
<1>4. Len(all) \in Nat
  BY <1>3
<1>5. ones \in Seq({0, 1}) /\ Len(ones) = Len(all) /\ \A k \in 1..Len(all) : ones[k] = 1
  BY <1>4, OnesAre
<1> HIDE DEF ones
<1>6. Beginning(all, ones, long)
  <2>1. \A k \in 1..Len(all) : Plan[k] # "tool"
    <3>1. ASSUME NEW k \in 1..Len(all)  PROVE k \in 1..Len(Plan)
      <4>1. all[k] \in Token /\ all[k].pos = k
        BY <1>3, ElementOfSeq DEF Beginning
      <4> QED
        BY <4>1 DEF Token
    <3> QED
      BY <1>1, <3>1, PlanIs DEF GenerationInv
  <2> QED
    BY <1>3, <1>5, <2>1 DEF Beginning
<1>7. Beginning(ids[g], mask[g], logprobs[g])'
  <2>1. Beginning(Prefix(all, R), Prefix(ones, R), Prefix(long, R))
    BY <1>2, <1>3, <1>5, <1>6, BeginningCut
  <2> QED
    BY <1>1, <1>2, <2>1 DEF Beginning
<1>8. AnswersFit(g)'
  BY <1>1, NothingFits DEF NoRequest, NoReply
<1>9. Len(ids'[g]) = IF Len(all) < R THEN Len(all) ELSE R
  <2>1. Len(Prefix(all, R)) = IF Len(all) < R THEN Len(all) ELSE R
    BY <1>2, <1>3, PrefixProperties
  <2> QED
    BY <1>1, <2>1
<1>10. gpc'[g] = "scoring" => Whole(Len(ids'[g]))
  <2> SUFFICES ASSUME ~(reply[g].is_cancel /\ Len(all) < R)  PROVE Whole(Len(ids'[g]))
    BY <1>1
  <2>1. CASE Len(all) < R
    <3>1. Ends(Len(ids[g]), new)
      BY <1>1, <2>1 DEF new, ResumesRight, AnswersFit, GenerationInv, GenerationTypes
    <3>2. PICK n \in Nat, d \in Nat : n = Len(ids[g]) /\ d = Len(new)
      BY <1>3
    <3>3. Plan[n + d] \in {"close", "end"} /\ d # 0
      BY <1>3, <3>1, <3>2, EmptySeq DEF new, Ends, GenerationInv, GenerationTypes
    <3>4. n + d \in 1..Len(Plan)
      <4>1. all[n + d] \in Token /\ all[n + d].pos = n + d
        <5>1. Len(all) = n + d /\ n + d \in 1..n + d
          BY <1>3, <3>2, <3>3
        <5> QED
          BY <1>3, <5>1, ElementOfSeq DEF Beginning
      <4> QED
        BY <4>1 DEF Token
    <3>5. PICK m \in 1..Len(Plan) : m = n + d
      BY <3>4
    <3>6. m = Len(Plan)
      BY <1>1, <3>3, <3>5, PlanIs DEF GenerationInv
    <3> QED
      BY <1>3, <1>9, <2>1, <3>2, <3>5, <3>6 DEF Whole
  <2>2. CASE ~(Len(all) < R)
    BY <1>2, <1>9, <2>2 DEF Whole
  <2> QED
    BY <2>1, <2>2
<1>11. StopsRight(g)'
  <2>1. \A n : Whole(n)' = Whole(n)
    BY <1>1, <1>2 DEF Whole, ToolResponse
  <2>2. Len(ids'[g]) <= R /\ gpc'[g] \in {"waiting", "scoring"}
    BY <1>1, <1>2, <1>4, <1>9
  <2> QED
    BY <1>1, <1>10, <2>1, <2>2 DEF StopsRight
<1> QED
  BY <1>7, <1>8, <1>11 DEF ResumesRight

(* ToolAgentAnswered.                                                      *)
LEMMA ToolAgentResumes ==
  ASSUME GenerationInv, NEW g \in Gens, ResumesRight(g), ToolAgentAnswered(g)
  PROVE  ResumesRight(g)'
<1> DEFINE new == reply[g].tokens
           all == ids[g] \o new
           m == mask[g] \o Ones(Len(new))
           long == logprobs[g] \o Positions(new)
           R == response_length
<1>1. /\ kind' = kind /\ response_length' = response_length
      /\ kind = "tool" /\ gpc[g] = "answered" /\ gpc'[g] = "loop"
      /\ ids'[g] = all /\ mask'[g] = m /\ logprobs'[g] = long
      /\ state'[g] = NextState(g, Len(mask[g]) + Len(new))
      /\ split'[g] = (split[g] \/ CallWasCut(all, new))
      /\ request'[g] = NoRequest /\ reply'[g] = NoReply
  BY DEF ToolAgentAnswered, GenerationInv, GenerationTypes
<1>2. Plan' = Plan /\ R \in Nat /\ Len(Plan) \in Nat
  BY <1>1, PlanIs DEF Plan, GenerationInv
<1>3. /\ Beginning(all, m, long) /\ all \in Seq(Token)
      /\ Len(all) = Len(ids[g]) + Len(new) /\ Len(ids[g]) \in Nat /\ Len(new) \in Nat
      /\ Len(mask[g]) = Len(ids[g])
  BY AnswerGrows
<1>4. /\ new \in Seq(Token) /\ Continues(Len(ids[g]), new) /\ reply[g].is_cancel \in BOOLEAN
      /\ ~reply[g].is_cancel <=> Ends(Len(ids[g]), new)
      /\ state[g] = "GENERATING" /\ ModelIsNext(Len(ids[g]))
  BY <1>1 DEF ResumesRight, AnswersFit, StopsRight, GenerationInv, GenerationTypes
<1> HIDE DEF new, all, m, long
<1>5. PICK n \in Nat, d \in Nat, c \in Nat :
        n = Len(ids[g]) /\ d = Len(new) /\ c = n + d /\ c = Len(all)
  BY <1>3
<1>6. c \in 0..Len(Plan)
  <2>1. CASE c = 0
    BY <1>2, <2>1
  <2>2. CASE c # 0
    <3>1. c \in 1..Len(all)
      BY <1>5, <2>2
    <3>2. all[c] \in Token /\ all[c].pos = c
      BY <1>3, <3>1, ElementOfSeq DEF Beginning
    <3> QED
      BY <1>2, <3>2 DEF Token
  <2> QED
    BY <2>1, <2>2
<1>7. Ends(n, new) => d # 0 /\ c \in 1..Len(Plan) /\ Plan[c] \in {"close", "end"}
  <2> SUFFICES ASSUME Ends(n, new)
               PROVE  d # 0 /\ c \in 1..Len(Plan) /\ Plan[c] \in {"close", "end"}
    OBVIOUS
  <2>1. d # 0 /\ Plan[n + d] \in {"close", "end"}
    BY <1>4, <1>5, EmptySeq DEF Ends
  <2> QED
    BY <1>2, <1>5, <1>6, <2>1
<1>8. Beginning(ids[g], mask[g], logprobs[g])'
  BY <1>1, <1>2, <1>3 DEF Beginning
<1>9. AnswersFit(g)'
  BY <1>1, NothingFits DEF NoRequest, NoReply
<1>10. state'[g] \in {"PENDING", "GENERATING"} => ModelIsNext(c)
  <2> SUFFICES ASSUME state'[g] \in {"PENDING", "GENERATING"}, c < Len(Plan),
                      Plan[c + 1] = "tool"
               PROVE  FALSE
    BY DEF ModelIsNext
  <2>1. reply[g].is_cancel
    BY <1>1, <1>4 DEF NextState
  <2>2. PICK k \in 1..Len(Plan) : k = c + 1 /\ k - 1 = c
    BY <1>2
  <2>3. Plan[c] \in {"close", "tool"}
    BY <2>2, PlanIs DEF GenerationInv
  <2>4. CASE d = 0
    <3>1. c = n
      BY <1>5, <2>4
    <3> QED
      BY <1>4, <1>5, <3>1 DEF ModelIsNext
  <2>5. CASE d # 0
    <3>1. d \in 1..Len(new) /\ new # <<>>
      BY <1>5, <2>5, EmptySeq
    <3>2. Plan[c] # "tool" /\ Plan[c] # "close"
      BY <1>4, <1>5, <2>1, <3>1 DEF Continues, Ends
    <3> QED
      BY <2>3, <3>2
  <2> QED
    BY <2>4, <2>5
<1>11. state'[g] = "PROCESSING_TOOLS" => all # <<>>
  <2> SUFFICES ASSUME state'[g] = "PROCESSING_TOOLS"  PROVE all # <<>>
    OBVIOUS
  <2>1. ~reply[g].is_cancel
    BY <1>1 DEF NextState
  <2>2. c # 0
    BY <1>4, <1>5, <1>7, <2>1
  <2> QED
    BY <1>5, <2>2, EmptySeq
<1>12. state'[g] = "TERMINATED" /\ ~split'[g] => Whole(c)
  <2> SUFFICES ASSUME state'[g] = "TERMINATED", ~split'[g], ~(c >= R)  PROVE c = Len(Plan)
    BY DEF Whole
  <2>1. ~reply[g].is_cancel /\ ~HasToolCall(new)
    <3>1. Len(mask[g]) + Len(new) = c
      BY <1>3, <1>5
    <3>2. state'[g] = NextState(g, c) /\ c < R
      BY <1>1, <1>2, <3>1
    <3> QED
      BY <1>4, <3>2 DEF NextState, new
  <2>2. d # 0 /\ c \in 1..Len(Plan) /\ Plan[c] \in {"close", "end"}
    BY <1>4, <1>5, <1>7, <2>1
  <2>3. Plan[c] # "close"
    <3> SUFFICES ASSUME Plan[c] = "close"  PROVE FALSE
      OBVIOUS
    <3>1. PICK j \in 1..c - 1 : Plan[j] = "open"
      BY <2>2, PlanIs DEF GenerationInv
    <3>2. j \in 1..Len(all) /\ c \in 1..Len(all) /\ j < c
      BY <1>5, <2>2
    <3>3. /\ DOMAIN all = 1..Len(all) /\ all[j].pos = j /\ all[c].pos = c
      BY <1>3, <3>2, LenProperties DEF Beginning
    <3>4. HasToolCall(all)
      BY <3>1, <3>2, <3>3 DEF HasToolCall
    <3>5. new # <<>> /\ d \in 1..Len(new)
      BY <1>5, <2>2, EmptySeq
    <3>6. Last(new) = new[d] /\ new[d].pos = c
      BY <1>4, <1>5, <3>5 DEF Last, Continues
    <3> QED
      BY <1>1, <2>1, <3>4, <3>5, <3>6 DEF CallWasCut
  <2> QED
    BY <2>2, <2>3, PlanIs DEF GenerationInv
<1>13. StopsRight(g)'
  <2>1. \A k : Whole(k)' = Whole(k) /\ ModelIsNext(k)' = ModelIsNext(k)
    BY <1>1, <1>2 DEF Whole, ToolResponse, ModelIsNext
  <2>2. Len(ids'[g]) = c
    BY <1>1, <1>5
  <2> QED
    BY <1>1, <1>10, <1>11, <1>12, <2>1, <2>2 DEF StopsRight
<1> QED
  BY <1>8, <1>9, <1>13 DEF ResumesRight

(* ToolReturns.                                                            *)
LEMMA ToolReturnResumes ==
  ASSUME GenerationInv, NEW g \in Gens, ResumesRight(g), ToolReturns(g)
  PROVE  ResumesRight(g)'
<1> DEFINE t == ToolResponse(Len(ids[g]))
           zeros == [k \in DOMAIN t |-> 0]
           fits == Len(mask[g]) + Len(t) < response_length
<1>1. /\ kind' = kind /\ response_length' = response_length /\ split' = split
      /\ request' = request /\ reply' = reply /\ gpc[g] = "tools" /\ gpc'[g] = "loop"
      /\ state'[g] = IF fits THEN "GENERATING" ELSE "TERMINATED"
      /\ ids'[g] = IF fits THEN ids[g] \o t ELSE ids[g]
      /\ mask'[g] = IF fits THEN mask[g] \o zeros ELSE mask[g]
      /\ logprobs'[g] = IF fits /\ logprobs[g] # <<>> THEN logprobs[g] \o Positions(t)
                        ELSE logprobs[g]
  BY DEF ToolReturns, GenerationInv, GenerationTypes
<1>2. Plan' = Plan /\ kind = "tool" /\ kind \in Kinds /\ response_length \in Nat
  BY <1>1, PlanIs DEF Plan, GenerationInv, GenerationTypes, ResumesRight, StopsRight
<1>3. /\ ids[g] \in Seq(Token) /\ mask[g] \in Seq({0, 1}) /\ logprobs[g] \in Seq(1..Len(Plan))
      /\ Len(ids[g]) \in Nat
  BY LenProperties DEF GenerationInv, GenerationTypes
<1>4. /\ Beginning(ids[g], mask[g], logprobs[g]) /\ ids[g] # <<>>
  BY <1>1, <1>2 DEF ResumesRight, StopsRight
<1>5. PICK n \in Nat : n = Len(ids[g]) /\ n = Len(mask[g]) /\ n = Len(logprobs[g])
  BY <1>3, <1>4 DEF Beginning
<1>6. /\ t \in Seq(Token) /\ Len(t) \in Nat /\ DOMAIN t = 1..Len(t)
      /\ \A j \in 1..Len(t) : t[j].pos = n + j /\ Plan[n + j] = "tool"
      /\ n + Len(t) < Len(Plan) => Plan[n + Len(t) + 1] # "tool"
  <2>1. /\ t \in Seq(Token)
        /\ \A j \in 1..Len(t) : /\ t[j] = [pos |-> n + j, versions |-> {}]
                               /\ Plan[n + j] = "tool"
        /\ n + Len(t) < Len(Plan) => Plan[n + Len(t) + 1] # "tool"
    BY <1>2, <1>5, ToolResponseIs
  <2> HIDE DEF t
  <2>2. Len(t) \in Nat /\ DOMAIN t = 1..Len(t)
    BY <2>1, LenProperties
  <2>3. ASSUME NEW j \in 1..Len(t)  PROVE t[j].pos = n + j
    <3>1. PICK p : p = n + j
      OBVIOUS
    <3>2. t[j] = [pos |-> p, versions |-> {}]
      BY <2>1, <3>1
    <3> QED
      BY <3>1, <3>2
  <2> QED
    BY <2>1, <2>2, <2>3
<1> HIDE DEF t
<1>7. zeros \in Seq({0, 1}) /\ Len(zeros) = Len(t) /\ \A k \in 1..Len(t) : zeros[k] = 0
  <2> DEFINE e(k) == 0
  <2>1. \A k \in 1..Len(t) : e(k) \in {0, 1}
    OBVIOUS
  <2> HIDE DEF e
  <2>2. [k \in 1..Len(t) |-> e(k)] \in Seq({0, 1}) /\ Len([k \in 1..Len(t) |-> e(k)]) = Len(t)
    BY <1>6, <2>1, IsASeq
  <2> QED
    BY <1>6, <2>2 DEF e
<1> HIDE DEF zeros, fits
<1>8. AnswersFit(g)'
  <2>1. request'[g] = NoRequest /\ reply'[g] = NoReply
    BY <1>1 DEF GenerationInv, RequestsMatch
  <2> QED
    BY <1>1, <2>1, NothingFits DEF NoRequest, NoReply
<1>9. \A k : Whole(k)' = Whole(k) /\ ModelIsNext(k)' = ModelIsNext(k)
  BY <1>1, <1>2 DEF Whole, ToolResponse, ModelIsNext
<1>10. CASE fits
  <2>1. Beginning(ids[g] \o t, mask[g] \o zeros, logprobs[g] \o Positions(t))
    <3>1. \A k \in 1..Len(t) : /\ t[k].pos = Len(ids[g]) + k
                               /\ zeros[k] = IF Plan[Len(ids[g]) + k] = "tool" THEN 0 ELSE 1
      BY <1>5, <1>6, <1>7
    <3> QED
      BY <1>3, <1>4, <1>6, <1>7, <3>1, BeginningGrows
  <2>2. logprobs[g] # <<>>
    BY <1>3, <1>4, <1>5, EmptySeq
  <2>3. Beginning(ids[g], mask[g], logprobs[g])'
    BY <1>1, <1>2, <1>10, <2>1, <2>2 DEF Beginning
  <2>4. Len(ids'[g]) = n + Len(t)
    <3>1. Len(ids[g] \o t) = Len(ids[g]) + Len(t)
      BY <1>3, <1>6, ConcatProperties
    <3> QED
      BY <1>1, <1>5, <1>10, <3>1
  <2>5. ModelIsNext(n + Len(t))
    BY <1>6 DEF ModelIsNext
  <2>6. StopsRight(g)'
    BY <1>1, <1>2, <1>9, <1>10, <2>4, <2>5 DEF StopsRight
  <2> QED
    BY <1>8, <2>3, <2>6 DEF ResumesRight
<1>11. CASE ~fits
  <2>1. ids'[g] = ids[g] /\ mask'[g] = mask[g] /\ logprobs'[g] = logprobs[g]
        /\ state'[g] = "TERMINATED"
    BY <1>1, <1>11
  <2>2. Beginning(ids[g], mask[g], logprobs[g])'
    BY <1>2, <1>4, <2>1 DEF Beginning
  <2>3. Whole(n)
    <3>1. n + Len(t) >= response_length
      BY <1>2, <1>5, <1>6, <1>11 DEF fits
    <3> QED
      BY <1>5, <3>1 DEF Whole, t
  <2>4. StopsRight(g)'
    BY <1>1, <1>2, <1>5, <1>9, <2>1, <2>3 DEF StopsRight
  <2> QED
    BY <1>8, <2>2, <2>4 DEF ResumesRight
<1> QED
  BY <1>10, <1>11

(* Every step of the synchronization keeps what is said of each generation.*)
LEMMA ResumptionNext ==
  ASSUME UpdateInv, NEW g \in Gens, ResumesRight(g), [Next]_vars
  PROVE  ResumesRight(g)'
<1>1. GenerationInv /\ TransferInv
  BY DEF UpdateInv
<1>2. CASE Generation(g)
  BY <1>1, <1>2, QuietStepResumes, TerminatedResumes, ServerResumes, EngineTokenResumes,
     SingleTurnResumes, ToolAgentResumes, ToolReturnResumes DEF Generation, GenerationStep
<1>3. ASSUME NEW q \in Gens, q # g, Generation(q)
      PROVE  ResumesRight(g)'
  <2>1. Untouched(g) /\ kind' = kind /\ response_length' = response_length
    BY <1>1, <1>3, GenerationMoves DEF Moved
  <2> QED
    BY <2>1, ResumptionStays DEF Untouched, ResumesRight
<1>4. CASE SubmitSample
  <2>1. /\ kind' = kind /\ response_length' = response_length
        /\ ids' = ids /\ mask' = mask /\ logprobs' = logprobs
        /\ request' = request /\ reply' = reply /\ split' = split /\ state' = state
        /\ gpc'[g] = IF gpc[g] = "waiting" THEN "loop" ELSE gpc[g]
    BY <1>4 DEF SubmitSample, StartRuns
  <2>2. /\ Plan' = Plan /\ Beginning(ids[g], mask[g], logprobs[g])' /\ AnswersFit(g)'
    BY <2>1, ResumptionStays
  <2>3. \A n : ModelIsNext(n)' = ModelIsNext(n) /\ Whole(n)' = Whole(n)
    BY <2>1, <2>2 DEF ModelIsNext, Whole, ToolResponse
  <2>4. StopsRight(g)'
    BY <2>1, <2>3 DEF ResumesRight, StopsRight
  <2> QED
    BY <2>2, <2>4 DEF ResumesRight
<1>5. ASSUME NEW x \in Servers \cup WorkerSet, ServeCancel(x) \/ ServeResume(x)
      PROVE  ResumesRight(g)'
  <2>1. /\ kind' = kind /\ response_length' = response_length
        /\ ids' = ids /\ mask' = mask /\ logprobs' = logprobs
        /\ reply' = reply /\ split' = split /\ state' = state /\ gpc' = gpc
    BY <1>5 DEF ServeCancel, ServeResume, CancelServer, ResumeServer, CancelAgentLoops,
       ResumeAgentLoops, outputs
  <2>2. /\ request'[g].tokens = request[g].tokens
        /\ request'[g].finished = request[g].finished
    <3>1. \/ request' = request
          \/ request'[g] = IF gpc[g] = "running" /\ request[g].server = x
                           THEN [request[g] EXCEPT !.stop = TRUE] ELSE request[g]
      BY <1>5 DEF ServeCancel, ServeResume, CancelServer, ResumeServer, CancelAgentLoops,
         ResumeAgentLoops
    <3>2. request[g] \in [server : Servers \cup {NoServer}, tokens : Seq(Token),
                          finished : BOOLEAN, stop : BOOLEAN]
      BY <1>1 DEF GenerationInv, GenerationTypes
    <3>3. /\ [request[g] EXCEPT !.stop = TRUE].tokens = request[g].tokens
          /\ [request[g] EXCEPT !.stop = TRUE].finished = request[g].finished
      BY <3>2
    <3> QED
      BY <3>1, <3>3
  <2> QED
    BY <2>1, <2>2, ResumptionStays DEF ResumesRight
<1>6. CASE UNCHANGED generationVars
  BY <1>6, ResumptionStays DEF ResumesRight, generationVars, outputs
<1>7. CASE \/ CreateTask \/ SampleReturns \/ MonitorDecides \/ MonitorUnpauses
           \/ PauseBegins \/ PauseEnds \/ SyncWeights
           \/ UpdateParamVersion \/ ResumeBegins \/ ResumeEnds \/ Transfer \/ Done
           \/ UNCHANGED vars
  BY <1>6, <1>7 DEF CreateTask, SampleReturns, MonitorDecides, MonitorUnpauses,
     PauseBegins, PauseEnds, SyncWeights, UpdateParamVersion, ResumeBegins, ResumeEnds,
     Transfer, Done, vars
<1> QED
  BY <1>2, <1>3, <1>4, <1>5, <1>7 DEF Next, Processor, Synchronizer

(* At the start no generation has a token, and the model is to begin.      *)
LEMMA ResumptionInit ==
  ASSUME Init, NEW g \in Gens
  PROVE  ResumesRight(g)
<1>1. /\ gpc[g] = "waiting" /\ state[g] = "PENDING" /\ ids[g] = <<>> /\ mask[g] = <<>>
      /\ logprobs[g] = <<>> /\ request[g] = NoRequest /\ reply[g] = NoReply
  BY DEF Init, GenerationInit
<1>2. Len(<<>>) = 0 /\ (\A k \in 1..Len(<<>>) : FALSE) /\ (\A k \in 1..Len(<<>>) - 1 : FALSE)
  OBVIOUS
<1>3. Beginning(ids[g], mask[g], logprobs[g])
  BY <1>1, <1>2 DEF Beginning
<1>4. AnswersFit(g)
  BY <1>1, <1>2 DEF AnswersFit, Continues, Ends, NoRequest, NoReply
<1>5. ModelIsNext(0)
  <2>1. GenerationInv
    BY GenerationInitInv
  <2>2. Len(Plan) \in Nat /\ \A k \in 1..Len(Plan) : Plan[k] = "tool" => k > 1
    BY <2>1, PlanIs DEF GenerationInv
  <2> QED
    BY <2>2 DEF ModelIsNext
<1>6. StopsRight(g)
  BY <1>1, <1>2, <1>5 DEF StopsRight
<1> QED
  BY <1>3, <1>4, <1>6 DEF ResumesRight

(* What is said of each generation is the property.                        *)
LEMMA ResumptionFollows ==
  ASSUME GenerationInv, \A g \in Gens : ResumesRight(g)
  PROVE  ResumesWhereItStopped
<1> SUFFICES ASSUME NEW g \in Gens
             PROVE  LET n == Len(ids[g]) IN
                    /\ Len(mask[g]) = n /\ Len(logprobs[g]) = n
                    /\ \A k \in 1..n : /\ ids[g][k].pos = k /\ logprobs[g][k] = k
                                       /\ mask[g][k] = IF Plan[k] = "tool" THEN 0 ELSE 1
                    /\ gpc[g] = "completed" /\ ~split[g] =>
                         \/ n = Len(Plan) \/ n = response_length
                         \/ n + Len(ToolResponse(n)) >= response_length
  BY DEF ResumesWhereItStopped
<1> DEFINE n == Len(ids[g])
<1>1. Beginning(ids[g], mask[g], logprobs[g])
  BY DEF ResumesRight
<1>2. gpc[g] = "completed" /\ ~split[g] => Whole(n) /\ n <= response_length
  BY PlanIs DEF ResumesRight, StopsRight, GenerationInv
<1>3. n \in Nat /\ response_length \in Nat
  BY PlanIs, LenProperties DEF GenerationInv, GenerationTypes
<1>4. gpc[g] = "completed" /\ ~split[g] =>
        \/ n = Len(Plan) \/ n = response_length
        \/ n + Len(ToolResponse(n)) >= response_length
  <2>1. n <= response_length /\ n >= response_length => n = response_length
    BY <1>3
  <2> HIDE DEF n
  <2> QED
    BY <1>2, <2>1 DEF Whole
<1> QED
  BY <1>1, <1>4 DEF Beginning

(* However often and wherever a generation is interrupted, what it has is  *)
(* the beginning of what an uninterrupted one would say, with the mask and *)
(* log-probabilities in place, and a completed one is whole or full unless *)
(* a tool call was cut: every request goes on from the tokens returned,    *)
(* those of the cancelled one included (generate_for_partial, run,         *)
(* _run_state_machine).                                                    *)
THEOREM GenerationsResume == Spec => []ResumesWhereItStopped
<1> DEFINE Resumed == \A g \in Gens : ResumesRight(g)
<1>1. Init => Resumed
  BY ResumptionInit
<1>2. UpdateInv /\ Resumed /\ [Next]_vars => Resumed'
  BY ResumptionNext
<1>3. UpdateInv /\ Resumed => ResumesWhereItStopped
  BY ResumptionFollows DEF UpdateInv
<1> HIDE DEF Resumed
<1> QED
  BY <1>1, <1>2, <1>3, GenerationInvHolds, PTL DEF Spec
=============================================================================
