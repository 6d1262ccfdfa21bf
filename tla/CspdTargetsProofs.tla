--------------------------- MODULE CspdTargetsProofs ---------------------------
(***************************************************************************)
(* The four invariants of CspdTargets, for every size of the batch, every  *)
(* number of candidates, every quota and every critic.                     *)
(***************************************************************************)
EXTENDS CspdTargets, DataLemmas

(***************************************************************************)
(* Numbers and sums                                                        *)
(***************************************************************************)

\* Clamping leaves alone what is in the range and never leaves it.
LEMMA ClampIs ==
  ASSUME NEW x \in Int, NEW lo \in Int, NEW hi \in Int, lo <= hi
  PROVE  /\ Clamp(x, lo, hi) \in lo .. hi
         /\ x \in lo .. hi => Clamp(x, lo, hi) = x
         /\ x < lo => Clamp(x, lo, hi) = lo
         /\ x > hi => Clamp(x, lo, hi) = hi
<1>1. Min({x, hi}) = IF x <= hi THEN x ELSE hi
  BY MaxMin
<1>2. PICK m \in Int : m = Min({x, hi})
  BY <1>1
<1>3. Max({lo, m}) = IF lo >= m THEN lo ELSE m
  BY MaxMin
<1> QED
  BY <1>1, <1>2, <1>3 DEF Clamp

\* There are TopK candidates.
LEMMA TopIsFinite == IsFiniteSet(Top) /\ Top # {} /\ TopK \in Nat \ {0} /\ Cardinality(Top) = TopK
<1>1. 1 \in Int /\ TopK \in Int /\ TopK >= 1 /\ TopK \in Nat \ {0}
  BY CspdAssumption DEF CspdAssumption
<1>2. IsFiniteSet(1 .. TopK) /\ Cardinality(1 .. TopK) = IF 1 > TopK THEN 0 ELSE TopK - 1 + 1
  BY <1>1, FS_Interval, Zenon
<1> QED
  BY <1>1, <1>2 DEF Top

\* A sum over the candidates is a number.
LEMMA TopSum ==
  ASSUME NEW f \in [Top -> Int]
  PROVE  SumFunction(f) \in Int
BY TopIsFinite, SumType

\* Numbers within a range have a sum within that range, times their number, and
\* none of them is greater than the sum.
LEMMA TopBounds ==
  ASSUME NEW M \in Nat, NEW f \in [Top -> 0 .. M]
  PROVE  /\ SumFunction(f) \in 0 .. TopK * M
         /\ \A j \in Top : f[j] <= SumFunction(f)
BY TopIsFinite, SumBounds

\* Sums are linear, in the form that is used below.
LEMMA TopLinear ==
  ASSUME NEW f \in [Top -> Int], NEW g \in [Top -> Int], NEW e \in [Top -> Int],
         NEW c \in Int, \A j \in Top : 2 * f[j] = g[j] + c * e[j]
  PROVE  2 * SumFunction(f) = SumFunction(g) + c * SumFunction(e)
BY TopIsFinite, SumLinear

(***************************************************************************)
(* Selection                                                               *)
(***************************************************************************)
BatchTypes == batch \in [prompt : Prompts, mask : [Rows -> Masks],
                         entropy : [Rows -> [Times -> Entropies]]]

\* The masked uncertainty is the entropy where the mask is set, and less
\* than every entropy elsewhere.
LEMMA UncertaintyIs ==
  ASSUME BatchTypes, NEW i \in Rows
  PROVE  /\ batch.mask[i] \in SUBSET Times
         /\ \A t \in batch.mask[i] : Uncertainty(i, t) = batch.entropy[i][t] /\ Uncertainty(i, t) \in Nat
         /\ \A t \in Times \ batch.mask[i] : Uncertainty(i, t) = -1
<1>1. batch.mask[i] \in Masks /\ batch.entropy[i] \in [Times -> Entropies]
  BY DEF BatchTypes
<1>2. batch.mask[i] \in SUBSET Times /\ \A t \in Times : batch.entropy[i][t] \in Nat
  BY <1>1, CspdAssumption DEF CspdAssumption, Times
<1> QED
  BY <1>2 DEF Uncertainty

\* What select_prefixes makes of what topk returns.
LEMMA TopSelects ==
  ASSUME BatchTypes, NEW i \in Rows, NEW S \in TopPositions(i)
  PROVE  LET kept == S \cap batch.mask[i]
         IN /\ kept \subseteq Times
            /\ Cardinality(kept) = Min({Max({0, MaxPrefixes}), Cardinality(batch.mask[i])})
            /\ \A t \in kept, u \in batch.mask[i] \ kept :
                  batch.entropy[i][u] <= batch.entropy[i][t]
<1> DEFINE mask == batch.mask[i]
           kept == S \cap mask
           k == Max({0, Min({MaxPrefixes, ResponseWidth})})
<1>0. MaxPrefixes \in Int /\ ResponseWidth \in Nat \ {0} /\ ResponseWidth \in Int
  BY CspdAssumption DEF CspdAssumption
<1>1. S \in SUBSET Times /\ Cardinality(S) = k
      /\ \A t \in S, u \in Times \ S : Uncertainty(i, u) <= Uncertainty(i, t)
  BY DEF TopPositions
<1>2. /\ mask \in SUBSET Times
      /\ \A t \in mask : Uncertainty(i, t) = batch.entropy[i][t] /\ Uncertainty(i, t) \in Nat
      /\ \A t \in Times \ mask : Uncertainty(i, t) = -1
  BY UncertaintyIs
<1>3. IsFiniteSet(Times) /\ Cardinality(Times) = ResponseWidth
  <2>1. 1 \in Int /\ ResponseWidth \in Int /\ ResponseWidth >= 1
    BY <1>0
  <2>2. IsFiniteSet(1 .. ResponseWidth)
        /\ Cardinality(1 .. ResponseWidth) = IF 1 > ResponseWidth THEN 0 ELSE ResponseWidth - 1 + 1
    BY <2>1, FS_Interval, Zenon
  <2>3. Cardinality(1 .. ResponseWidth) = ResponseWidth
    BY <2>1, <2>2
  <2> QED
    BY <2>2, <2>3 DEF Times
<1> HIDE DEF mask
<1>4. /\ IsFiniteSet(S) /\ IsFiniteSet(mask)
      /\ Cardinality(mask) \in Nat /\ Cardinality(mask) <= ResponseWidth
      /\ Cardinality(mask) = ResponseWidth => mask = Times
  BY <1>1, <1>2, <1>3, FS_Subset, FS_CardinalityType
<1>5. \A t \in kept, u \in mask \ kept : batch.entropy[i][u] <= batch.entropy[i][t]
  BY <1>1, <1>2
<1>6. Min({MaxPrefixes, ResponseWidth})
        = IF MaxPrefixes <= ResponseWidth THEN MaxPrefixes ELSE ResponseWidth
  BY <1>0, MaxMin, Zenon
<1>7. PICK w \in Int : w = Min({MaxPrefixes, ResponseWidth})
  BY <1>0, <1>6
<1>8. k = IF 0 >= w THEN 0 ELSE w
  BY <1>7, MaxMin
<1>9. Max({0, MaxPrefixes}) = IF 0 >= MaxPrefixes THEN 0 ELSE MaxPrefixes
  BY <1>0, MaxMin
<1>10. PICK z \in Int : z = Max({0, MaxPrefixes})
  BY <1>0, <1>9
<1>11. PICK c \in Nat : c = Cardinality(mask)
  BY <1>4
<1>12. Min({z, c}) = IF z <= c THEN z ELSE c
  BY MaxMin
<1>13. Cardinality(kept) = Min({z, c})
  <2>1. CASE S \subseteq mask
    <3>1. kept = S
      BY <2>1
    <3>2. Cardinality(S) <= c
      BY <2>1, <1>4, <1>11, FS_Subset
    <3>3. k <= c /\ c <= ResponseWidth
      BY <1>1, <1>4, <1>11, <3>2
    <3> HIDE DEF k
    <3>4. k = IF z <= c THEN z ELSE c
      BY <1>0, <1>6, <1>7, <1>8, <1>9, <1>10, <3>3
    <3> QED
      BY <1>1, <1>12, <3>1, <3>4
  <2>2. CASE ~(S \subseteq mask)
    <3>1. PICK t \in S : t \notin mask
      BY <2>2
    <3>2. mask \subseteq S
      BY <1>1, <1>2, <3>1
    <3>3. kept = mask
      BY <3>2
    <3>4. c <= Cardinality(S)
      BY <1>4, <1>11, <3>2, FS_Subset
    <3>5. c <= k
      BY <1>1, <3>4
    <3> HIDE DEF k
    <3>6. c <= z
      BY <1>0, <1>6, <1>7, <1>8, <1>9, <1>10, <3>5
    <3> QED
      BY <1>11, <1>12, <3>3, <3>6
  <2> QED
    BY <2>1, <2>2
<1> QED
  BY <1>1, <1>5, <1>10, <1>11, <1>13 DEF mask

(***************************************************************************)
(* The successor queries                                                   *)
(***************************************************************************)
Chosen == {p \in Rows \X Times : p[2] \in selected[p[1]]}

\* Row-major order is a total order.
LEMMA BeforeIsOrder ==
  ASSUME NEW p \in Rows \X Times, NEW q \in Rows \X Times
  PROVE  /\ ~Before(p, p)
         /\ p # q => Before(p, q) \/ Before(q, p)
         /\ ~(Before(p, q) /\ Before(q, p))
         /\ \A r \in Rows \X Times : Before(p, q) /\ Before(q, r) => Before(p, r)
<1>1. \A x \in Rows \X Times : x = <<x[1], x[2]>> /\ x[1] \in Int /\ x[2] \in Int
  BY CspdAssumption DEF Rows, Times, CspdAssumption
<1> QED
  BY <1>1 DEF Before

\* There are finitely many positions.
LEMMA ChosenIsFinite ==
  /\ IsFiniteSet(Chosen) /\ Cardinality(Chosen) \in Nat
  /\ IsFiniteSet(1 .. Cardinality(Chosen))
  /\ Cardinality(1 .. Cardinality(Chosen)) = Cardinality(Chosen)
<1>1. 1 \in Int /\ NumRows \in Int /\ ResponseWidth \in Int
  BY CspdAssumption DEF CspdAssumption
<1>2. IsFiniteSet(Rows) /\ IsFiniteSet(Times)
  BY <1>1, FS_Interval, Zenon DEF Rows, Times
<1>3. IsFiniteSet(Rows \X Times)
  BY <1>2, FS_Product
<1>4. Chosen \in SUBSET (Rows \X Times)
  BY DEF Chosen
<1>5. IsFiniteSet(Chosen)
  BY <1>3, <1>4, FS_Subset
<1>6. PICK n \in Nat : n = Cardinality(Chosen)
  BY <1>5, FS_CardinalityType
<1>7. IsFiniteSet(1 .. n) /\ Cardinality(1 .. n) = IF 1 > n THEN 0 ELSE n - 1 + 1
  <2>1. 1 \in Int /\ n \in Int
    OBVIOUS
  <2> QED
    BY <2>1, FS_Interval, Zenon
<1> QED
  BY <1>5, <1>6, <1>7

\* An order-preserving listing names each chosen position once.
LEMMA ListingsAreExact ==
  ASSUME NEW s \in [1 .. Cardinality(Chosen) -> Chosen],
         \A m, n \in DOMAIN s : m < n => Before(s[m], s[n])
  PROVE  /\ \A m, n \in DOMAIN s : s[m] = s[n] => m = n
         /\ \A p \in Chosen : \E m \in DOMAIN s : s[m] = p
<1> DEFINE N == 1 .. Cardinality(Chosen)
<1>1. Chosen \subseteq Rows \X Times /\ DOMAIN s = N /\ N \subseteq Int
  BY ChosenIsFinite DEF Chosen
<1>2. ASSUME NEW m \in N, NEW n \in N, s[m] = s[n]  PROVE m = n
  <2>1. s[m] \in Rows \X Times
    BY <1>1
  <2>2. ~Before(s[m], s[n]) /\ ~Before(s[n], s[m])
    BY <1>2, <2>1, BeforeIsOrder
  <2>3. ~(m < n) /\ ~(n < m)
    BY <2>2
  <2> QED
    BY <1>1, <2>3
<1>3. s \in Injection(N, Chosen)
  BY <1>2, Zenon DEF Injection, IsInjective
<1>4. s \in Surjection(N, Chosen)
  <2>1. IsFiniteSet(Chosen) /\ Cardinality(N) = Cardinality(Chosen)
    BY ChosenIsFinite
  <2> HIDE DEF N
  <2> QED
    BY <1>3, <2>1, FS_Injection
<1> QED
  BY <1>1, <1>2, <1>4, Zenon DEF Surjection

\* There is one: the position with r - 1 before it has place r.
LEMMA ListingExists ==
  \E s \in [1 .. Cardinality(Chosen) -> Chosen] :
     \A m, n \in DOMAIN s : m < n => Before(s[m], s[n])
<1> DEFINE N == 1 .. Cardinality(Chosen)
           UpTo(p) == {q \in Chosen : q = p \/ Before(q, p)}
           rank == [p \in Chosen |-> Cardinality(UpTo(p))]
<1>1. Chosen \subseteq Rows \X Times
  BY DEF Chosen
<1>2. ASSUME NEW p \in Chosen
      PROVE  /\ UpTo(p) \in SUBSET Chosen /\ IsFiniteSet(UpTo(p)) /\ p \in UpTo(p)
             /\ Cardinality(UpTo(p)) \in N
  <2>1. UpTo(p) \in SUBSET Chosen /\ p \in UpTo(p)
    OBVIOUS
  <2>2. IsFiniteSet(UpTo(p)) /\ Cardinality(UpTo(p)) <= Cardinality(Chosen)
        /\ Cardinality(UpTo(p)) \in Nat
    BY <2>1, ChosenIsFinite, FS_Subset, FS_CardinalityType
  <2>3. Cardinality(UpTo(p)) # 0
    BY <2>1, <2>2, FS_EmptySet
  <2> QED
    BY <2>1, <2>2, <2>3, ChosenIsFinite
<1>3. ASSUME NEW p \in Chosen, NEW q \in Chosen, Before(p, q)
      PROVE  rank[p] < rank[q]
  <2>1. UpTo(p) \subseteq UpTo(q)
    BY <1>1, <1>3, BeforeIsOrder
  <2>2. q \notin UpTo(p)
    BY <1>1, <1>3, BeforeIsOrder
  <2>3. q \in UpTo(q) /\ UpTo(p) # UpTo(q)
    BY <2>2
  <2>4. UpTo(p) \in SUBSET UpTo(q)
    BY <2>1
  <2>5. IsFiniteSet(UpTo(q)) /\ Cardinality(UpTo(p)) \in N /\ Cardinality(UpTo(q)) \in N
    BY <1>2
  <2> HIDE DEF UpTo, N
  <2>6. Cardinality(UpTo(p)) <= Cardinality(UpTo(q)) /\ Cardinality(UpTo(p)) # Cardinality(UpTo(q))
    BY <2>3, <2>4, <2>5, FS_Subset
  <2> QED
    BY <2>5, <2>6, ChosenIsFinite DEF N
<1>4. rank \in [Chosen -> N]
  BY <1>2
<1> HIDE DEF rank
<1>5. ASSUME NEW p \in Chosen, NEW q \in Chosen, rank[p] = rank[q]  PROVE p = q
  <2>1. rank[p] \in N /\ N \subseteq Int
    BY <1>4, ChosenIsFinite
  <2>2. ~(rank[p] < rank[q]) /\ ~(rank[q] < rank[p])
    BY <1>5, <2>1
  <2>3. ~Before(p, q) /\ ~Before(q, p)
    BY <1>3, <2>2
  <2> QED
    BY <1>1, <2>3, BeforeIsOrder
<1>6. rank \in Surjection(Chosen, N)
  <2>1. rank \in Injection(Chosen, N)
    BY <1>4, <1>5, Zenon DEF Injection, IsInjective
  <2>2. IsFiniteSet(N) /\ Cardinality(N) = Cardinality(Chosen)
    BY ChosenIsFinite
  <2> HIDE DEF N
  <2> QED
    BY <2>1, <2>2, FS_Injection
<1>7. \A m \in N : \E p \in Chosen : rank[p] = m
  BY <1>6, Zenon DEF Surjection
<1> DEFINE s == [m \in N |-> CHOOSE p \in Chosen : rank[p] = m]
<1>8. \A m \in N : s[m] \in Chosen /\ rank[s[m]] = m
  BY <1>7
<1>9. s \in [N -> Chosen] /\ DOMAIN s = N
  BY <1>8
<1> HIDE DEF s
<1>10. ASSUME NEW m \in N, NEW n \in N, m < n  PROVE Before(s[m], s[n])
  <2>1. N \subseteq Int
    BY ChosenIsFinite
  <2>2. rank[s[m]] = m /\ rank[s[n]] = n /\ ~(n < m) /\ m # n
    BY <1>8, <1>10, <2>1
  <2>3. ~Before(s[n], s[m]) /\ s[m] # s[n]
    BY <1>3, <1>8, <2>2
  <2>4. s[m] \in Rows \X Times /\ s[n] \in Rows \X Times
    BY <1>1, <1>8
  <2> QED
    BY <2>3, <2>4, BeforeIsOrder
<1> QED
  BY <1>9, <1>10

\* nonzero() lists each chosen position once.
LEMMA PositionsListed ==
  LET s == SelectedPositions
  IN  /\ s \in Seq(Chosen) /\ DOMAIN s = 1 .. Len(s) /\ Len(s) \in Nat
      /\ \A m, n \in 1 .. Len(s) : s[m] = s[n] => m = n
      /\ \A p \in Chosen : \E m \in 1 .. Len(s) : s[m] = p
<1> DEFINE s == SelectedPositions
<1>1. s \in [1 .. Cardinality(Chosen) -> Chosen] /\ \A m, n \in DOMAIN s : m < n => Before(s[m], s[n])
  BY ListingExists, Zenon DEF SelectedPositions, Chosen
<1>2. /\ \A m, n \in DOMAIN s : s[m] = s[n] => m = n
      /\ \A p \in Chosen : \E m \in DOMAIN s : s[m] = p
  BY <1>1, ListingsAreExact
<1> HIDE DEF s
<1>3. s \in Seq(Chosen) /\ Len(s) = Cardinality(Chosen) /\ DOMAIN s = 1 .. Len(s) /\ Len(s) \in Nat
  BY <1>1, ChosenIsFinite
<1> QED
  BY <1>2, <1>3 DEF s

Tokens == {"pad", "prompt", "response", "candidate"} \X Int \X Int \X Int

\* What the tokens are.
LEMMA TokensAre ==
  /\ Pad \in Tokens
  /\ \A i, j \in Int : PromptToken(i, j) \in Tokens /\ ResponseToken(i, j) \in Tokens
  /\ \A i, t, j \in Int : Candidate(i, t, j) \in Tokens
  BY DEF Pad, PromptToken, ResponseToken, Candidate, Tokens

\* The prompt columns without their padding are the prompt.
LEMMA PromptIs ==
  ASSUME BatchTypes, NEW i \in Rows
  PROVE  /\ batch.prompt[i] \in 1 .. PromptWidth /\ Padding(i) \in Nat
         /\ PromptTokens(i) = [c \in 1 .. batch.prompt[i] |-> PromptToken(i, Padding(i) + c)]
         /\ PromptTokens(i) \in Seq(Tokens) /\ Len(PromptTokens(i)) = batch.prompt[i]
<1>0. PromptWidth \in Nat \ {0} /\ i \in Int
  BY CspdAssumption DEF CspdAssumption, Rows
<1>1. batch.prompt[i] \in 1 .. PromptWidth
  <2>1. batch.prompt \in Prompts
    BY DEF BatchTypes
  <2>2. batch.prompt \in [Rows -> 1 .. PromptWidth]
    BY <2>1, CspdAssumption DEF CspdAssumption, Rows
  <2> QED
    BY <2>2
<1>2. PICK n \in 1 .. PromptWidth : n = batch.prompt[i]
  BY <1>1
<1>3. Padding(i) = PromptWidth - n /\ Padding(i) \in Nat
  BY <1>0, <1>2 DEF Padding
<1> DEFINE ids == SourceIds(i)
           lo == Padding(i) + 1
           p == [c \in 1 .. n |-> PromptToken(i, Padding(i) + c)]
<1>4. \A c \in lo .. PromptWidth : ids[c] = PromptToken(i, c) /\ ids[c] \in Tokens
  <2> TAKE c \in lo .. PromptWidth
  <2>1. c \in 1 .. PromptWidth /\ ~(c <= Padding(i)) /\ c \in Int
    BY <1>0, <1>3
  <2>2. ids[c] = PromptToken(i, c)
    BY <2>1 DEF SourceIds
  <2> QED
    BY <1>0, <2>1, <2>2, TokensAre
<1>5. lo \in Int /\ PromptWidth \in Int
  BY <1>0, <1>3
<1> HIDE DEF ids
<1>6. /\ SubSeq(ids, lo, PromptWidth) \in Seq(Tokens)
      /\ Len(SubSeq(ids, lo, PromptWidth)) = n
      /\ \A c \in 1 .. n : SubSeq(ids, lo, PromptWidth)[c] = ids[Padding(i) + c]
  <2> DEFINE r == SubSeq(ids, lo, PromptWidth)
  <2>1. /\ r \in Seq(Tokens) /\ Len(r) = IF lo <= PromptWidth THEN PromptWidth - lo + 1 ELSE 0
        /\ \A c \in 1 .. PromptWidth - lo + 1 : r[c] = ids[lo + c - 1]
    BY <1>4, <1>5, SubSeqProperties
  <2> HIDE DEF r
  <2>2. PromptWidth - lo + 1 = n /\ \A c \in 1 .. n : lo + c - 1 = Padding(i) + c
    BY <1>0, <1>3
  <2>3. Len(r) = n
    BY <1>2, <1>5, <2>1, <2>2
  <2>4. \A c \in 1 .. n : r[c] = ids[Padding(i) + c]
    BY <2>1, <2>2
  <2> QED
    BY <2>1, <2>3, <2>4 DEF r
<1>7. \A c \in 1 .. n : p[c] = SubSeq(ids, lo, PromptWidth)[c] /\ p[c] \in Tokens
  <2> TAKE c \in 1 .. n
  <2>1. Padding(i) + c \in lo .. PromptWidth
    BY <1>0, <1>3
  <2> QED
    BY <1>4, <1>6, <2>1
<1>8. p \in Seq(Tokens) /\ Len(p) = n
  BY <1>7
<1>9. SubSeq(ids, lo, PromptWidth) = p
  BY <1>6, <1>7, <1>8, SeqEqual
<1> QED
  BY <1>2, <1>3, <1>8, <1>9 DEF PromptTokens, ids

\* A prefix is the prompt and the response before the position: never empty, and
\* all of it from its own row.
LEMMA PrefixIs ==
  ASSUME BatchTypes, NEW i \in Rows, NEW t \in Times
  PROVE  /\ PrefixIds(i, t) = [c \in 1 .. batch.prompt[i] |-> PromptToken(i, Padding(i) + c)]
                              \o [u \in 1 .. t - 1 |-> ResponseToken(i, u)]
         /\ PrefixIds(i, t) \in Seq(Tokens)
         /\ Len(PrefixIds(i, t)) \in 1 .. PromptWidth + ResponseWidth - 1
         /\ PrefixIds(i, t) # <<>>
         /\ Last(PrefixIds(i, t))[1] # "candidate" /\ Last(PrefixIds(i, t))[2] = i
<1> DEFINE p == PromptTokens(i)
           r == [u \in 1 .. t - 1 |-> ResponseToken(i, u)]
           x == PrefixIds(i, t)
<1>0. PromptWidth \in Nat \ {0} /\ ResponseWidth \in Nat \ {0} /\ i \in Int /\ t \in 1 .. ResponseWidth
  BY CspdAssumption DEF CspdAssumption, Rows, Times
<1>1. PICK n \in 1 .. PromptWidth : n = batch.prompt[i]
  BY PromptIs
<1>2. p = [c \in 1 .. n |-> PromptToken(i, Padding(i) + c)] /\ p \in Seq(Tokens) /\ Len(p) = n
  BY <1>1, PromptIs
<1>3. r \in Seq(Tokens) /\ Len(r) = t - 1
  <2>1. \A u \in 1 .. t - 1 : ResponseToken(i, u) \in Tokens
    BY <1>0, TokensAre
  <2>2. t - 1 \in Nat
    BY <1>0
  <2> QED
    BY <2>1, <2>2
<1>4. x = p \o r
  BY DEF PrefixIds
<1>5. p[n] = PromptToken(i, Padding(i) + n)
  BY <1>2
<1>6. t > 1 => r[t - 1] = ResponseToken(i, t - 1)
  BY <1>0
<1>7. x = [c \in 1 .. batch.prompt[i] |-> PromptToken(i, Padding(i) + c)]
                              \o [u \in 1 .. t - 1 |-> ResponseToken(i, u)]
  BY <1>1, <1>2, <1>4
<1> HIDE DEF p, r, x
<1>8. /\ x \in Seq(Tokens) /\ Len(x) = n + (t - 1)
      /\ \A c \in 1 .. n + (t - 1) : x[c] = IF c <= n THEN p[c] ELSE r[c - n]
  <2>1. PICK k \in Nat : k = t - 1
    BY <1>0
  <2>2. Len(r) = k
    BY <1>3, <2>1
  <2>3. /\ x \in Seq(Tokens) /\ Len(x) = n + k
        /\ \A c \in 1 .. n + k : x[c] = IF c <= n THEN p[c] ELSE r[c - n]
    <3>1. p \in Seq(Tokens) /\ r \in Seq(Tokens) /\ Len(p) = n /\ n \in Nat
      BY <1>2, <1>3
    <3> QED
      BY <1>4, <2>2, <3>1
  <2> QED
    BY <2>1, <2>3
<1>9. n + (t - 1) \in 1 .. PromptWidth + ResponseWidth - 1
  BY <1>0
<1>10. Last(x) = x[n + (t - 1)]
  BY <1>8, Zenon DEF Last
<1>11. Last(x)[1] # "candidate" /\ Last(x)[2] = i
  <2>1. CASE t = 1
    <3>1. Last(x) = p[n]
      BY <1>8, <1>10, <2>1
    <3> QED
      BY <1>5, <3>1 DEF PromptToken
  <2>2. CASE t > 1
    <3>1. n + (t - 1) > n /\ n + (t - 1) - n = t - 1
      BY <1>0, <2>2
    <3>2. Last(x) = r[t - 1]
      <4>1. PICK c \in Int : c = n + (t - 1)
        BY <1>0
      <4>2. c \in 1 .. n + (t - 1) /\ ~(c <= n) /\ c - n = t - 1
        BY <1>0, <2>2, <4>1
      <4>3. x[c] = r[c - n]
        BY <1>8, <4>2
      <4> QED
        BY <1>10, <4>1, <4>2, <4>3
    <3> QED
      BY <1>6, <2>2, <3>2 DEF ResponseToken
  <2> QED
    BY <1>0, <2>1, <2>2
<1>12. x # <<>>
  BY <1>8, <1>9
<1> QED
  BY <1>7, <1>8, <1>9, <1>11, <1>12 DEF x

\* Left padding and a dummy token hide nothing of a query from the critic, and
\* show nothing else.
LEMMA SeenIs ==
  ASSUME NEW x \in Seq(Tokens), NEW a \in Tokens, NEW start \in Nat
  PROVE  LET q == [ids |-> [c \in 1 .. start |-> Pad] \o (x \o <<a, Pad>>), start |-> start]
         IN  SeenByCritic(q) = x \o <<a>>
<1> DEFINE pads == [c \in 1 .. start |-> Pad]
           tl == <<a, Pad>>
           one == <<a>>
           y == x \o tl
           ids == pads \o y
           z == x \o one
<1>0. PICK n \in Nat : Len(x) = n
  OBVIOUS
<1>1. Pad \in Tokens
  BY TokensAre
<1>2. pads \in Seq(Tokens) /\ Len(pads) = start
  BY <1>1
<1>3. tl \in Seq(Tokens) /\ Len(tl) = 2 /\ tl[1] = a
  BY <1>1
<1>4. one \in Seq(Tokens) /\ Len(one) = 1 /\ one[1] = a
  OBVIOUS
<1> HIDE DEF pads, tl, one
<1>5. /\ y \in Seq(Tokens) /\ Len(y) = n + 2
      /\ \A c \in 1 .. n + 2 : y[c] = IF c <= n THEN x[c] ELSE tl[c - n]
  <2>1. PICK k \in Nat : k = 2
    OBVIOUS
  <2>2. Len(tl) = k
    BY <1>3, <2>1
  <2>3. /\ y \in Seq(Tokens) /\ Len(y) = n + k
        /\ \A c \in 1 .. n + k : y[c] = IF c <= n THEN x[c] ELSE tl[c - n]
    BY <1>0, <1>3, <2>2
  <2> QED
    BY <2>1, <2>3
<1>6. /\ z \in Seq(Tokens) /\ Len(z) = n + 1
      /\ \A c \in 1 .. n + 1 : z[c] = IF c <= n THEN x[c] ELSE one[c - n]
  <2>1. PICK k \in Nat : k = 1
    OBVIOUS
  <2>2. Len(one) = k
    BY <1>4, <2>1
  <2>3. /\ z \in Seq(Tokens) /\ Len(z) = n + k
        /\ \A c \in 1 .. n + k : z[c] = IF c <= n THEN x[c] ELSE one[c - n]
    BY <1>0, <1>4, <2>2
  <2> QED
    BY <2>1, <2>3
<1> HIDE DEF y, z
<1>7. \A c \in 1 .. n + 1 : y[c] = z[c]
  <2> TAKE c \in 1 .. n + 1
  <2>1. CASE c <= n
    <3>1. c \in 1 .. n + 2
      OBVIOUS
    <3>2. y[c] = x[c] /\ z[c] = x[c]
      BY <1>5, <1>6, <2>1, <3>1
    <3> QED
      BY <3>2
  <2>2. CASE c = n + 1
    <3>1. c \in 1 .. n + 2 /\ ~(c <= n) /\ c - n = 1
      BY <2>2
    <3>2. y[c] = tl[c - n] /\ z[c] = one[c - n]
      BY <1>5, <1>6, <3>1
    <3> QED
      BY <1>3, <1>4, <3>1, <3>2
  <2> QED
    BY <1>0, <2>1, <2>2
<1>8. /\ ids \in Seq(Tokens) /\ Len(ids) = start + (n + 2)
      /\ \A c \in 1 .. start + (n + 2) : ids[c] = IF c <= start THEN pads[c] ELSE y[c - start]
  <2>1. n + 2 \in Nat
    OBVIOUS
  <2> QED
    BY <1>2, <1>5, <2>1
<1> HIDE DEF ids
<1> DEFINE lo == start + 1
           hi == Len(ids) - 1
           w == SubSeq(ids, lo, hi)
<1>9. lo \in Int /\ hi \in Int /\ hi - lo + 1 = n + 1 /\ lo <= hi
  BY <1>4, <1>8
<1>10. \A c \in lo .. hi : ids[c] \in Tokens
  <2>1. \A c \in lo .. hi : c \in 1 .. Len(ids)
    BY <1>4, <1>8
  <2> QED
    BY <1>8, <2>1
<1> HIDE DEF hi, lo
<1>11. /\ w \in Seq(Tokens) /\ Len(w) = IF lo <= hi THEN hi - lo + 1 ELSE 0
       /\ \A c \in 1 .. hi - lo + 1 : w[c] = ids[lo + c - 1]
  BY <1>9, <1>10, SubSeqProperties
<1> HIDE DEF w
<1>12. \A c \in 1 .. n + 1 : w[c] = z[c]
  <2> TAKE c \in 1 .. n + 1
  <2>1. w[c] = ids[lo + c - 1] /\ lo + c - 1 = start + c
    BY <1>4, <1>9, <1>11 DEF lo
  <2>2. ids[start + c] = y[c]
    BY <1>4, <1>8
  <2> QED
    BY <1>7, <2>1, <2>2
<1>13. w = z
  BY <1>6, <1>9, <1>11, <1>12, SeqEqual
<1>14. SeenByCritic([ids |-> ids, start |-> start]) = w
  BY DEF SeenByCritic, w, lo, hi
<1> QED
  BY <1>13, <1>14 DEF ids, y, z, pads, tl, one

\* What the critic is to see for candidate j of position t of row i.
Asked(i, t, j) == PrefixIds(i, t) \o <<Candidate(i, t, j)>>

\* Query number n is about this position and this candidate of it.
PlaceOf(n) == SelectedPositions[((n - 1) \div TopK) + 1]
RankOf(n) == ((n - 1) % TopK) + 1
Queries == 1 .. Len(SelectedPositions) * TopK

\* Query number n is about a chosen position and a candidate of it, and that is
\* the candidate appended to it.
LEMMA PlacesAre ==
  ASSUME NEW n \in Queries
  PROVE  /\ PlaceOf(n) \in Chosen
         /\ PlaceOf(n)[1] \in Rows /\ PlaceOf(n)[2] \in Times
         /\ PlaceOf(n)[2] \in selected[PlaceOf(n)[1]]
         /\ RankOf(n) \in Top
         /\ repeat_interleave(SelectedPositions)[n] = PlaceOf(n)
         /\ SelectedActions[n] = Candidate(PlaceOf(n)[1], PlaceOf(n)[2], RankOf(n))
<1>0. TopK \in Nat \ {0}
  BY TopIsFinite
<1>1. PICK L \in Nat : L = Len(SelectedPositions)
  BY PositionsListed
<1>2. n \in Int /\ 1 <= n /\ n <= L * TopK
  <2>1. PICK z \in Int : z = L * TopK
    BY <1>0
  <2>2. n \in 1 .. z
    BY <1>1, <2>1 DEF Queries
  <2> QED
    BY <2>1, <2>2
<1>3. PICK q \in Int : q = (n - 1) \div TopK
  BY <1>0, <1>2
<1>4. PICK a \in 0 .. TopK - 1 : a = (n - 1) % TopK
  BY <1>0, <1>2
<1>5. n - 1 = TopK * q + a
  BY <1>0, <1>2, <1>3, <1>4
<1>6. q \in 0 .. L - 1
  <2>1. q <= -1 => TopK * q <= -TopK
    BY <1>0
  <2>2. q >= L => TopK * q >= L * TopK
    BY <1>0
  <2>3. PICK z \in Int : z = TopK * q
    BY <1>0
  <2>4. PICK y \in Int : y = L * TopK
    BY <1>0
  <2>5. n - 1 = z + a /\ n <= y
    BY <1>2, <1>5, <2>3, <2>4
  <2>6. ~(z <= -TopK)
    BY <1>0, <1>2, <2>5
  <2>7. ~(z >= y)
    BY <1>0, <1>2, <2>5
  <2> QED
    BY <1>1, <2>1, <2>2, <2>3, <2>4, <2>6, <2>7
<1>7. q + 1 \in 1 .. Len(SelectedPositions) /\ PlaceOf(n) = SelectedPositions[q + 1]
  BY <1>1, <1>3, <1>6 DEF PlaceOf
<1>8. PlaceOf(n) \in Chosen
  BY <1>7, PositionsListed
<1>9. /\ PlaceOf(n)[1] \in Rows /\ PlaceOf(n)[2] \in Times
      /\ PlaceOf(n)[2] \in selected[PlaceOf(n)[1]]
  BY <1>8 DEF Chosen
<1>10. RankOf(n) \in Top
  BY <1>0, <1>4 DEF RankOf, Top
<1>11. repeat_interleave(SelectedPositions)[n] = PlaceOf(n)
  BY DEF repeat_interleave, PlaceOf, Queries
<1>12. SelectedActions[n] = Candidate(PlaceOf(n)[1], PlaceOf(n)[2], RankOf(n))
  BY DEF SelectedActions, PlaceOf, RankOf, Queries
<1> QED
  BY <1>8, <1>9, <1>10, <1>11, <1>12

\* The queries: one for each candidate of each chosen position, in which the
\* critic sees what is asked and nothing else.
QueriesAsk ==
  /\ DOMAIN queries = Queries
  /\ \A n \in Queries :
        /\ queries[n].start \in 0 .. PromptWidth + ResponseWidth
        /\ SeenByCritic(queries[n]) = Asked(PlaceOf(n)[1], PlaceOf(n)[2], RankOf(n))

\* make_successor_batch asks that: neither the left padding nor the dummy token
\* reaches the critic.
LEMMA QueryStep ==
  ASSUME BatchTypes, MakeSuccessorBatch
  PROVE  /\ DOMAIN queries' = Queries
         /\ \A n \in Queries :
              /\ queries'[n].start \in 0 .. PromptWidth + ResponseWidth
              /\ SeenByCritic(queries'[n]) = Asked(PlaceOf(n)[1], PlaceOf(n)[2], RankOf(n))
<1> DEFINE places == repeat_interleave(SelectedPositions)
           seqs == [n \in DOMAIN places |->
                       PrefixIds(places[n][1], places[n][2]) \o <<SelectedActions[n], Pad>>]
           lens == {Len(seqs[n]) : n \in DOMAIN seqs} \cup {0}
           width == Max(lens)
           b == PromptWidth + ResponseWidth + 1
<1>1. queries' = [n \in DOMAIN seqs |-> [ids |-> [c \in 1 .. width - Len(seqs[n]) |-> Pad] \o seqs[n],
                                         start |-> width - Len(seqs[n])]]
  BY Zenon DEF MakeSuccessorBatch
<1>2. DOMAIN places = Queries /\ DOMAIN seqs = Queries
  BY DEF repeat_interleave, Queries
<1>3. PromptWidth \in Nat \ {0} /\ ResponseWidth \in Nat \ {0} /\ Rows \subseteq Int /\ Times \subseteq Int
      /\ Top \subseteq Int
  BY CspdAssumption DEF CspdAssumption, Rows, Times, Top
<1>4. ASSUME NEW n \in Queries
      PROVE  LET i == PlaceOf(n)[1]
                 t == PlaceOf(n)[2]
                 a == Candidate(i, t, RankOf(n))
             IN  /\ i \in Rows /\ t \in Times /\ a \in Tokens
                 /\ seqs[n] = PrefixIds(i, t) \o <<a, Pad>>
                 /\ PrefixIds(i, t) \in Seq(Tokens)
                 /\ Len(seqs[n]) \in 1 .. b
  <2> DEFINE i == PlaceOf(n)[1]
             t == PlaceOf(n)[2]
             a == Candidate(i, t, RankOf(n))
             x == PrefixIds(i, t)
  <2>1. i \in Rows /\ t \in Times /\ RankOf(n) \in Top
    BY PlacesAre
  <2>2. places[n] = PlaceOf(n) /\ SelectedActions[n] = a
    BY PlacesAre
  <2>3. a \in Tokens /\ Pad \in Tokens
    BY <1>3, <2>1, TokensAre
  <2>4. seqs[n] = x \o <<a, Pad>>
    BY <1>2, <2>2
  <2>5. x \in Seq(Tokens) /\ Len(x) \in 1 .. PromptWidth + ResponseWidth - 1
    BY <2>1, PrefixIs
  <2> HIDE DEF x, a
  <2>6. Len(x \o <<a, Pad>>) = Len(x) + 2
    BY <2>3, <2>5
  <2>7. Len(seqs[n]) \in 1 .. b
    BY <1>3, <2>4, <2>5, <2>6
  <2> QED
    BY <2>1, <2>3, <2>4, <2>5, <2>7 DEF x, a
<1> HIDE DEF seqs
<1>5. /\ lens \subseteq Int /\ lens # {} /\ b \in Int /\ \A y \in lens : y <= b
      /\ \A n \in Queries : Len(seqs[n]) \in lens
  <2>1. \A n \in Queries : Len(seqs[n]) \in 1 .. b
    BY <1>4
  <2>2. b \in Int /\ 0 <= b
    BY <1>3
  <2> HIDE DEF b
  <2>3. \A y \in lens : y \in 0 .. b
    BY <1>2, <2>1, <2>2
  <2>4. 0 \in lens /\ \A n \in Queries : Len(seqs[n]) \in lens
    BY <1>2
  <2> HIDE DEF lens
  <2> QED
    BY <2>2, <2>3, <2>4
<1> HIDE DEF lens, b
<1>6. width \in lens /\ \A y \in lens : width >= y
  BY <1>5, MaxIs
<1> HIDE DEF width
<1>7. ASSUME NEW n \in Queries
      PROVE  /\ queries'[n].start \in 0 .. PromptWidth + ResponseWidth
             /\ SeenByCritic(queries'[n]) = Asked(PlaceOf(n)[1], PlaceOf(n)[2], RankOf(n))
  <2> DEFINE i == PlaceOf(n)[1]
             t == PlaceOf(n)[2]
             a == Candidate(i, t, RankOf(n))
             x == PrefixIds(i, t)
             start == width - Len(seqs[n])
  <2>1. /\ x \in Seq(Tokens) /\ a \in Tokens /\ seqs[n] = x \o <<a, Pad>>
        /\ Len(seqs[n]) \in 1 .. b
    BY <1>4
  <2>2. width \in Int /\ width >= Len(seqs[n]) /\ width <= b /\ Len(seqs[n]) >= 1 /\ Len(seqs[n]) \in Int
    BY <1>3, <1>5, <1>6, <2>1 DEF b
  <2>3. start \in Nat /\ start \in 0 .. PromptWidth + ResponseWidth
    BY <1>3, <2>2 DEF b
  <2>4. queries'[n] = [ids |-> [c \in 1 .. start |-> Pad] \o (x \o <<a, Pad>>), start |-> start]
    BY <1>1, <1>2, <2>1
  <2> HIDE DEF start, x, a
  <2>5. SeenByCritic([ids |-> [c \in 1 .. start |-> Pad] \o (x \o <<a, Pad>>), start |-> start]) = x \o <<a>>
    BY <2>1, <2>3, SeenIs
  <2>6. SeenByCritic(queries'[n]) = x \o <<a>>
    BY <2>4, <2>5
  <2>7. queries'[n].start = start
    BY <2>4
  <2> QED
    BY <2>3, <2>6, <2>7 DEF Asked, x, a
<1>8. DOMAIN queries' = Queries
  BY <1>1, <1>2
<1> QED
  BY <1>7, <1>8

\* The answers come back to their candidates, and nowhere else.
ScoresAnswer ==
  successor_values = [i \in Rows |-> [t \in Times |-> [j \in Top |->
      IF t \in selected[i] THEN Asked(i, t, j) ELSE <<>>]]]

\* The scatter undoes the compaction: answer number (m - 1) * TopK + j is for
\* candidate j of the m-th chosen position.
LEMMA ScoreStep ==
  ASSUME BatchTypes, QueriesAsk, Score
  PROVE  successor_values' = [i \in Rows |-> [t \in Times |-> [j \in Top |->
            IF t \in selected[i] THEN Asked(i, t, j) ELSE <<>>]]]
<1> DEFINE s == SelectedPositions
           at(i, t) == CHOOSE m \in DOMAIN s : s[m] = <<i, t>>
           scored == [n \in DOMAIN queries |-> SeenByCritic(queries[n])]
<1>1. successor_values' = [i \in Rows |-> [t \in Times |-> [j \in Top |->
           IF t \in selected[i] THEN scored[(at(i, t) - 1) * TopK + j] ELSE <<>>]]]
  BY Zenon DEF Score, Scatter
<1>2. ASSUME NEW i \in Rows, NEW t \in Times, t \in selected[i], NEW j \in Top
      PROVE  scored[(at(i, t) - 1) * TopK + j] = Asked(i, t, j)
  <2>0. /\ TopK \in Nat \ {0} /\ j \in 1 .. TopK /\ DOMAIN s = 1 .. Len(s) /\ Len(s) \in Nat
        /\ \A p \in Chosen : \E m \in 1 .. Len(s) : s[m] = p
    BY TopIsFinite, PositionsListed DEF Top
  <2>1. <<i, t>> \in Chosen
    BY <1>2 DEF Chosen
  <2>2. \E m \in DOMAIN s : s[m] = <<i, t>>
    BY <2>0, <2>1
  <2>3. at(i, t) \in DOMAIN s /\ s[at(i, t)] = <<i, t>>
    BY <2>2
  <2>4. PICK m \in 1 .. Len(s) : m = at(i, t)
    BY <2>0, <2>3
  <2>5. s[m] = <<i, t>>
    BY <2>3, <2>4
  <2> DEFINE n == (m - 1) * TopK + j
  <2>6. n - 1 = (m - 1) * TopK + (j - 1) /\ n \in Int
    <3>1. PICK z \in Int : z = (m - 1) * TopK
      BY <2>0
    <3> QED
      BY <2>0, <3>1
  <2>7. (n - 1) \div TopK = m - 1 /\ (n - 1) % TopK = j - 1
    <3>1. m - 1 \in Nat /\ j - 1 \in 0 .. TopK - 1
      BY <2>0
    <3> HIDE DEF n
    <3>2. /\ ((m - 1) * TopK + (j - 1)) \div TopK = m - 1
          /\ ((m - 1) * TopK + (j - 1)) % TopK = j - 1
      BY <2>0, <3>1, DivMod
    <3> QED
      BY <2>6, <3>2
  <2>8. n \in Queries
    <3>1. PICK z \in Nat : z = (m - 1) * TopK
      BY <2>0
    <3>2. PICK y \in Nat : y = Len(s) * TopK
      BY <2>0
    <3>3. z + TopK <= y
      <4>0. PICK L \in Nat : L = Len(s)
        BY <2>0
      <4>00. m \in Int /\ m <= L
        <5>1. m \in 1 .. L
          BY <4>0
        <5> QED
          BY <5>1
      <4>1. PICK e \in Nat : e = L - m
        <5>1. L - m \in Nat
          BY <4>0, <4>00
        <5> QED
          BY <5>1
      <4>2. Len(s) * TopK = (m - 1) * TopK + TopK + e * TopK /\ e * TopK \in Nat
        <5>1. Len(s) = (m - 1) + 1 + e
          BY <2>0, <4>0, <4>1
        <5>2. ((m - 1) + 1 + e) * TopK = (m - 1) * TopK + TopK + e * TopK
          BY <2>0
        <5> QED
          BY <2>0, <5>1, <5>2
      <4>3. PICK w \in Nat : w = e * TopK
        BY <4>2
      <4>4. y = z + TopK + w
        BY <3>1, <3>2, <4>2, <4>3
      <4> QED
        BY <2>0, <4>4
    <3>4. n = z + j
      BY <3>1
    <3>5. n \in 1 .. y
      BY <2>0, <3>3, <3>4
    <3> QED
      BY <3>2, <3>5 DEF Queries
  <2>9. PlaceOf(n) = <<i, t>> /\ RankOf(n) = j
    <3> HIDE DEF n
    <3>1. m - 1 + 1 = m /\ j - 1 + 1 = j
      BY <2>0
    <3> QED
      BY <2>5, <2>7, <3>1 DEF PlaceOf, RankOf
  <2>10. scored[n] = Asked(i, t, j)
    <3> HIDE DEF n
    <3>1. scored[n] = SeenByCritic(queries[n])
      BY <2>8 DEF QueriesAsk
    <3>2. SeenByCritic(queries[n]) = Asked(PlaceOf(n)[1], PlaceOf(n)[2], RankOf(n))
      BY <2>8 DEF QueriesAsk
    <3> QED
      BY <2>9, <3>1, <3>2
  <2> QED
    BY <2>4, <2>10
<1> HIDE DEF at, scored
<1> QED
  BY <1>1, <1>2

(***************************************************************************)
(* The posterior                                                           *)
(***************************************************************************)
Critics == [state : [Rows -> Values], successor : [Top -> Values]]

\* A success probability is one, and half of the shifted return of a critic that
\* stays in its range.
LEMMA SuccessIs ==
  ASSUME NEW v \in Int
  PROVE  /\ Success(v) \in 0 .. Scale
         /\ v \in Values /\ InRange(v) => 2 * Success(v) = v + Scale
<1>0. Scale \in Nat \ {0}
  BY CspdAssumption DEF CspdAssumption
<1>1. PICK h \in Int : h = (v + Scale) \div 2
  BY <1>0
<1>2. Success(v) = Clamp(h, 0, Scale)
  BY <1>1 DEF Success
<1>3. 0 \in Int /\ Scale \in Int /\ 0 <= Scale
  BY <1>0
<1>4. /\ Clamp(h, 0, Scale) \in 0 .. Scale
      /\ h \in 0 .. Scale => Clamp(h, 0, Scale) = h
  BY <1>3, ClampIs
<1>5. ASSUME v \in Values, InRange(v)  PROVE 2 * h = v + Scale /\ h \in 0 .. Scale
  <2>1. (v + Scale) % 2 = 0
    BY <1>5, CspdAssumption DEF CspdAssumption
  <2>2. v \in -Scale .. Scale
    BY <1>5 DEF InRange
  <2>3. 2 * h = v + Scale
    BY <1>0, <1>1, <2>1
  <2>4. v >= -Scale /\ v <= Scale
    BY <1>0, <2>2
  <2> QED
    BY <1>0, <2>3, <2>4
<1> QED
  BY <1>2, <1>4, <1>5

\* What the critic says of what it is asked.
LEMMA ValueIs ==
  ASSUME BatchTypes, NEW cr \in Critics, NEW i \in Rows, NEW t \in Times
  PROVE  /\ ValueOf(<<>>, cr) = 0
         /\ ValueOf(PrefixIds(i, t), cr) = cr.state[i]
         /\ \A j \in Top : ValueOf(Asked(i, t, j), cr) = cr.successor[j]
<1>0. Rows \subseteq Int /\ Times \subseteq Int /\ Top \subseteq Int
  BY CspdAssumption DEF CspdAssumption, Rows, Times, Top
<1>1. ValueOf(<<>>, cr) = 0
  BY DEF ValueOf
<1> DEFINE x == PrefixIds(i, t)
<1>2. /\ x \in Seq(Tokens) /\ Len(x) \in Nat /\ x # <<>>
      /\ Last(x)[1] # "candidate" /\ Last(x)[2] = i
  BY PrefixIs
<1> HIDE DEF x
<1>3. ValueOf(x, cr) = cr.state[i]
  BY <1>2 DEF ValueOf
<1>4. ASSUME NEW j \in Top
      PROVE  ValueOf(x \o <<Candidate(i, t, j)>>, cr) = cr.successor[j]
  <2> DEFINE a == Candidate(i, t, j)
             one == <<a>>
             z == x \o one
  <2>1. a \in Tokens /\ a[1] = "candidate" /\ a[4] = j
    BY <1>0, TokensAre DEF Candidate
  <2> HIDE DEF a
  <2>2. one \in Seq(Tokens) /\ Len(one) = 1 /\ one[1] = a
    BY <2>1
  <2>3. PICK n \in Nat : Len(x) = n
    BY <1>2
  <2>4. PICK k \in Nat : k = 1
    OBVIOUS
  <2> HIDE DEF one
  <2>5. Len(one) = k
    BY <2>2, <2>4
  <2>6. /\ z \in Seq(Tokens) /\ Len(z) = n + k
        /\ \A c \in 1 .. n + k : z[c] = IF c <= n THEN x[c] ELSE one[c - n]
    BY <1>2, <2>2, <2>3, <2>5
  <2> HIDE DEF z
  <2>7. z[n + 1] = a /\ z # <<>> /\ Len(z) = n + 1
    <3>1. n + 1 \in 1 .. n + k /\ ~(n + 1 <= n) /\ n + 1 - n = 1
      BY <2>4
    <3>2. z[n + 1] = one[1]
      BY <2>6, <3>1
    <3>3. Len(z) = n + 1
      BY <2>4, <2>6
    <3>4. z # <<>>
      BY <3>3
    <3> QED
      BY <2>2, <3>2, <3>3, <3>4
  <2>8. Last(z) = a
    BY <2>7, Zenon DEF Last
  <2>9. ValueOf(z, cr) = cr.successor[a[4]]
    BY <2>1, <2>7, <2>8 DEF ValueOf
  <2> QED
    BY <2>1, <2>9 DEF z, one, a
<1> QED
  BY <1>1, <1>3, <1>4 DEF Asked, x

\* The behaviour probabilities: numbers whose sum leaves the rest for the tail.
LEMMA TopProbsAre ==
  ASSUME NEW p \in TopProbs
  PROVE  /\ p \in [Top -> 0 .. Scale] /\ p \in [Top -> Int]
         /\ SumFunction(p) \in 0 .. Scale
         /\ TailProbability(p) = Scale - SumFunction(p)
<1>0. Scale \in Nat \ {0}
  BY CspdAssumption DEF CspdAssumption
<1>1. p \in [Top -> 0 .. Scale] /\ SumFunction(p) <= Scale
  BY CspdAssumption DEF CspdAssumption, Top
<1>2. p \in [Top -> Int]
  BY <1>0, <1>1
<1>3. SumFunction(p) \in Int /\ SumFunction(p) >= 0
  <2>1. SumFunction(p) \in 0 .. TopK * Scale
    BY <1>0, <1>1, TopBounds
  <2>2. PICK b \in Int : b = TopK * Scale
    BY <1>0, TopIsFinite
  <2> QED
    BY <2>1, <2>2
<1>4. PICK c \in 0 .. Scale : c = Scale - SumFunction(p)
  BY <1>0, <1>1, <1>3
<1>5. 0 \in Int /\ Scale \in Int /\ 0 <= Scale /\ c \in Int
  BY <1>0
<1>6. Clamp(c, 0, Scale) = c
  BY <1>5, ClampIs
<1> QED
  BY <1>0, <1>1, <1>2, <1>3, <1>4, <1>6 DEF TailProbability

Cells == [top : [Top -> 0 .. Scale * Scale],
          tail : 0 .. Scale * Scale,
          total : 0 .. (TopK + 1) * Scale * Scale,
          weight : 0 .. Scale]

\* The mass of every candidate at a position, given their success probabilities.
Masses(p, s) == [j \in Top |-> p[j] * s[j]]

\* A product of two probabilities is one, and at most each of them.
LEMMA ProductIs ==
  ASSUME NEW m \in Nat, NEW a \in 0 .. m, NEW b \in 0 .. m
  PROVE  /\ a * b \in 0 .. m * m
         /\ a * b <= m * a
<1>1. PICK x \in Nat : x = m - b
  BY SMT
<1>2. PICK y \in Nat : y = m - a
  BY SMT
<1>3. m * a = a * b + a * x /\ a * x \in Nat /\ a * b \in Nat
  <2>1. m = b + x /\ a \in Nat /\ b \in Nat
    BY <1>1
  <2>2. (b + x) * a = a * b + a * x
    BY <2>1
  <2> QED
    BY <2>1, <2>2
<1>4. m * m = m * a + m * y /\ m * y \in Nat
  <2>1. m = a + y /\ a \in Nat
    BY <1>2
  <2>2. m * (a + y) = m * a + m * y
    BY <2>1
  <2> QED
    BY <2>1, <2>2
<1>5. PICK u \in Nat : u = a * b
  BY <1>3
<1>6. PICK w \in Nat : w = a * x
  BY <1>3
<1>7. PICK z \in Nat : z = m * y
  BY <1>4
<1>8. m * a = u + w
  BY <1>3, <1>5, <1>6
<1>9. m * m = u + w + z
  BY <1>4, <1>7, <1>8
<1> QED
  BY <1>5, <1>8, <1>9

\* The projection of the tail leaves alone what the tail can hold.
LEMMA TailIs ==
  ASSUME NEW p \in TopProbs, NEW raw \in Int
  PROVE  LET room == Scale * (Scale - SumFunction(p))
         IN  /\ TailMass(raw, p) \in 0 .. room
             /\ room \in 0 .. Scale * Scale
             /\ raw \in 0 .. room => TailMass(raw, p) = raw
<1>0. Scale \in Nat \ {0} /\ SumFunction(p) \in 0 .. Scale /\ TailProbability(p) = Scale - SumFunction(p)
  BY CspdAssumption, TopProbsAre DEF CspdAssumption
<1>1. PICK c \in 0 .. Scale : c = Scale - SumFunction(p)
  BY <1>0
<1>2. c * Scale \in 0 .. Scale * Scale
  BY <1>0, ProductIs
<1>3. PICK s2 \in Nat : s2 = Scale * Scale
  BY <1>0
<1>4. PICK room \in 0 .. s2 : room = Scale * c
  <2>1. Scale * c = c * Scale
    BY <1>0
  <2> QED
    BY <1>2, <1>3, <2>1
<1>5. Max({raw, 0}) = IF raw >= 0 THEN raw ELSE 0
  BY MaxMin
<1>6. PICK m \in Nat : m = Max({raw, 0})
  BY <1>5
<1>7. Min({m, room}) = IF m <= room THEN m ELSE room
  BY MaxMin
<1>8. TailMass(raw, p) = Min({m, room})
  BY <1>0, <1>1, <1>4, <1>6 DEF TailMass
<1>9. Min({m, room}) \in 0 .. room /\ (raw \in 0 .. room => Min({m, room}) = raw)
  BY <1>5, <1>6, <1>7
<1> QED
  BY <1>1, <1>3, <1>4, <1>8, <1>9

\* Every cell is one of masses, none of which exceeds what it conditions.
LEMMA CellIs ==
  ASSUME NEW p \in TopProbs, NEW s \in [Top -> 0 .. Scale], NEW w \in 0 .. Scale
  PROVE  LET top == Masses(p, s)
             tail == TailMass(Scale * w - SumFunction(top), p)
             total == SumFunction(top) + tail
         IN  /\ [top |-> top, tail |-> tail, total |-> total, weight |-> w] \in Cells
             /\ \A j \in Top : top[j] <= Scale * p[j]
             /\ tail <= Scale * (Scale - SumFunction(p))
             /\ SumFunction(top) \in Int /\ tail \in Nat
             /\ \A j \in Top : top[j] <= SumFunction(top)
<1> DEFINE top == Masses(p, s)
<1>0. Scale \in Nat \ {0} /\ TopK \in Nat \ {0} /\ w \in Int
  BY CspdAssumption DEF CspdAssumption
<1>1. PICK s2 \in Nat : s2 = Scale * Scale
  BY <1>0
<1>2. \A j \in Top : top[j] \in 0 .. s2 /\ top[j] <= Scale * p[j]
  <2> TAKE j \in Top
  <2>1. p[j] \in 0 .. Scale /\ s[j] \in 0 .. Scale
    BY TopProbsAre
  <2>2. p[j] * s[j] \in 0 .. Scale * Scale /\ p[j] * s[j] <= Scale * p[j]
    BY <1>0, <2>1, ProductIs
  <2>3. top[j] = p[j] * s[j]
    BY DEF Masses
  <2> QED
    BY <1>1, <2>2, <2>3
<1>3. top \in [Top -> 0 .. s2]
  BY <1>2 DEF Masses
<1> HIDE DEF top
<1>4. SumFunction(top) \in 0 .. TopK * s2 /\ \A j \in Top : top[j] <= SumFunction(top)
  BY <1>1, <1>3, TopBounds
<1>5. PICK b \in Nat : b = TopK * s2
  BY <1>0
<1>6. PICK a \in 0 .. b : a = SumFunction(top)
  BY <1>4, <1>5
<1>7. PICK raw \in Int : raw = Scale * w - a
  <2>1. Scale * w \in Int
    BY <1>0
  <2> QED
    BY <2>1
<1>8. PICK room \in Int : room = Scale * (Scale - SumFunction(p))
  <2>1. Scale - SumFunction(p) \in Int
    BY <1>0, TopProbsAre
  <2>2. PICK c \in Int : c = Scale - SumFunction(p)
    BY <2>1
  <2> QED
    BY <1>0, <2>2
<1>9. TailMass(raw, p) \in 0 .. room /\ room \in 0 .. s2
  BY <1>1, <1>7, <1>8, TailIs
<1>10. PICK tail \in 0 .. s2 : tail = TailMass(raw, p) /\ tail <= room
  BY <1>9
<1>11. a + tail \in 0 .. b + s2
  BY <1>6, <1>10
<1>12. (TopK + 1) * Scale * Scale = b + s2
  <2>1. (TopK + 1) * Scale * Scale = (TopK + 1) * (Scale * Scale)
    BY <1>0
  <2>2. (TopK + 1) * s2 = TopK * s2 + s2
    BY <1>0
  <2> QED
    BY <1>1, <1>5, <2>1, <2>2
<1>13. [top |-> top, tail |-> tail, total |-> a + tail, weight |-> w] \in Cells
  BY <1>1, <1>3, <1>11, <1>12 DEF Cells
<1> QED
  BY <1>2, <1>4, <1>6, <1>7, <1>8, <1>10, <1>13 DEF top

\* With a consistent critic nothing is cut off: the masses are those of Bayes.
LEMMA BayesIs ==
  ASSUME NEW p \in TopProbs, NEW v \in Values, NEW e \in [Top -> Values],
         InRange(v), \A j \in Top : InRange(e[j]),
         Scale * v - SumFunction([j \in Top |-> p[j] * e[j]])
            \in -(Scale * (Scale - SumFunction(p))) .. Scale * (Scale - SumFunction(p))
  PROVE  LET s == [j \in Top |-> Success(e[j])]
             w == Success(v)
             top == Masses(p, s)
             tail == TailMass(Scale * w - SumFunction(top), p)
         IN  /\ 2 * (SumFunction(top) + tail) = Scale * (v + Scale)
             /\ \A j \in Top : 2 * top[j] = p[j] * (e[j] + Scale)
<1> DEFINE s == [j \in Top |-> Success(e[j])]
           known == [j \in Top |-> p[j] * e[j]]
           top == Masses(p, s)
<1>0. Scale \in Nat \ {0} /\ Values \subseteq Int /\ Scale \in Int
  BY CspdAssumption DEF CspdAssumption
<1>1. PICK w \in 0 .. Scale : w = Success(v) /\ 2 * w = v + Scale
  BY <1>0, SuccessIs
<1>2. \A j \in Top : /\ p[j] \in Int /\ e[j] \in Int /\ s[j] \in Int
                     /\ 2 * s[j] = e[j] + Scale
  <2> TAKE j \in Top
  <2>1. p[j] \in Int /\ e[j] \in Values /\ e[j] \in Int /\ InRange(e[j])
    BY <1>0, TopProbsAre
  <2>2. s[j] = Success(e[j])
    OBVIOUS
  <2>3. Success(e[j]) \in 0 .. Scale /\ 2 * Success(e[j]) = e[j] + Scale
    BY <2>1, SuccessIs
  <2>4. Success(e[j]) \in Int
    BY <1>0, <2>3
  <2> QED
    BY <2>1, <2>2, <2>3, <2>4
<1>3. \A j \in Top : /\ top[j] \in Int /\ known[j] \in Int
                     /\ 2 * top[j] = p[j] * (e[j] + Scale)
                     /\ 2 * top[j] = known[j] + Scale * p[j]
  <2> TAKE j \in Top
  <2>1. top[j] = p[j] * s[j] /\ known[j] = p[j] * e[j]
    BY DEF Masses
  <2>2. PICK x \in Int : x = p[j]
    BY <1>2
  <2>3. PICK y \in Int : y = e[j]
    BY <1>2
  <2>4. PICK z \in Int : z = s[j]
    BY <1>2
  <2>5. 2 * z = y + Scale
    BY <1>2, <2>3, <2>4
  <2>6. 2 * (x * z) = x * (2 * z) /\ x * z \in Int /\ x * y \in Int
    OBVIOUS
  <2>7. 2 * (x * z) = x * (y + Scale)
    BY <2>5, <2>6
  <2>8. x * (y + Scale) = x * y + Scale * x
    BY <1>0
  <2> HIDE DEF s, top, known
  <2> QED
    BY <2>1, <2>2, <2>3, <2>4, <2>6, <2>7, <2>8
<1>4. top \in [Top -> Int] /\ known \in [Top -> Int] /\ p \in [Top -> Int]
  BY <1>3, TopProbsAre DEF Masses
<1> HIDE DEF s, top, known
<1>5. 2 * SumFunction(top) = SumFunction(known) + Scale * SumFunction(p)
  BY <1>0, <1>3, <1>4, TopLinear
<1>6. PICK a \in Int : a = SumFunction(top)
  BY <1>4, TopSum
<1>7. PICK k \in Int : k = SumFunction(known)
  BY <1>4, TopSum
<1>8. PICK q \in 0 .. Scale : q = SumFunction(p)
  BY TopProbsAre
<1>9. PICK room \in Int : room = Scale * (Scale - q)
  <2>1. PICK c \in Int : c = Scale - q
    BY <1>0, <1>8
  <2> QED
    BY <1>0, <2>1
<1>10. PICK sv \in Int : sv = Scale * v
  BY <1>0
<1>11. PICK sq \in Int : sq = Scale * q
  BY <1>0, <1>8
<1>12. PICK ss \in Int : ss = Scale * Scale
  BY <1>0
<1>13. PICK sw \in Int : sw = Scale * w
  BY <1>0
<1>14. room = ss - sq
  <2>1. Scale * (Scale - q) = Scale * Scale - Scale * q
    BY <1>0, <1>8
  <2> QED
    BY <1>9, <1>11, <1>12, <2>1
<1>15. 2 * sw = sv + ss
  <2>1. 2 * (Scale * w) = Scale * (2 * w)
    BY <1>0
  <2>2. Scale * (v + Scale) = Scale * v + Scale * Scale
    BY <1>0
  <2> QED
    BY <1>1, <1>10, <1>12, <1>13, <2>1, <2>2
<1>16. 2 * a = k + sq
  BY <1>5, <1>6, <1>7, <1>8, <1>11
<1>17. sv - k \in -room .. room
  BY <1>7, <1>8, <1>9, <1>10 DEF known
<1>18. sw - a \in 0 .. room
  <2>1. 2 * (sw - a) = sv - k + room
    BY <1>14, <1>15, <1>16
  <2>2. sv - k >= -room /\ sv - k <= room
    BY <1>17
  <2> QED
    BY <2>1, <2>2
<1>19. TailMass(sw - a, p) = sw - a
  BY <1>8, <1>9, <1>18, TailIs
<1>20. 2 * (a + (sw - a)) = Scale * (v + Scale)
  <2>1. Scale * (v + Scale) = Scale * v + Scale * Scale
    BY <1>0
  <2> QED
    BY <1>10, <1>12, <1>15, <2>1
<1>21. \A j \in Top : 2 * top[j] = p[j] * (e[j] + Scale)
  BY <1>3
<1>22. 2 * (SumFunction(top) + TailMass(Scale * w - SumFunction(top), p)) = Scale * (v + Scale)
  BY <1>6, <1>13, <1>19, <1>20
<1> QED
  BY <1>1, <1>21, <1>22 DEF s, top

\* Where the answers are, and what they are worth.
LEMMA TargetIs ==
  ASSUME BatchTypes, ScoresAnswer, selected \in [Rows -> SUBSET Times],
         NEW i \in Rows, NEW t \in Times, selected[i] \subseteq batch.mask[i],
         NEW cr \in Critics, NEW p \in TopProbs
  PROVE  LET g == PosteriorAt(i, t, cr, p)
             v == cr.state[i]
             e == cr.successor
         IN  /\ g \in Cells
             /\ \A j \in Top : g.top[j] <= Scale * p[j]
             /\ g.tail <= Scale * (Scale - SumFunction(p))
             /\ (/\ t \in selected[i]
                 /\ InRange(v)
                 /\ \A j \in Top : InRange(e[j])
                 /\ Scale * v - SumFunction([j \in Top |-> p[j] * e[j]])
                      \in -(Scale * (Scale - SumFunction(p))) .. Scale * (Scale - SumFunction(p)))
                => /\ 2 * g.total = Scale * (v + Scale)
                   /\ \A j \in Top : 2 * g.top[j] = p[j] * (e[j] + Scale)
<1> DEFINE v == cr.state[i]
           e == cr.successor
           s == [j \in Top |-> Success(ValueOf(successor_values[i][t][j], cr))]
           w == Success(StateValue(i, t, cr))
           top == Masses(p, s)
           tail == TailMass(Scale * w - SumFunction(top), p)
           total == SumFunction(top) + tail
           valid == Usable(t \in selected[i], total)
           g == PosteriorAt(i, t, cr, p)
           consistent ==
               /\ t \in selected[i]
               /\ InRange(v)
               /\ \A j \in Top : InRange(e[j])
               /\ Scale * v - SumFunction([j \in Top |-> p[j] * e[j]])
                    \in -(Scale * (Scale - SumFunction(p))) .. Scale * (Scale - SumFunction(p))
<1>0. Scale \in Nat \ {0} /\ Values \subseteq Int /\ TopK \in Nat \ {0}
  BY CspdAssumption DEF CspdAssumption
<1>1. v \in Values /\ e \in [Top -> Values] /\ cr.state \in [Rows -> Values]
  BY DEF Critics
<1>2. \A j \in Top : successor_values[i][t][j] = IF t \in selected[i] THEN Asked(i, t, j) ELSE <<>>
  BY DEF ScoresAnswer
<1>3. /\ ValueOf(<<>>, cr) = 0 /\ ValueOf(PrefixIds(i, t), cr) = v
      /\ \A j \in Top : ValueOf(Asked(i, t, j), cr) = e[j]
  BY ValueIs
<1>4. \A j \in Top : ValueOf(successor_values[i][t][j], cr) \in Int
  <2> TAKE j \in Top
  <2>1. e[j] \in Int
    BY <1>0, <1>1
  <2> HIDE DEF e
  <2>2. CASE t \in selected[i]
    BY <1>2, <1>3, <2>1, <2>2
  <2>3. CASE t \notin selected[i]
    BY <1>2, <1>3, <2>3
  <2> QED
    BY <2>2, <2>3
<1>5. StateValue(i, t, cr) \in Int
  <2>1. v \in Int
    BY <1>0, <1>1
  <2> HIDE DEF v
  <2> QED
    BY <1>3, <2>1 DEF StateValue
<1>6. s \in [Top -> 0 .. Scale] /\ w \in 0 .. Scale
  BY <1>4, <1>5, SuccessIs
<1>7. g = [top |-> IF valid THEN top ELSE [j \in Top |-> 0],
           tail |-> IF valid THEN tail ELSE 0,
           total |-> IF valid THEN total ELSE 0,
           weight |-> IF valid THEN w ELSE 0]
  <2>1. top = [j \in Top |-> p[j] * Success(ValueOf(successor_values[i][t][j], cr))]
    BY DEF Masses
  <2> QED
    BY <2>1, Zenon DEF PosteriorAt
<1>8. t \in selected[i] => s = [j \in Top |-> Success(e[j])] /\ w = Success(v)
  BY <1>2, <1>3 DEF StateValue
<1> HIDE DEF s, w
<1>9. /\ [top |-> top, tail |-> tail, total |-> total, weight |-> w] \in Cells
      /\ \A j \in Top : top[j] <= Scale * p[j]
      /\ tail <= Scale * (Scale - SumFunction(p))
      /\ SumFunction(top) \in Int /\ tail \in Nat
      /\ \A j \in Top : top[j] <= SumFunction(top)
  BY <1>6, CellIs
<1>10. consistent => /\ 2 * total = Scale * (v + Scale)
                     /\ \A j \in Top : 2 * top[j] = p[j] * (e[j] + Scale)
  <2> SUFFICES ASSUME consistent
               PROVE  /\ 2 * total = Scale * (v + Scale)
                      /\ \A j \in Top : 2 * top[j] = p[j] * (e[j] + Scale)
    OBVIOUS
  <2>1. s = [j \in Top |-> Success(e[j])] /\ w = Success(v)
    BY <1>8
  <2> QED
    BY <1>1, <2>1, BayesIs
<1>11. \A j \in Top : top[j] \in Nat
  BY <1>9 DEF Cells
<1>12. total \in Int
  BY <1>9
<1> HIDE DEF top, tail, total, v, e, g
<1>13. \A j \in Top : 0 <= Scale * p[j]
  <2> TAKE j \in Top
  <2>1. p[j] \in Nat
    BY <1>0, TopProbsAre
  <2> QED
    BY <1>0, <2>1
<1>14. 0 <= Scale * (Scale - SumFunction(p))
  <2>1. PICK c \in Nat : c = Scale - SumFunction(p)
    <3>1. Scale - SumFunction(p) \in Nat
      BY <1>0, TopProbsAre
    <3> QED
      BY <3>1
  <2> QED
    BY <1>0, <2>1
<1>15. CASE valid
  <2>1. g = [top |-> top, tail |-> tail, total |-> total, weight |-> w]
    BY <1>7, <1>15
  <2>2. g.top = top /\ g.tail = tail /\ g.total = total
    BY <2>1
  <2>3. g \in Cells
    BY <1>9, <2>1
  <2> HIDE DEF valid, consistent
  <2> QED
    BY <1>9, <1>10, <2>2, <2>3 DEF g, v, e, consistent
<1>16. CASE ~valid
  <2>1. g = [top |-> [j \in Top |-> 0], tail |-> 0, total |-> 0, weight |-> 0]
    BY <1>7, <1>16
  <2>2. g.top = [j \in Top |-> 0] /\ g.tail = 0 /\ g.total = 0
    BY <2>1
  <2>3. g \in Cells
    <3>1. PICK s2 \in Nat : s2 = Scale * Scale
      BY <1>0
    <3>2. PICK b \in Nat : b = (TopK + 1) * Scale * Scale
      <4>1. PICK c \in Nat : c = (TopK + 1) * Scale
        BY <1>0
      <4> QED
        BY <1>0, <4>1
    <3> QED
      BY <1>0, <2>1, <3>1, <3>2 DEF Cells
  <2>4. consistent => total = 0
    <3> SUFFICES ASSUME consistent  PROVE total = 0
      OBVIOUS
    <3>1. ~(total > 0)
      BY <1>16 DEF Usable
    <3>2. total >= 0
      <4>1. PICK j \in Top : TRUE
        BY TopIsFinite
      <4>2. SumFunction(top) >= 0
        BY <1>9, <1>11
      <4> QED
        BY <1>9, <4>2 DEF total
    <3> QED
      BY <1>12, <3>1, <3>2
  <2>5. consistent => \A j \in Top : top[j] = 0
    <3> SUFFICES ASSUME consistent, NEW j \in Top  PROVE top[j] = 0
      OBVIOUS
    <3>1. total = 0 /\ top[j] <= SumFunction(top) /\ top[j] \in Nat
      BY <1>9, <1>11, <2>4
    <3> QED
      BY <1>9, <3>1 DEF total
  <2>6. consistent => /\ 2 * g.total = Scale * (v + Scale)
                      /\ \A j \in Top : 2 * g.top[j] = p[j] * (e[j] + Scale)
    <3> SUFFICES ASSUME consistent
                 PROVE  /\ 2 * g.total = Scale * (v + Scale)
                        /\ \A j \in Top : 2 * g.top[j] = p[j] * (e[j] + Scale)
      OBVIOUS
    <3>1. g.total = total /\ \A j \in Top : g.top[j] = top[j]
      BY <2>2, <2>4, <2>5
    <3> HIDE DEF consistent
    <3> QED
      BY <1>10, <3>1
  <2>7. \A j \in Top : g.top[j] <= Scale * p[j]
    BY <1>13, <2>2
  <2>8. g.tail <= Scale * (Scale - SumFunction(p))
    BY <1>14, <2>2
  <2> HIDE DEF valid, consistent
  <2> QED
    BY <2>3, <2>6, <2>7, <2>8 DEF g, v, e, consistent
<1> QED
  BY <1>15, <1>16

(***************************************************************************)
(* The inductive invariant                                                 *)
(***************************************************************************)
\* Once the posterior is built it is that of the answers, for some critic and
\* some behaviour policy.
Targeted ==
  /\ critic \in Critics /\ pi_top \in TopProbs
  /\ target = [i \in Rows |-> [t \in Times |-> PosteriorAt(i, t, critic, pi_top)]]

IInv ==
  /\ BatchTypes
  /\ pc \in {"select", "query", "score", "posterior", "done", "failed"}
  /\ selected \in [Rows -> SUBSET Times]
  /\ SelectsMostUncertain
  /\ pc \in {"select", "query"} => queries = <<>>
  /\ pc \in {"score", "posterior", "done", "failed"} => QueriesAsk
  /\ pc \in {"posterior", "done"} => ScoresAnswer
  /\ pc # "done" => target = [i \in Rows |-> [t \in Times |-> NoTarget]]
  /\ pc = "done" => Targeted

\* It holds of the batch the step starts from.
LEMMA InitIsGood == Init => IInv
<1> SUFFICES ASSUME Init  PROVE IInv
  OBVIOUS
<1>1. selected \in [Rows -> SUBSET Times] /\ pc = "select"
  BY DEF Init
<1> QED
  BY <1>1 DEF Init, IInv, BatchTypes, SelectsMostUncertain

\* A step that changes neither the batch nor the selection asks the same.
LEMMA QuestionsKept ==
  ASSUME UNCHANGED <<batch, selected>>
  PROVE  /\ Queries' = Queries
         /\ \A n \in Queries : PlaceOf(n)' = PlaceOf(n) /\ RankOf(n)' = RankOf(n)
         /\ \A i, t, j : Asked(i, t, j)' = Asked(i, t, j)
<1>1. SelectedPositions' = SelectedPositions
  BY Zenon DEF SelectedPositions
<1>2. \A i, t, j : Asked(i, t, j)' = Asked(i, t, j)
  BY DEF Asked, PrefixIds, PromptTokens, SourceIds, Padding
<1>3. Queries' = Queries
  BY <1>1 DEF Queries
<1>4. \A n \in Queries : PlaceOf(n)' = PlaceOf(n) /\ RankOf(n)' = RankOf(n)
  BY <1>1, Zenon DEF PlaceOf, RankOf
<1> QED
  BY <1>2, <1>3, <1>4

\* Nor does it disturb the queries, if it leaves them alone ...
LEMMA QueriesKept ==
  ASSUME QueriesAsk, UNCHANGED <<batch, selected, queries>>
  PROVE  QueriesAsk'
<1> SUFFICES ASSUME NEW n \in Queries
             PROVE  /\ queries[n].start \in 0 .. PromptWidth + ResponseWidth
                    /\ SeenByCritic(queries[n])
                         = Asked(PlaceOf(n)[1], PlaceOf(n)[2], RankOf(n))
                    /\ DOMAIN queries = Queries
  BY QuestionsKept DEF QueriesAsk, SeenByCritic
<1> QED
  BY DEF QueriesAsk

\* ... or the answers ...
LEMMA AnswersKept ==
  ASSUME ScoresAnswer, UNCHANGED <<batch, selected, successor_values>>
  PROVE  ScoresAnswer'
BY DEF ScoresAnswer, Asked, PrefixIds, PromptTokens, SourceIds, Padding

\* ... or what was said of the selection.
LEMMA SelectionKept ==
  ASSUME SelectsMostUncertain, pc # "select", UNCHANGED <<batch, selected>>
  PROVE  SelectsMostUncertain'
BY DEF SelectsMostUncertain

\* Every step keeps the invariant.
LEMMA StepIsGood == IInv /\ [Next]_vars => IInv'
<1> SUFFICES ASSUME IInv, [Next]_vars  PROVE IInv'
  OBVIOUS
<1> USE DEF IInv
<1>1. CASE SelectPrefixes
  <2>1. PICK top \in [Rows -> SUBSET Times] :
          /\ \A i \in Rows : top[i] \in TopPositions(i)
          /\ selected' = [i \in Rows |-> top[i] \cap batch.mask[i]]
    BY <1>1 DEF SelectPrefixes
  <2>2. /\ pc = "select" /\ pc' = "query"
        /\ UNCHANGED <<batch, queries, successor_values, critic, pi_top, target>>
    BY <1>1 DEF SelectPrefixes
  <2>3. selected' \in [Rows -> SUBSET Times]
    BY <2>1
  <2>4. SelectsMostUncertain'
    <3> SUFFICES ASSUME NEW i \in Rows
                 PROVE  /\ selected'[i] \subseteq batch.mask[i]
                        /\ Cardinality(selected'[i])
                              = Min({Max({0, MaxPrefixes}), Cardinality(batch.mask[i])})
                        /\ \A t \in selected'[i], u \in batch.mask[i] \ selected'[i] :
                              batch.entropy[i][u] <= batch.entropy[i][t]
      BY <2>2 DEF SelectsMostUncertain
    <3>1. top[i] \in TopPositions(i) /\ selected'[i] = top[i] \cap batch.mask[i]
      BY <2>1
    <3> QED
      BY <3>1, TopSelects
  <2> QED
    BY <2>2, <2>3, <2>4 DEF BatchTypes
<1>2. CASE MakeSuccessorBatch
  <2>1. /\ pc = "query" /\ pc' = "score"
        /\ UNCHANGED <<batch, selected, successor_values, critic, pi_top, target>>
    BY <1>2 DEF MakeSuccessorBatch
  <2>2. /\ DOMAIN queries' = Queries
        /\ \A n \in Queries :
             /\ queries'[n].start \in 0 .. PromptWidth + ResponseWidth
             /\ SeenByCritic(queries'[n]) = Asked(PlaceOf(n)[1], PlaceOf(n)[2], RankOf(n))
    BY <1>2, QueryStep
  <2>3. QueriesAsk'
    BY <2>1, <2>2, QuestionsKept DEF QueriesAsk, SeenByCritic
  <2> QED
    BY <2>1, <2>3, SelectionKept DEF BatchTypes
<1>3. CASE Score
  <2>1. /\ pc = "score" /\ pc' = "posterior"
        /\ UNCHANGED <<batch, selected, queries, critic, pi_top, target>>
    BY <1>3 DEF Score
  <2>2. successor_values' = [i \in Rows |-> [t \in Times |-> [j \in Top |->
            IF t \in selected[i] THEN Asked(i, t, j) ELSE <<>>]]]
    BY <1>3, <2>1, ScoreStep
  <2>3. ScoresAnswer'
    BY <2>1, <2>2 DEF ScoresAnswer, Asked, PrefixIds, PromptTokens, SourceIds, Padding
  <2>4. QueriesAsk'
    BY <2>1, QueriesKept
  <2> QED
    BY <2>1, <2>3, <2>4, SelectionKept DEF BatchTypes
<1>4. CASE ScoreNotDivisible
  <2>1. /\ pc = "score" /\ pc' = "failed"
        /\ UNCHANGED <<batch, selected, queries, successor_values, critic, pi_top, target>>
    BY <1>4 DEF ScoreNotDivisible
  <2>2. QueriesAsk'
    BY <2>1, QueriesKept
  <2> QED
    BY <2>1, <2>2, SelectionKept DEF BatchTypes
<1>5. CASE BuildSuccessPosterior
  <2>1. /\ pc = "posterior" /\ pc' = "done"
        /\ UNCHANGED <<batch, selected, queries, successor_values>>
    BY <1>5 DEF BuildSuccessPosterior
  <2>2. PICK cr \in Critics, p \in TopProbs :
          /\ critic' = cr
          /\ pi_top' = p
          /\ target' = [i \in Rows |-> [t \in Times |-> PosteriorAt(i, t, cr, p)]]
    BY <1>5, Zenon DEF BuildSuccessPosterior, Critics
  <2>3. Targeted'
    BY <2>1, <2>2 DEF Targeted, PosteriorAt, StateValue, PrefixIds, PromptTokens, SourceIds, Padding
  <2>4. QueriesAsk' /\ ScoresAnswer'
    BY <2>1, QueriesKept, AnswersKept
  <2> QED
    BY <2>1, <2>3, <2>4, SelectionKept DEF BatchTypes
<1>6. CASE UNCHANGED vars
  <2>1. UNCHANGED <<pc, batch, selected, queries, successor_values, critic, pi_top, target>>
    BY <1>6 DEF vars
  <2>2. QueriesAsk => QueriesAsk'
    BY <2>1, QueriesKept
  <2>3. ScoresAnswer => ScoresAnswer'
    BY <2>1, AnswersKept
  <2>4. Targeted => Targeted'
    <3>1. \A i, t : PosteriorAt(i, t, critic, pi_top)' = PosteriorAt(i, t, critic, pi_top)
      BY <2>1 DEF PosteriorAt, StateValue, PrefixIds, PromptTokens, SourceIds, Padding
    <3> QED
      BY <2>1, <3>1 DEF Targeted
  <2>5. SelectsMostUncertain'
    BY <2>1 DEF SelectsMostUncertain
  <2> QED
    BY <2>1, <2>2, <2>3, <2>4, <2>5 DEF BatchTypes
<1> QED
  BY <1>1, <1>2, <1>3, <1>4, <1>5, <1>6 DEF Next

\* So it always holds.
LEMMA Invariance == Spec => []IInv
BY InitIsGood, StepIsGood, PTL DEF Spec

(***************************************************************************)
(* Theorems                                                                *)
(***************************************************************************)
\* The targets in a state of the invariant are cells of masses, and posteriors.
LEMMA GoodTarget ==
  ASSUME IInv, pc = "done", NEW i \in Rows, NEW t \in Times
  PROVE  /\ target[i][t] \in Cells
         /\ \A j \in Top : target[i][t].top[j] <= Scale * pi_top[j]
         /\ target[i][t].tail <= Scale * (Scale - SumFunction(pi_top))
         /\ t \in selected[i] /\ Consistent(i) =>
              /\ 2 * target[i][t].total = Scale * (critic.state[i] + Scale)
              /\ \A j \in Top : 2 * target[i][t].top[j] = pi_top[j] * (critic.successor[j] + Scale)
<1>1. /\ BatchTypes /\ ScoresAnswer /\ selected \in [Rows -> SUBSET Times]
      /\ critic \in Critics /\ pi_top \in TopProbs
      /\ target[i][t] = PosteriorAt(i, t, critic, pi_top)
  BY DEF IInv, Targeted
<1>2. selected[i] \subseteq batch.mask[i]
  BY DEF IInv, SelectsMostUncertain
<1>3. Consistent(i) =>
         /\ InRange(critic.state[i])
         /\ \A j \in Top : InRange(critic.successor[j])
         /\ Scale * critic.state[i] - SumFunction([j \in Top |-> pi_top[j] * critic.successor[j]])
              \in -(Scale * (Scale - SumFunction(pi_top))) .. Scale * (Scale - SumFunction(pi_top))
  BY DEF Consistent
<1> DEFINE g == PosteriorAt(i, t, critic, pi_top)
<1>4. /\ g \in Cells
      /\ \A j \in Top : g.top[j] <= Scale * pi_top[j]
      /\ g.tail <= Scale * (Scale - SumFunction(pi_top))
      /\ (/\ t \in selected[i]
          /\ InRange(critic.state[i])
          /\ \A j \in Top : InRange(critic.successor[j])
          /\ Scale * critic.state[i] - SumFunction([j \in Top |-> pi_top[j] * critic.successor[j]])
               \in -(Scale * (Scale - SumFunction(pi_top))) .. Scale * (Scale - SumFunction(pi_top)))
         => /\ 2 * g.total = Scale * (critic.state[i] + Scale)
            /\ \A j \in Top : 2 * g.top[j] = pi_top[j] * (critic.successor[j] + Scale)
  BY <1>1, <1>2, TargetIs
<1> HIDE DEF g
<1>5. target[i][t] = g
  BY <1>1 DEF g
<1> QED
  BY <1>3, <1>4, <1>5

\* The invariant implies the types ...
LEMMA GoodTypes == IInv => TypeOK
<1> SUFFICES ASSUME IInv  PROVE TypeOK
  OBVIOUS
<1>1. \A n \in DOMAIN queries : queries[n].start \in 0 .. PromptWidth + ResponseWidth
  <2>1. CASE pc \in {"select", "query"}
    BY <2>1 DEF IInv
  <2>2. CASE pc \notin {"select", "query"}
    BY <2>2 DEF IInv, QueriesAsk
  <2> QED
    BY <2>1, <2>2
<1>2. target \in [Rows -> [Times -> Cells]]
  <2>1. CASE pc # "done"
    <3>1. Scale \in Nat \ {0} /\ TopK \in Nat \ {0}
      BY CspdAssumption DEF CspdAssumption
    <3>2. PICK s2 \in Nat : s2 = Scale * Scale
      BY <3>1
    <3>3. PICK b \in Nat : b = (TopK + 1) * Scale * Scale
      <4>1. PICK c \in Nat : c = (TopK + 1) * Scale
        BY <3>1
      <4> QED
        BY <3>1, <4>1
    <3>4. NoTarget \in Cells
      BY <3>1, <3>2, <3>3 DEF NoTarget, Cells
    <3> QED
      BY <2>1, <3>4 DEF IInv
  <2>2. CASE pc = "done"
    <3>1. \A i \in Rows, t \in Times : target[i][t] \in Cells
      BY <2>2, GoodTarget
    <3>2. target = [i \in Rows |-> [t \in Times |-> PosteriorAt(i, t, critic, pi_top)]]
      BY <2>2 DEF IInv, Targeted
    <3>3. \A i \in Rows, t \in Times : PosteriorAt(i, t, critic, pi_top) \in Cells
      <4> TAKE i \in Rows, t \in Times
      <4>1. target[i][t] = PosteriorAt(i, t, critic, pi_top)
        BY <3>2
      <4> QED
        BY <3>1, <4>1
    <3> QED
      BY <3>2, <3>3
  <2> QED
    BY <2>1, <2>2
<1> QED
  BY <1>1, <1>2 DEF IInv, TypeOK, Cells

\* ... that the answers are in their places ...
LEMMA GoodScores == IInv => ScoresAreAligned
<1> SUFFICES ASSUME IInv, pc = "posterior", NEW i \in Rows, NEW t \in Times, NEW j \in Top,
                    t \in selected[i]
             PROVE  successor_values[i][t][j] =
                      [c \in 1 .. batch.prompt[i] |-> PromptToken(i, Padding(i) + c)]
                      \o [u \in 1 .. t - 1 |-> ResponseToken(i, u)]
                      \o <<Candidate(i, t, j)>>
  BY DEF ScoresAreAligned
<1>1. BatchTypes /\ ScoresAnswer
  BY DEF IInv
<1>2. successor_values[i][t][j] = Asked(i, t, j)
  BY <1>1 DEF ScoresAnswer
<1>3. PrefixIds(i, t) = [c \in 1 .. batch.prompt[i] |-> PromptToken(i, Padding(i) + c)]
                        \o [u \in 1 .. t - 1 |-> ResponseToken(i, u)]
  BY <1>1, PrefixIs
<1> QED
  BY <1>2, <1>3 DEF Asked

\* ... and that the targets are posteriors.
LEMMA GoodPosterior == IInv => TargetIsBayesPosterior
<1> SUFFICES ASSUME IInv, pc = "done"  PROVE TargetIsBayesPosterior
  BY DEF TargetIsBayesPosterior
<1>1. selected \in [Rows -> SUBSET Times]
  BY DEF IInv
<1>2. ASSUME NEW i \in Rows, NEW t \in selected[i], Consistent(i)
      PROVE  /\ 2 * target[i][t].total = Scale * (critic.state[i] + Scale)
             /\ \A j \in Top : 2 * target[i][t].top[j] = pi_top[j] * (critic.successor[j] + Scale)
  <2>1. t \in Times
    BY <1>1
  <2> QED
    BY <1>2, <2>1, GoodTarget
<1>3. ASSUME NEW i \in Rows, NEW t \in Times
      PROVE  /\ \A j \in Top : target[i][t].top[j] <= Scale * pi_top[j]
             /\ target[i][t].tail <= Scale * (Scale - SumFunction(pi_top))
  BY GoodTarget
<1> QED
  BY <1>2, <1>3, Zenon DEF TargetIsBayesPosterior

\* Every mass, total and weight is one whatever the critic answers, for every size
\* of the batch and of the candidate set.
THEOREM TypeCorrect == Spec => []TypeOK
BY Invariance, GoodTypes, PTL

\* select_prefixes keeps the most uncertain real positions of a row, as many of
\* them as its quota allows, however topk breaks ties.
THEOREM SelectionIsMostUncertain == Spec => []SelectsMostUncertain
<1>1. IInv => SelectsMostUncertain
  BY DEF IInv
<1> QED
  BY <1>1, Invariance, PTL

\* Compaction, repeat_interleave, left padding, flattening and the scatter
\* together put the critic's answer for each candidate in its own cell.
THEOREM ScoresReachTheirCandidates == Spec => []ScoresAreAligned
BY Invariance, GoodScores, PTL

\* build_success_posterior yields the exact posterior of a consistent critic, and
\* for no critic more mass than the behaviour policy gives.
THEOREM TargetsArePosteriors == Spec => []TargetIsBayesPosterior
BY Invariance, GoodPosterior, PTL
================================================================================
