-------------------------- MODULE PolicyUpdateProofs ---------------------------
(* Theorems about every configuration of PolicyUpdate: the teacher mixes each  *)
(* student once, in order, a policy ratio keeps its reference through the      *)
(* mini-batches and epochs of an update, a rank's gradient holds each row of   *)
(* its mini-batch once and weighed as if undivided, and every mini-batch is an *)
(* optimizer step, taken or, after an overflow, skipped.                       *)
EXTENDS PolicyUpdate, DataLemmas

--------------------------------------------------------------------------------
\* Only the actor's update applies steps to the actor, and between an applied
\* step and the end of the update the student is newer than any in the teacher.
TeacherInv ==
    /\ weights \in [Roles -> Nat]
    /\ teacher \in Seq(Nat)
    /\ did_update \in BOOLEAN
    /\ did_update => fit = "actor" /\ weights.actor > 0
    /\ TeacherMixesNewStudents
    /\ did_update => \A i \in DOMAIN teacher : teacher[i] < weights.actor

\* The invariant holds before the first update.
LEMMA TeacherInit == Init => TeacherInv
<1> SUFFICES ASSUME Init PROVE TeacherInv
  OBVIOUS
<1>1. weights \in [Roles -> Nat] /\ did_update = FALSE
  BY DEF Init
<1>2. teacher \in Seq(Nat) /\ DOMAIN teacher = {}
  BY DEF Init
<1>3. TeacherMixesNewStudents
  BY <1>2 DEF TeacherMixesNewStudents
<1> QED
  BY <1>1, <1>2, <1>3 DEF TeacherInv

\* Steps that leave the weights, the teacher and did_update alone, outside the
\* actor's update or within it.
LEMMA TeacherUntouched ==
  ASSUME TeacherInv, UNCHANGED <<weights, teacher>>,
         did_update' = FALSE \/ (did_update' = did_update /\ (did_update => fit' = fit))
  PROVE  TeacherInv'
<1>1. weights' \in [Roles -> Nat] /\ teacher' \in Seq(Nat) /\ TeacherMixesNewStudents'
  BY DEF TeacherInv, TeacherMixesNewStudents
<1>2. CASE did_update' = FALSE
  BY <1>1, <1>2 DEF TeacherInv
<1>3. CASE did_update' = did_update /\ (did_update => fit' = fit)
  <2>1. did_update' \in BOOLEAN /\ (did_update' => fit' = "actor" /\ weights'.actor > 0)
    BY <1>3 DEF TeacherInv
  <2>2. did_update' => \A i \in DOMAIN teacher' : teacher'[i] < weights'.actor
    BY <1>3 DEF TeacherInv
  <2> QED
    BY <1>1, <2>1, <2>2 DEF TeacherInv
<1> QED
  BY <1>2, <1>3

\* An applied step makes the student newer, a critic's does not touch it.
LEMMA TeacherAfterOptimizerStep ==
  ASSUME TeacherInv, OptimizerStep
  PROVE  TeacherInv'
<1>1. fit \in Roles /\ fit' = fit /\ teacher' = teacher
  BY DEF OptimizerStep, Accumulated, Updating
<1>2. CASE UNCHANGED <<weights, did_update>>
  BY <1>1, <1>2, TeacherUntouched DEF TeacherInv
<1>3. CASE weights' = [weights EXCEPT ![fit] = @ + 1] /\ did_update' = (did_update \/ fit = "actor")
  <2>1. weights' \in [Roles -> Nat]
    BY <1>1, <1>3 DEF TeacherInv, Roles
  <2>2. CASE fit = "actor"
    <3>1. weights'.actor = weights.actor + 1 /\ weights.actor \in Nat
      BY <1>3, <2>2 DEF TeacherInv, Roles
    <3>2. \A i \in DOMAIN teacher : teacher[i] \in 1..weights.actor
      BY DEF TeacherInv, TeacherMixesNewStudents
    <3> QED
      BY <1>1, <1>3, <2>1, <2>2, <3>1, <3>2 DEF TeacherInv, TeacherMixesNewStudents
  <2>3. CASE fit = "critic"
    <3>1. weights'.actor = weights.actor /\ did_update' = did_update /\ ~did_update
      BY <1>3, <2>3 DEF TeacherInv, Roles
    <3> QED
      BY <1>1, <2>1, <3>1 DEF TeacherInv, TeacherMixesNewStudents
  <2> QED
    BY <1>1, <2>2, <2>3 DEF Roles
<1> QED
  BY <1>2, <1>3 DEF OptimizerStep

\* A student is mixed in only after an applied step, so it is the newest.
LEMMA TeacherAfterEndActor ==
  ASSUME TeacherInv, EndActor
  PROVE  TeacherInv'
<1>1. weights' = weights /\ did_update' = FALSE
  BY DEF EndActor, ResetUpdate, optimizerVars
<1>2. CASE teacher' = teacher
  BY <1>1, <1>2, TeacherUntouched
<1>3. CASE did_update /\ teacher' = Append(teacher, weights.actor)
  <2>1. weights.actor \in Nat /\ weights.actor > 0
    BY <1>3 DEF TeacherInv, Roles
  <2>2. /\ teacher' \in Seq(Nat) /\ DOMAIN teacher' = 1..(Len(teacher) + 1)
        /\ DOMAIN teacher = 1..Len(teacher) /\ Len(teacher) \in Nat
        /\ teacher'[Len(teacher) + 1] = weights.actor
        /\ \A i \in DOMAIN teacher : teacher'[i] = teacher[i]
    BY <1>3, <2>1 DEF TeacherInv
  <2>3. \A i \in DOMAIN teacher : teacher[i] < weights.actor /\ teacher[i] \in 1..weights.actor
    BY <1>3 DEF TeacherInv, TeacherMixesNewStudents
  <2>4. \A i \in DOMAIN teacher' : teacher'[i] \in 1..weights.actor
    BY <2>1, <2>2, <2>3
  <2>5. ASSUME NEW i \in DOMAIN teacher', NEW j \in DOMAIN teacher', i < j
        PROVE  teacher'[i] < teacher'[j]
    <3>1. i \in DOMAIN teacher
      BY <2>2, <2>5
    <3>2. CASE j \in DOMAIN teacher
      BY <2>2, <2>5, <3>1, <3>2 DEF TeacherInv, TeacherMixesNewStudents
    <3>3. CASE j = Len(teacher) + 1
      BY <2>2, <2>3, <3>1, <3>3
    <3> QED
      BY <2>2, <3>2, <3>3
  <2> QED
    BY <1>1, <2>2, <2>4, <2>5 DEF TeacherInv, TeacherMixesNewStudents
<1> QED
  BY <1>2, <1>3 DEF EndActor, UpdateTeacher

\* Every step keeps it.
LEMMA TeacherStep == TeacherInv /\ [Next]_vars => TeacherInv'
<1> SUFFICES ASSUME TeacherInv, [Next]_vars
             PROVE  TeacherInv'
  OBVIOUS
<1>1. CASE BeginStep
  <2>1. ~did_update
    BY <1>1 DEF BeginStep, TeacherInv
  <2> QED
    BY <1>1, <2>1, TeacherUntouched DEF BeginStep, updateVars, optimizerVars, TeacherInv
<1>2. CASE StartMiniBatch
  BY <1>2, TeacherUntouched DEF StartMiniBatch, optimizerVars, TeacherInv
<1>3. CASE Backward
  BY <1>3, TeacherUntouched DEF Backward, optimizerVars, TeacherInv
<1>4. CASE OptimizerStep
  BY <1>4, TeacherAfterOptimizerStep
<1>5. CASE EndCritic
  BY <1>5, TeacherUntouched DEF EndCritic, ResetUpdate, optimizerVars
<1>6. CASE EndActor
  BY <1>6, TeacherAfterEndActor
<1>7. CASE EndStep
  <2>1. ~did_update
    BY <1>7 DEF EndStep, TeacherInv
  <2> QED
    BY <1>7, <2>1, TeacherUntouched DEF EndStep, updateVars, optimizerVars, TeacherInv
<1>8. CASE UNCHANGED vars
  BY <1>8, TeacherUntouched DEF vars, updateVars, optimizerVars, TeacherInv
<1>9. CASE UnscaleRaises
  BY <1>9, TeacherUntouched DEF UnscaleRaises, optimizerVars, TeacherInv
<1> QED
  BY <1>1, <1>2, <1>3, <1>4, <1>5, <1>6, <1>7, <1>8, <1>9 DEF Next

\* The EMA teacher's mixes are of ever newer students.
THEOREM TeacherMixesEachStudentOnce == Spec => []TeacherMixesNewStudents
<1>1. TeacherInv => TeacherMixesNewStudents
  BY DEF TeacherInv
<1> QED
  BY <1>1, TeacherInit, TeacherStep, PTL DEF Spec

--------------------------------------------------------------------------------
\* An update that takes its own log probabilities for the old ones is of one
\* mini-batch, which its one optimizer step ends, so its weights are still the
\* ones that old_log_probs would have come from.
Phases == Roles \cup {"begin", "end", "returned"}
RatioInv ==
    /\ fit \in Phases
    /\ weights \in [Roles -> Nat]
    /\ done \in Nat
    /\ ~Updating => gradient = NoGradient /\ done = 0 /\ stage = "split"
    /\ stage = "backward" => done < PerUpdate(fit)
    /\ ~setup.bypass_mode => (fit = "critic" => old.actor = weights.actor)
    /\ ~setup.bypass_mode => (fit = "actor" /\ OnPolicy /\ done = 0 => old.actor = weights.actor)
    /\ RatioToOld

\* The invariant holds before the first update.
LEMMA RatioInit == Init => RatioInv
<1> SUFFICES ASSUME Init PROVE RatioInv
  OBVIOUS
<1>1. fit = "begin" /\ done = 0 /\ stage = "split" /\ gradient = NoGradient
  BY DEF Init
<1>2. weights \in [Roles -> Nat]
  BY DEF Init
<1>3. ~Updating /\ RatioToOld
  BY <1>1 DEF Updating, Roles, RatioToOld
<1> QED
  BY <1>1, <1>2, <1>3 DEF RatioInv, Phases

\* What a term's ratio refers to is the version at the start of the update.
LEMMA ReferenceIsOld ==
  ASSUME RatioInv, Updating, stage = "backward", ~(setup.bypass_mode /\ OnPolicy),
         NEW term \in Terms(fit)
  PROVE  Reference(fit, term) \in {old[fit], NoVersion}
<1>1. CASE fit = "critic"
  BY <1>1 DEF Reference, Terms, HasRatio, Distilled
<1>2. CASE fit = "actor" /\ ~OnPolicy
  BY <1>2 DEF Reference
<1>3. CASE fit = "actor" /\ OnPolicy
  <2>1. PerUpdate("actor") = 1
    BY <1>3 DEF OnPolicy, PerUpdate
  <2>2. done = 0
    BY <1>3, <2>1 DEF RatioInv
  <2>3. old.actor = weights.actor
    BY <1>3, <2>2 DEF RatioInv
  <2> QED
    BY <1>3, <2>3 DEF Reference
<1> QED
  BY <1>1, <1>2, <1>3 DEF Updating, Roles

\* Accumulating a micro-batch keeps the invariant ...
LEMMA RatioAfterBackward ==
  ASSUME RatioInv, Backward
  PROVE  RatioInv'
<1>1. /\ UNCHANGED <<setup, fit, done, stage, weights, old>>
      /\ Updating /\ stage = "backward"
  BY DEF Backward, batchVars, optimizerVars
<1>2. RatioToOld'
  <2> SUFFICES ASSUME Updating', ~(setup.bypass_mode /\ OnPolicy)',
                      NEW d \in Ranks', NEW g \in gradient'[d]
               PROVE  g.against \in {old[fit], NoVersion}
    BY <1>1 DEF RatioToOld, Against
  <2>1. d \in Ranks /\ ~(setup.bypass_mode /\ OnPolicy)
    BY <1>1 DEF Ranks, OnPolicy
  <2> DEFINE added == Contributions(fit, micro + 1, MicroBatchesOf(d)[micro + 1])
  <2>2. g \in gradient[d] \cup added
    BY <2>1 DEF Backward
  <2>3. CASE g \in gradient[d]
    BY <1>1, <2>1, <2>3 DEF RatioInv, RatioToOld, Against
  <2>4. CASE g \in added
    <3>1. PICK term \in Terms(fit) : g.against = Reference(fit, term)
      BY <2>4 DEF Contributions
    <3> QED
      BY <1>1, <2>1, <3>1, ReferenceIsOld
  <2> QED
    BY <2>2, <2>3, <2>4
<1> QED
  BY <1>1, <1>2 DEF RatioInv, Updating, OnPolicy, PerUpdate

\* ... and so does the optimizer step that ends a mini-batch ...
LEMMA RatioAfterOptimizerStep ==
  ASSUME RatioInv, OptimizerStep
  PROVE  RatioInv'
<1>1. /\ UNCHANGED <<setup, fit, old>> /\ Updating
      /\ done' = done + 1 /\ done' \in Nat /\ done' # 0 /\ stage' = "split"
  BY DEF OptimizerStep, Accumulated, batchVars, RatioInv
<1>2. weights' = [weights EXCEPT ![fit] = @ + 1] \/ weights' = weights
  BY DEF OptimizerStep
<1>3. /\ weights' \in [Roles -> Nat]
      /\ fit = "critic" => weights'.actor = weights.actor
  BY <1>1, <1>2 DEF RatioInv, Updating, Roles
<1>4. gradient' = gradient \/ gradient' = NoGradient
  BY DEF OptimizerStep
<1>5. RatioToOld'
  <2>1. CASE gradient' = gradient
    BY <1>1, <2>1 DEF RatioInv, RatioToOld, Against, Updating, OnPolicy, Ranks
  <2>2. CASE gradient' = NoGradient
    BY <1>1, <2>2 DEF RatioToOld, Against, NoGradient, Ranks
  <2> QED
    BY <1>4, <2>1, <2>2
<1> QED
  BY <1>1, <1>3, <1>5 DEF RatioInv, Updating, OnPolicy

\* A step that leaves no gradient, at the start of an update or outside one.
LEMMA RatioWithoutGradient ==
  ASSUME RatioInv, UNCHANGED <<setup, weights>>, fit' \in Phases,
         gradient' = NoGradient, done' = 0, stage' = "split",
         Updating' /\ ~setup.bypass_mode => old'.actor = weights.actor
  PROVE  RatioInv'
<1>1. RatioToOld'
  BY DEF RatioToOld, Against, NoGradient, Ranks
<1> QED
  BY <1>1 DEF RatioInv, Updating, Roles, NoGradient, Ranks

\* ... and every other step.
LEMMA RatioStep == RatioInv /\ [Next]_vars => RatioInv'
<1> SUFFICES ASSUME RatioInv, [Next]_vars
             PROVE  RatioInv'
  OBVIOUS
<1>0. AfterCritic \in {"actor", "end"}
  BY DEF AfterCritic
<1>1. CASE BeginStep
  <2>1. UNCHANGED <<setup, weights>> /\ fit' \in Phases
    BY <1>0, <1>1 DEF BeginStep, optimizerVars, Phases, Roles
  <2>2. gradient' = NoGradient /\ done' = 0 /\ stage' = "split"
    BY <1>1 DEF BeginStep, updateVars, RatioInv, Updating, Roles, NoGradient, Ranks
  <2>3. ~setup.bypass_mode => old'.actor = weights.actor
    BY <1>1 DEF BeginStep
  <2> QED
    BY <2>1, <2>2, <2>3, RatioWithoutGradient
<1>2. CASE StartMiniBatch
  <2>1. /\ UNCHANGED <<setup, fit, done, weights, old>> /\ Updating
        /\ done < PerUpdate(fit) /\ gradient' = NoGradient
    BY <1>2 DEF StartMiniBatch, batchVars, optimizerVars
  <2>2. RatioToOld'
    BY <2>1 DEF RatioToOld, Against, NoGradient, Ranks
  <2> QED
    BY <2>1, <2>2 DEF RatioInv, Updating, OnPolicy, PerUpdate
<1>3. CASE Backward
  BY <1>3, RatioAfterBackward
<1>4. CASE OptimizerStep
  BY <1>4, RatioAfterOptimizerStep
<1>5. CASE EndCritic
  <2>1. UNCHANGED <<setup, weights, old>> /\ fit = "critic" /\ fit' \in Phases
    BY <1>0, <1>5 DEF EndCritic, UpdateOver, batchVars, optimizerVars, Phases, Roles
  <2>2. gradient' = NoGradient /\ done' = 0 /\ stage' = "split"
    BY <1>5 DEF EndCritic, UpdateOver, ResetUpdate
  <2>3. ~setup.bypass_mode => old'.actor = weights.actor
    BY <2>1 DEF RatioInv
  <2> QED
    BY <2>1, <2>2, <2>3, RatioWithoutGradient
<1>6. CASE EndActor
  <2>1. UNCHANGED <<setup, weights>> /\ fit' = "end"
    BY <1>6 DEF EndActor, optimizerVars
  <2>2. gradient' = NoGradient /\ done' = 0 /\ stage' = "split"
    BY <1>6 DEF EndActor, UpdateOver, ResetUpdate
  <2> QED
    BY <2>1, <2>2, RatioWithoutGradient DEF Phases, Updating, Roles
<1>7. CASE EndStep
  <2>1. UNCHANGED <<setup, weights>> /\ fit' \in {"begin", "returned"}
    BY <1>7 DEF EndStep, optimizerVars
  <2>2. gradient' = NoGradient /\ done' = 0 /\ stage' = "split"
    BY <1>7 DEF EndStep, updateVars, RatioInv, Updating, Roles, NoGradient, Ranks
  <2> QED
    BY <2>1, <2>2, RatioWithoutGradient DEF Phases, Updating, Roles
<1>8. CASE UNCHANGED vars
  <2>1. UNCHANGED <<setup, fit, done, stage, gradient, weights, old>>
    BY <1>8 DEF vars, updateVars, batchVars, optimizerVars
  <2> QED
    BY <2>1 DEF RatioInv, RatioToOld, Against, Updating, OnPolicy, PerUpdate, NoGradient, Ranks
<1>9. CASE UnscaleRaises
  <2>1. UNCHANGED <<setup, fit, done, gradient, weights, old>> /\ Updating /\ stage' = "raised"
    BY <1>9 DEF UnscaleRaises, Accumulated, batchVars, optimizerVars
  <2> QED
    BY <2>1 DEF RatioInv, RatioToOld, Against, Updating, OnPolicy, PerUpdate, NoGradient, Ranks
<1> QED
  BY <1>1, <1>2, <1>3, <1>4, <1>5, <1>6, <1>7, <1>8, <1>9 DEF Next

\* Ratios and value clipping are against the versions of old_log_probs and
\* values through all mini-batches and epochs of an update.
THEOREM RatioIsToOld == Spec => []RatioToOld
<1>1. RatioInv => RatioToOld
  BY DEF RatioInv
<1> QED
  BY <1>1, RatioInit, RatioStep, PTL DEF Spec

--------------------------------------------------------------------------------
\* How the rows of the batch are dealt out.

\* The rows are dealt out evenly, in mini-batches of at least one row.
LEMMA SetupIs ==
  ASSUME NEW s \in Setups, NEW role \in Roles
  PROVE  /\ NumRows(s) \in Nat \ {0} /\ s.dp \in Nat \ {0} /\ s.max_token_len \in Nat \ {0}
         /\ MiniBatchSize(s, role) \in Nat \ {0}
         /\ s[role].ppo_micro_batch_size_per_gpu \in Nat \ {0}
         /\ \E each \in Nat \ {0} : /\ EqualParts(NumRows(s), s.dp, each)
                                    /\ NumRows(s) = each * s.dp
                                    /\ NumRows(s) \div s.dp = each
<1>1. PICK dp \in Nat \ {0} : dp = s.dp
  BY UpdateAssumption
<1>2. PICK n \in Nat \ {0} : n = NumRows(s)
  <2>1. s.prompts \in Nat \ {0} /\ s.n \in Nat \ {0}
    BY UpdateAssumption
  <2>2. \A a, b \in Nat \ {0} : a * b \in Nat \ {0}
    OBVIOUS
  <2> QED
    BY <2>1, <2>2 DEF NumRows
<1>3. s.max_token_len \in Nat \ {0} /\ s[role].ppo_micro_batch_size_per_gpu \in Nat \ {0}
  BY UpdateAssumption
<1>4. MiniBatchSize(s, role) \in Nat \ {0}
  <2>1. s[role].ppo_mini_batch_size \in Nat /\ s.n \in Nat /\ MiniBatchSize(s, role) > 0
    BY UpdateAssumption
  <2>2. PICK x \in Nat : x = s[role].ppo_mini_batch_size * s.n
    BY <2>1
  <2>3. x \div dp \in Nat
    OBVIOUS
  <2>4. MiniBatchSize(s, role) = x \div dp
    BY <1>1, <2>2 DEF MiniBatchSize
  <2> QED
    BY <2>1, <2>3, <2>4
<1>5. n % dp = 0
  BY <1>1, <1>2, UpdateAssumption
<1>6. PICK each \in Nat \ {0} : EqualParts(n, dp, each) /\ n = each * dp /\ n \div dp = each
  <2>1. Divided(n, dp)
    BY <1>5, DividedIs
  <2>2. PICK each \in Nat : EqualParts(n, dp, each) /\ (n > 0 => each > 0)
    BY <2>1, DividedIs
  <2>3. n = each * dp
    <3>1. dp * each = each * dp
      OBVIOUS
    <3> QED
      BY <2>2, <3>1 DEF EqualParts
  <2>4. n \div dp = each
    <3>1. 0 \in 0 .. dp - 1
      OBVIOUS
    <3>2. (each * dp + 0) \div dp = each
      BY <3>1, DivMod
    <3>3. each * dp + 0 = n
      BY <2>3
    <3> QED
      BY <3>2, <3>3
  <2>5. each \in Nat \ {0}
    BY <2>2
  <2> QED
    BY <2>2, <2>3, <2>4, <2>5
<1> QED
  BY <1>1, <1>2, <1>3, <1>4, <1>6, Zenon

\* The lengths that the batch is balanced by.
LEMMA TokensAre ==
  ASSUME NEW s \in Setups
  PROVE  Tokens(s) \in [1..NumRows(s) -> Nat \ {0}]
<1>1. PICK x \in Nat : x = PromptLen
  BY ScaleAssumption
<1>2. \A i \in 1..NumRows(s) : s.lens[i] \in Nat \ {0}
  BY UpdateAssumption
<1>3. \A i \in 1..NumRows(s) : s.lens[i] + x \in Nat \ {0}
  BY <1>2
<1> QED
  BY <1>1, <1>3 DEF Tokens

\* Balanced or not, every row of the batch is handed to a rank, once.
LEMMA OrderLists ==
  ASSUME NEW s \in Setups
  PROVE  Lists(Order(s), 1..NumRows(s)) /\ Len(Order(s)) = NumRows(s)
<1>1. "actor" \in Roles
  BY DEF Roles
<1>2. PICK n \in Nat \ {0} : n = NumRows(s)
  BY <1>1, SetupIs
<1>3. PICK dp \in Nat \ {0} : dp = s.dp
  BY <1>1, SetupIs
<1>4. PICK each \in Nat \ {0} : n = each * dp
  BY <1>1, <1>2, <1>3, SetupIs
<1>5. PICK tokens : tokens = Tokens(s) /\ tokens \in [1..n -> Nat \ {0}]
  BY <1>2, TokensAre
<1>6. Lists(BalancedOrder(tokens, dp), 1..n)
  BY <1>4, <1>5, BalancedOrderLists
<1>7. PICK same : same = [i \in 1..n |-> i]
  OBVIOUS
<1>8. Lists(same, 1..n)
  BY <1>7 DEF Lists
<1>9. Order(s) = BalancedOrder(tokens, dp) \/ Order(s) = same
  BY <1>2, <1>3, <1>5, <1>7, Zenon DEF Order
<1>10. Lists(Order(s), 1..n)
  BY <1>6, <1>8, <1>9
<1>11. Cardinality(1..n) = Len(Order(s)) /\ Cardinality(1..n) = n
  BY <1>10, ListLength, UpToIsFinite
<1> QED
  BY <1>2, <1>10, <1>11

\* The ranks' parts of a mini-batch are of one size, and a row is in one once.
LEMMA MiniBatchIs ==
  ASSUME NEW s \in Setups, NEW role \in Roles, NEW m \in 1..NumMiniBatches(s, role)
  PROVE  \E size \in 1..MiniBatchSize(s, role) : \A d \in 1..s.dp :
            \E rows \in Seq(1..NumRows(s)) :
               rows = MiniBatches(s, role, d)[m] /\ Len(rows) = size /\ Lists(rows, Elements(rows))
<1>1. PICK n \in Nat \ {0} : n = NumRows(s)
  BY SetupIs
<1>2. PICK dp \in Nat \ {0} : dp = s.dp
  BY SetupIs
<1>3. PICK each \in Nat \ {0} : EqualParts(n, dp, each) /\ n \div dp = each
  BY <1>1, <1>2, SetupIs
<1>4. PICK mini \in Nat \ {0} : mini = MiniBatchSize(s, role)
  BY SetupIs
<1>5. PICK k : k = CeilDiv(each, mini)
  OBVIOUS
<1>6. k = NumMiniBatches(s, role)
  BY <1>1, <1>2, <1>3, <1>4, <1>5, Zenon DEF NumMiniBatches
<1>7. k \in Nat /\ \A p \in 1 .. k : PieceLength(each, mini, p) \in 1 .. mini
  BY <1>5, PieceEnds
<1>8. PICK order : order = Order(s) /\ Lists(order, 1..n) /\ Len(order) = n
  BY <1>1, OrderLists
<1>9. m \in 1 .. k
  BY <1>6
<1>10. PICK size \in 1 .. mini : size = PieceLength(each, mini, m)
  BY <1>7, <1>9
<1>11. ASSUME NEW d \in 1 .. dp
       PROVE  \E rows \in Seq(1..n) :
                 rows = MiniBatches(s, role, d)[m] /\ Len(rows) = size /\ Lists(rows, Elements(rows))
  <2>1. EqualParts(Len(order), dp, each)
    BY <1>3, <1>8
  <2>2. PICK chunk \in Seq(1..n) :
            chunk = Chunk(order, dp)[d] /\ Len(chunk) = each /\ Lists(chunk, Elements(chunk))
    BY <1>8, <2>1, ChunkLists
  <2>3. PICK V : V = Elements(chunk)
    OBVIOUS
  <2>4. V \subseteq 1..n
    BY <2>2, <2>3 DEF Elements
  <2>5. PICK pieces : pieces = Split(chunk, mini)
    OBVIOUS
  <2>6. IsCut(pieces, V, k) /\ Len(pieces[m]) = PieceLength(each, mini, m)
    BY <1>5, <1>9, <2>2, <2>3, <2>5, SplitIsCut
  <2>7. MiniBatches(s, role, d) = pieces
    BY <1>2, <1>4, <1>8, <2>2, <2>5, Zenon DEF MiniBatches
  <2>8. pieces[m] \in Seq(V) /\ Lists(pieces[m], Elements(pieces[m]))
    BY <1>9, <2>6 DEF IsCut
  <2>9. PICK rows : rows = pieces[m]
    OBVIOUS
  <2>10. rows \in Seq(1..n)
    BY <2>4, <2>8, <2>9, SequenceOver
  <2>11. Len(rows) = size
    BY <1>10, <2>6, <2>9
  <2> QED
    BY <2>7, <2>8, <2>9, <2>10, <2>11
<1> QED
  BY <1>1, <1>2, <1>4, <1>11

\* The ranks' shares of a mini-batch, of one size.
SharesAre(s, rows, size) ==
  \A d \in 1..s.dp : /\ rows[d] \in Seq(1..NumRows(s)) /\ Len(rows[d]) = size
                     /\ Lists(rows[d], Elements(rows[d]))

\* The lengths of some rows.
LEMMA TokensOf ==
  ASSUME NEW s \in Setups, NEW size \in Nat, NEW rows \in Seq(1..NumRows(s)), Len(rows) = size
  PROVE  AtIndices(Tokens(s), rows) \in [1 .. size -> Nat \ {0}]
<1>1. PICK tokens \in [1..NumRows(s) -> Nat \ {0}] : tokens = Tokens(s)
  BY TokensAre
<1>2. \A q \in 1 .. size : rows[q] \in 1..NumRows(s)
  BY ElementsIn
<1>3. DOMAIN rows = 1 .. size
  OBVIOUS
<1>4. AtIndices(tokens, rows) = [q \in 1 .. size |-> tokens[rows[q]]]
  BY <1>3 DEF AtIndices
<1>5. \A q \in 1 .. size : tokens[rows[q]] \in Nat \ {0}
  BY <1>1, <1>2
<1>6. AtIndices(tokens, rows) \in [1 .. size -> Nat \ {0}]
  BY <1>4, <1>5
<1> QED
  BY <1>1, <1>6

\* The number that the ranks agree on is one that each can make.
LEMMA CountIs ==
  ASSUME NEW dp \in Nat \ {0}, NEW size \in Nat, NEW wanted \in [1 .. dp -> 1 .. size], NEW d
  PROVE  MicroBatchCount(wanted, d) \in 1 .. size
<1> DEFINE W == {wanted[e] : e \in 1 .. dp}
<1>1. W \subseteq 1 .. size /\ W # {}
  <2>1. 1 \in 1 .. dp
    OBVIOUS
  <2> QED
    BY <2>1
<1>2. MicroBatchCount(wanted, d) = CHOOSE c \in W : \A e \in 1 .. dp : wanted[e] <= c
  BY DEF MicroBatchCount
<1>3. \A e \in 1 .. dp : wanted[e] \in W
  OBVIOUS
<1> HIDE DEF W
<1>4. W \subseteq Int /\ size \in Int /\ \A y \in W : y <= size
  BY <1>1
<1>5. PICK m \in W : m = Max(W) /\ \A y \in W : Max(W) >= y
  BY <1>1, <1>4, MaxIs
<1>6. \A e \in 1 .. dp : wanted[e] <= m
  <2> SUFFICES ASSUME NEW e \in 1 .. dp  PROVE wanted[e] <= m
    OBVIOUS
  <2>1. wanted[e] \in W /\ m >= wanted[e] /\ wanted[e] \in Int /\ m \in Int
    BY <1>3, <1>4, <1>5
  <2> QED
    BY <2>1
<1>7. MicroBatchCount(wanted, d) \in W
  BY <1>2, <1>6, Zenon
<1> QED
  BY <1>1, <1>7

\* A rank's micro-batches have its rows, each in one of them and none empty; cut
\* at a fixed size, they are of that size but for the last one.
LEMMA DividedRowsAre ==
  ASSUME NEW s \in Setups, NEW role \in Roles, NEW size \in Nat \ {0},
         NEW rows, SharesAre(s, rows, size), NEW d \in 1..s.dp
  PROVE  \E k \in Nat : \E parts :
            /\ parts = DividedRows(s, role, rows)[d] /\ IsCut(parts, Elements(rows[d]), k)
            /\ ~s.use_dynamic_bsz =>
                 /\ k = CeilDiv(size, s[role].ppo_micro_batch_size_per_gpu)
                 /\ \A p \in 1 .. k :
                      Len(parts[p]) = PieceLength(size, s[role].ppo_micro_batch_size_per_gpu, p)
<1>1. PICK dp \in Nat \ {0} : dp = s.dp
  BY SetupIs
<1>2. PICK max \in Nat \ {0} : max = s.max_token_len
  BY SetupIs
<1>3. PICK micro_size \in Nat \ {0} : micro_size = s[role].ppo_micro_batch_size_per_gpu
  BY SetupIs
<1> DEFINE lens == [e \in 1 .. dp |-> AtIndices(Tokens(s), rows[e])]
           wanted == [e \in 1 .. dp |-> MicroBatchesWanted(lens[e], max)]
<1>4. DividedRows(s, role, rows)[d] =
        IF s.use_dynamic_bsz THEN ByIndex(rows[d], MicroBatches(lens[d], MicroBatchCount(wanted, d)))
        ELSE Split(rows[d], micro_size)
  BY <1>1, <1>2, <1>3, Zenon DEF DividedRows
<1>5. /\ rows[d] \in Seq(1..NumRows(s)) /\ Len(rows[d]) = size
      /\ Lists(rows[d], Elements(rows[d]))
  BY DEF SharesAre
<1>6. PICK mine : mine = rows[d]
  OBVIOUS
<1>7. PICK V : V = Elements(mine) /\ Lists(mine, V) /\ Len(mine) = size
  BY <1>5, <1>6
<1>8. CASE s.use_dynamic_bsz
  <2>1. \A e \in 1 .. dp : lens[e] \in [1 .. size -> Nat \ {0}]
    <3> SUFFICES ASSUME NEW e \in 1 .. dp  PROVE lens[e] \in [1 .. size -> Nat \ {0}]
      OBVIOUS
    <3>1. rows[e] \in Seq(1..NumRows(s)) /\ Len(rows[e]) = size
      BY <1>1 DEF SharesAre
    <3>2. PICK theirs \in Seq(1..NumRows(s)) : theirs = rows[e] /\ Len(theirs) = size
      BY <3>1
    <3>3. AtIndices(Tokens(s), theirs) \in [1 .. size -> Nat \ {0}]
      BY <3>2, TokensOf
    <3> QED
      BY <3>2, <3>3
  <2> HIDE DEF lens
  <2>2. \A e \in 1 .. dp : MicroBatchesWanted(lens[e], max) \in 1 .. size
    BY <2>1, WantedIs
  <2>3. wanted \in [1 .. dp -> 1 .. size]
    BY <2>2
  <2> HIDE DEF wanted
  <2>4. PICK k \in 1 .. size : k = MicroBatchCount(wanted, d)
    BY <2>3, CountIs
  <2>5. PICK parts : parts = MicroBatches(lens[d], k)
    OBVIOUS
  <2>6. PICK l \in [1 .. size -> Nat \ {0}] : l = lens[d]
    BY <1>1, <2>1
  <2>7. k \in Nat \ {0} /\ k <= size
    OBVIOUS
  <2>8. IsPartition(parts, size, k)
    BY <2>5, <2>6, <2>7, MicroBatchesAre
  <2>9. PICK t : t = [p \in 1 .. k |-> AtIndices(mine, parts[p])]
    OBVIOUS
  <2>10. DOMAIN parts = 1 .. k
    BY <2>8 DEF IsPartition
  <2>11. t = ByIndex(mine, parts)
    BY <2>9, <2>10, Zenon DEF ByIndex
  <2>12. IsCut(t, V, k)
    BY <1>7, <2>7, <2>8, <2>9, PartsOfPlaces
  <2>13. t = DividedRows(s, role, rows)[d]
    BY <1>4, <1>6, <1>8, <2>4, <2>5, <2>11, Zenon
  <2> QED
    BY <1>6, <1>7, <1>8, <2>7, <2>12, <2>13
<1>9. CASE ~s.use_dynamic_bsz
  <2>1. PICK k : k = CeilDiv(size, micro_size)
    OBVIOUS
  <2>2. /\ k \in Nat /\ IsCut(Split(mine, micro_size), V, k)
        /\ \A p \in 1 .. k : Len(Split(mine, micro_size)[p]) = PieceLength(size, micro_size, p)
    BY <1>7, <2>1, SplitIsCut
  <2>3. PICK t : t = Split(mine, micro_size)
    OBVIOUS
  <2>4. t = DividedRows(s, role, rows)[d]
    BY <1>4, <1>6, <1>9, <2>3, Zenon
  <2> HIDE DEF lens, wanted
  <2> QED
    BY <1>3, <1>6, <1>7, <2>1, <2>2, <2>3, <2>4
<1> QED
  BY <1>8, <1>9

\* What a rank has of a mini-batch, and its micro-batches of it.
IsShare(rows, s, role, size) ==
  /\ rows \in Seq(1..NumRows(s)) /\ Len(rows) = size /\ Lists(rows, Elements(rows))
  /\ size \in 1..MiniBatchSize(s, role)
IsDivided(parts, rows, s, role, size, k) ==
  /\ IsCut(parts, Elements(rows), k)
  /\ ~s.use_dynamic_bsz =>
       /\ k = CeilDiv(size, s[role].ppo_micro_batch_size_per_gpu)
       /\ \A p \in 1 .. k : Len(parts[p]) = PieceLength(size, s[role].ppo_micro_batch_size_per_gpu, p)

\* The plan deals out each mini-batch's rows, each once.
LEMMA PlanIs ==
  ASSUME NEW s \in Setups, NEW role \in Roles, NEW m \in 1..NumMiniBatches(s, role), NEW d \in 1..s.dp
  PROVE  \E size \in Nat \ {0} : \E k \in Nat :
            /\ IsShare(MiniBatches(s, role, d)[m], s, role, size)
            /\ IsDivided(Plan[s][role][m][d], MiniBatches(s, role, d)[m], s, role, size, k)
<1>1. PICK size \in 1..MiniBatchSize(s, role) : \A e \in 1..s.dp :
            \E rows \in Seq(1..NumRows(s)) :
               rows = MiniBatches(s, role, e)[m] /\ Len(rows) = size /\ Lists(rows, Elements(rows))
  BY MiniBatchIs
<1>2. size \in Nat \ {0}
  BY SetupIs
<1>3. PICK shares : shares = [e \in 1..s.dp |-> MiniBatches(s, role, e)[m]]
  OBVIOUS
<1>4. SharesAre(s, shares, size)
  BY <1>1, <1>3 DEF SharesAre
<1>5. PICK k \in Nat : \E parts :
            /\ parts = DividedRows(s, role, shares)[d] /\ IsCut(parts, Elements(shares[d]), k)
            /\ ~s.use_dynamic_bsz =>
                 /\ k = CeilDiv(size, s[role].ppo_micro_batch_size_per_gpu)
                 /\ \A p \in 1 .. k :
                      Len(parts[p]) = PieceLength(size, s[role].ppo_micro_batch_size_per_gpu, p)
  BY <1>2, <1>4, DividedRowsAre
<1>6. Plan[s][role][m] = DividedRows(s, role, shares)
  BY <1>3, Zenon DEF Plan, DividedMiniBatch
<1>7. shares[d] = MiniBatches(s, role, d)[m]
  BY <1>3
<1>8. IsDivided(Plan[s][role][m][d], MiniBatches(s, role, d)[m], s, role, size, k)
  BY <1>5, <1>6, <1>7, Zenon DEF IsDivided
<1>9. IsShare(MiniBatches(s, role, d)[m], s, role, size)
  BY <1>1, Zenon DEF IsShare
<1> QED
  BY <1>2, <1>8, <1>9

--------------------------------------------------------------------------------
\* What the rows of a micro-batch weigh.

\* What is in a sequence.
LEMMA ToSetIs ==
  ASSUME NEW V, NEW rows \in Seq(V)
  PROVE  ToSet(rows) = Elements(rows) /\ Elements(rows) \subseteq V
<1>1. PICK m \in Nat : m = Len(rows) /\ DOMAIN rows = 1 .. m
  OBVIOUS
<1>2. ToSet(rows) = Elements(rows)
  BY <1>1, Zenon DEF ToSet, Elements
<1>3. \A q \in 1 .. m : rows[q] \in V
  BY <1>1, ElementsIn
<1> QED
  BY <1>1, <1>2, <1>3 DEF Elements

\* A row's width is at most its length, and one when sequences are averaged.
LEMMA WidthIs ==
  ASSUME setup \in Setups, NEW role \in Roles, NEW term, NEW r \in Rows
  PROVE  /\ Width(role, term, r) \in Nat \ {0} /\ setup.lens[r] \in Nat \ {0}
         /\ Width(role, term, r) <= setup.lens[r]
         /\ ~AveragesTokens(role, term) => Width(role, term, r) = 1
<1>1. PICK l \in Nat \ {0} : l = setup.lens[r]
  BY UpdateAssumption DEF Rows
<1>2. PICK x \in Nat \ {0} : x = setup.max_prefixes
  BY UpdateAssumption
<1>3. PICK w : w = Width(role, term, r)
  OBVIOUS
<1>4. CASE ~AveragesTokens(role, term)
  <2>1. w = 1
    BY <1>3, <1>4 DEF Width, AveragesTokens
  <2> QED
    BY <1>1, <1>3, <1>4, <2>1
<1>5. CASE AveragesTokens(role, term)
  <2>1. (w = x /\ l > x) \/ w = l
    BY <1>1, <1>2, <1>3, <1>5 DEF Width, AveragesTokens
  <2> QED
    BY <1>1, <1>3, <1>5, <2>1
<1> QED
  BY <1>4, <1>5

\* The fraction that scales a micro-batch's loss.
LEMMA LossScaleIs ==
  ASSUME setup \in Setups, NEW role \in Roles, NEW rows, Len(rows) \in Nat \ {0}
  PROVE  /\ LossScale(role, rows).num \in Nat \ {0}
         /\ LossScale(role, rows).den \in 1..MiniBatchSize(setup, role)
         /\ setup.use_dynamic_bsz => /\ LossScale(role, rows).num = Len(rows)
                                     /\ LossScale(role, rows).den = MiniBatchSize(setup, role)
         /\ ~setup.use_dynamic_bsz =>
              /\ LossScale(role, rows).num = 1
              /\ MiniBatchSize(setup, role) =
                   LossScale(role, rows).den * setup[role].ppo_micro_batch_size_per_gpu
<1>1. PICK mini \in Nat \ {0} : mini = MiniBatchSize(setup, role)
  BY SetupIs
<1>2. PICK size \in Nat \ {0} : size = setup[role].ppo_micro_batch_size_per_gpu
  BY SetupIs
<1>3. CASE setup.use_dynamic_bsz
  <2>1. LossScale(role, rows) = [num |-> Len(rows), den |-> mini]
    BY <1>1, <1>3 DEF LossScale
  <2>2. mini \in 1 .. mini
    OBVIOUS
  <2> QED
    BY <1>1, <1>3, <2>1, <2>2
<1>4. CASE ~setup.use_dynamic_bsz
  <2>1. mini % size = 0
    BY <1>1, <1>2, <1>4, UpdateAssumption
  <2>2. PICK den \in Nat : EqualParts(mini, size, den) /\ (mini > 0 => den > 0)
    BY <2>1, DividedIs
  <2>3. mini = size * den /\ size * den = den * size
    BY <2>2 DEF EqualParts
  <2>4. mini \div size = den
    <3>1. 0 \in 0 .. size - 1
      OBVIOUS
    <3>2. (den * size + 0) \div size = den
      BY <3>1, DivMod
    <3> QED
      BY <2>3, <3>2
  <2>5. den \in 1 .. mini
    <3>1. PICK o \in Nat : size = o + 1
      <4>1. size - 1 \in Nat /\ size = (size - 1) + 1
        OBVIOUS
      <4> QED
        BY <4>1
    <3>2. (o + 1) * den = o * den + den /\ o * den \in Nat
      OBVIOUS
    <3>3. mini >= den
      BY <2>3, <3>1, <3>2
    <3> QED
      BY <2>2, <3>3
  <2>6. LossScale(role, rows) = [num |-> 1, den |-> den]
    BY <1>1, <1>2, <1>4, <2>4 DEF LossScale
  <2>7. mini = den * size
    BY <2>3
  <2> QED
    BY <1>1, <1>2, <1>4, <2>5, <2>6, <2>7
<1> QED
  BY <1>3, <1>4

\* The rows are finitely many.
LEMMA RowsFinite ==
  ASSUME setup \in Setups
  PROVE  IsFiniteSet(Rows) /\ \A C \in SUBSET Rows : IsFiniteSet(C)
<1>1. "actor" \in Roles
  BY DEF Roles
<1>2. PICK n \in Nat : n = NumRows(setup)
  BY <1>1, SetupIs
<1>3. IsFiniteSet(1 .. n)
  BY UpToIsFinite
<1>4. IsFiniteSet(Rows)
  BY <1>2, <1>3 DEF Rows
<1> QED
  BY <1>4, FS_Subset

\* The tokens of the batch's responses.
AllTokens == Total([i \in 1..NumRows(setup) |-> setup.lens[i]])

\* The width of some rows is at most that of the batch.
LEMMA WidthsBound ==
  ASSUME setup \in Setups, NEW role \in Roles, NEW term, NEW C \in SUBSET Rows, C # {}
  PROVE  /\ [q \in C |-> Width(role, term, q)] \in [C -> Nat]
         /\ SumFunction([q \in C |-> Width(role, term, q)])
              \in 1..AllTokens
<1> DEFINE g == [q \in C |-> Width(role, term, q)]
           f == [i \in Rows |-> setup.lens[i]]
<1>1. \A q \in C : /\ Width(role, term, q) \in Nat \ {0} /\ setup.lens[q] \in Nat \ {0}
                   /\ Width(role, term, q) <= setup.lens[q]
  BY WidthIs
<1>2. g \in [C -> Nat] /\ \A q \in C : g[q] > 0
  BY <1>1
<1>3. f \in [Rows -> Nat]
  BY UpdateAssumption DEF Rows
<1>4. \A q \in C : g[q] <= f[q]
  BY <1>1
<1>5. AllTokens = SumFunction(f)
  BY Zenon DEF AllTokens, Total, Rows
<1>6. IsFiniteSet(Rows) /\ IsFiniteSet(C)
  BY RowsFinite
<1> HIDE DEF g, f
<1>7. SumFunction(g) <= SumFunction(f)
  BY <1>2, <1>3, <1>4, <1>6, SumNotLarger
<1>8. SumFunction(g) \in Nat /\ SumFunction(f) \in Nat /\ \A q \in C : g[q] <= SumFunction(g)
  BY <1>2, <1>3, <1>6, SumNatural
<1>9. PICK q \in C : TRUE
  OBVIOUS
<1>10. SumFunction(g) >= 1
  BY <1>2, <1>8, <1>9
<1>11. SumFunction(g) \in 1 .. SumFunction(f)
  BY <1>7, <1>8, <1>10
<1> QED
  BY <1>2, <1>5, <1>11 DEF g

\* Scale is a multiple of every denominator.
LEMMA ScaleIs ==
  ASSUME setup \in Setups, NEW role \in Roles, NEW den \in 1..MiniBatchSize(setup, role),
         NEW width \in 1..AllTokens
  PROVE  \E x \in Nat \ {0} : \E K \in Nat : x = den * width /\ Scale = K * x
<1>1. PICK c \in Nat \ {0} : c = Scale
  BY ScaleAssumption
<1>2. Scale % (den * width) = 0
  BY ScaleAssumption DEF AllTokens
<1>3. den \in Nat \ {0}
  BY SetupIs
<1>4. width \in Nat \ {0}
  <2>1. PICK n \in Nat : n = NumRows(setup)
    BY SetupIs
  <2>2. [i \in 1 .. n |-> setup.lens[i]] \in [1 .. n -> Nat \ {0}]
    BY <2>1, UpdateAssumption
  <2>3. PICK l : l = [i \in 1 .. n |-> setup.lens[i]] /\ l \in [1 .. n -> Nat \ {0}]
    BY <2>2
  <2>4. Total(l) \in Nat
    BY <2>3, TotalIs
  <2> QED
    BY <2>1, <2>3, <2>4 DEF AllTokens
<1>5. PICK x \in Nat \ {0} : x = den * width
  <2>1. \A a, b \in Nat \ {0} : a * b \in Nat \ {0}
    OBVIOUS
  <2> QED
    BY <1>3, <1>4, <2>1
<1>6. c % x = 0
  BY <1>1, <1>2, <1>5
<1>7. Divided(c, x)
  BY <1>6, DividedIs
<1>8. PICK K \in Nat : c = K * x
  BY <1>7, Zenon DEF Divided
<1> QED
  BY <1>1, <1>5, <1>8

\* How a term weighs the rows of a micro-batch that its mask keeps: the weights
\* of all of them add up to num/den of Scale.
WidthOf(role, term, rows) ==
  SumFunction([q \in Counted(term, rows) |-> Width(role, term, q)])
Weighs(role, term, rows, K, num, den, width) ==
  /\ num = LossScale(role, rows).num /\ den = LossScale(role, rows).den
  /\ width = WidthOf(role, term, rows)
  /\ Scale = K * (den * width)
  /\ \A r \in Counted(term, rows) : Weight(role, term, rows, r) = K * (num * Width(role, term, r))

\* The rows that a term's mask keeps are among those of the micro-batch.
LEMMA CountedIs ==
  ASSUME setup \in Setups, NEW term, NEW rows \in Seq(Rows)
  PROVE  /\ Counted(term, rows) = {r \in Elements(rows) : Counts(term, r)}
         /\ Counted(term, rows) \in SUBSET Rows /\ IsFiniteSet(Counted(term, rows))
<1>1. ToSet(rows) = Elements(rows) /\ Elements(rows) \subseteq Rows
  BY ToSetIs
<1>2. Counted(term, rows) = {r \in Elements(rows) : Counts(term, r)}
  BY <1>1, Zenon DEF Counted
<1>3. Counted(term, rows) \in SUBSET Rows
  BY <1>1, <1>2
<1> QED
  BY <1>2, <1>3, RowsFinite

\* A row's weight is its share of the micro-batch's, without a remainder.
LEMMA WeightsAre ==
  ASSUME setup \in Setups, NEW role \in Roles, NEW term, NEW rows \in Seq(Rows), rows # <<>>,
         Counted(term, rows) # {}
  PROVE  \E K \in Nat : \E num \in Nat \ {0} : \E den \in Nat \ {0} : \E width \in Nat \ {0} :
            Weighs(role, term, rows, K, num, den, width)
<1>1. Len(rows) \in Nat \ {0}
  OBVIOUS
<1>2. PICK num \in Nat \ {0} : num = LossScale(role, rows).num
  BY <1>1, LossScaleIs
<1>3. PICK den \in 1..MiniBatchSize(setup, role) : den = LossScale(role, rows).den
  BY <1>1, LossScaleIs
<1>4. den \in Nat \ {0}
  BY SetupIs
<1>5. PICK C : C = Counted(term, rows) /\ C \in SUBSET Rows /\ C # {}
  BY CountedIs
<1>7. SumFunction([q \in C |-> Width(role, term, q)]) \in 1 .. AllTokens
  BY <1>5, WidthsBound
<1>8. PICK width \in 1 .. AllTokens : width = SumFunction([q \in C |-> Width(role, term, q)])
  BY <1>7
<1>9. PICK x \in Nat \ {0} : \E K \in Nat : x = den * width /\ Scale = K * x
  BY ScaleIs
<1>10. PICK K \in Nat : x = den * width /\ Scale = K * x
  BY <1>9
<1>11. width \in Nat \ {0}
  <2>1. \A b : \A y \in 1 .. b : y \in Nat \ {0}
    OBVIOUS
  <2> QED
    BY <2>1
<1>12. ASSUME NEW r \in C
       PROVE  Weight(role, term, rows, r) = K * (num * Width(role, term, r))
  <2>1. r \in Rows
    BY <1>5
  <2>2. PICK w \in Nat : w = Width(role, term, r)
    BY <2>1, WidthIs
  <2>3. PICK y \in Nat : y = num * w
    <3>1. num * w \in Nat
      OBVIOUS
    <3> QED
      BY <3>1
  <2>4. PICK q \in Nat : q = K * y
    <3>1. K * y \in Nat
      OBVIOUS
    <3> QED
      BY <3>1
  <2>5. (K * x) * num * w = q * x
    <3>1. (K * x) * num * w = (K * x) * (num * w)
      OBVIOUS
    <3>2. (K * x) * y = (K * y) * x
      OBVIOUS
    <3> QED
      BY <2>3, <2>4, <3>1, <3>2
  <2>6. (q * x) \div x = q
    <3>1. 0 \in 0 .. x - 1
      OBVIOUS
    <3>2. (q * x + 0) \div x = q
      BY <3>1, DivMod
    <3>3. q * x + 0 = q * x
      OBVIOUS
    <3> QED
      BY <3>2, <3>3
  <2>7. Weight(role, term, rows, r) = ((K * x) * num * w) \div x
    <3>1. Weight(role, term, rows, r) = (Scale * num * w) \div (den * width)
      BY <1>2, <1>3, <1>5, <1>8, <2>2, Zenon DEF Weight
    <3> QED
      BY <1>10, <3>1, Zenon
  <2> QED
    BY <2>2, <2>3, <2>4, <2>5, <2>6, <2>7, Zenon
<1>13. Weighs(role, term, rows, K, num, den, width)
  BY <1>2, <1>3, <1>5, <1>8, <1>10, <1>12, Zenon DEF Weighs, WidthOf
<1> QED
  BY <1>4, <1>11, <1>13

\* The weights of a micro-batch add up to its fraction of Scale.
LEMMA WeightsAddUp ==
  ASSUME setup \in Setups, NEW role \in Roles, NEW term, NEW rows \in Seq(Rows), rows # <<>>,
         Counted(term, rows) # {}
  PROVE  /\ [r \in Counted(term, rows) |-> Weight(role, term, rows, r)]
              \in [Counted(term, rows) -> Nat]
         /\ LossScale(role, rows).den
              * SumFunction([r \in Counted(term, rows) |-> Weight(role, term, rows, r)])
              = LossScale(role, rows).num * Scale
<1>1. PICK K \in Nat : \E num \in Nat \ {0} : \E den \in Nat \ {0} : \E width \in Nat \ {0} :
            Weighs(role, term, rows, K, num, den, width)
  BY WeightsAre
<1>2. PICK num \in Nat \ {0} : \E den \in Nat \ {0} : \E width \in Nat \ {0} :
            Weighs(role, term, rows, K, num, den, width)
  BY <1>1
<1>3. PICK den \in Nat \ {0} : \E width \in Nat \ {0} :
            Weighs(role, term, rows, K, num, den, width)
  BY <1>2
<1>4. PICK width \in Nat \ {0} : Weighs(role, term, rows, K, num, den, width)
  BY <1>3
<1>5. PICK C : C = Counted(term, rows) /\ C \in SUBSET Rows /\ IsFiniteSet(C)
  BY CountedIs
<1> DEFINE f == [r \in C |-> Weight(role, term, rows, r)]
           e == [r \in C |-> Width(role, term, r)]
<1>6. PICK y \in Nat : y = K * num
  <2>1. K * num \in Nat
    OBVIOUS
  <2> QED
    BY <2>1
<1>7. \A r \in C : /\ Width(role, term, r) \in Nat
                   /\ Weight(role, term, rows, r) = y * Width(role, term, r)
  <2> SUFFICES ASSUME NEW r \in C
               PROVE  /\ Width(role, term, r) \in Nat
                      /\ Weight(role, term, rows, r) = y * Width(role, term, r)
    OBVIOUS
  <2>1. r \in Rows
    BY <1>5
  <2>2. PICK w \in Nat : w = Width(role, term, r)
    BY <2>1, WidthIs
  <2>3. Weight(role, term, rows, r) = K * (num * w)
    BY <1>4, <1>5, <2>2 DEF Weighs
  <2>4. K * (num * w) = (K * num) * w
    OBVIOUS
  <2> QED
    BY <1>6, <2>2, <2>3, <2>4
<1>8. \A r \in C : Weight(role, term, rows, r) \in Nat
  <2>1. \A w \in Nat : y * w \in Nat
    OBVIOUS
  <2> QED
    BY <1>7, <2>1
<1>9. f \in [C -> Nat] /\ f \in [C -> Int] /\ e \in [C -> Int] /\ \A r \in C : f[r] = y * e[r]
  BY <1>7, <1>8
<1>10. SumFunction(e) = width
  BY <1>4, <1>5, Zenon DEF Weighs, WidthOf
<1>11. SumFunction([r \in Counted(term, rows) |-> Weight(role, term, rows, r)]) = SumFunction(f)
  BY <1>5, Zenon
<1>12. [r \in Counted(term, rows) |-> Weight(role, term, rows, r)] \in [Counted(term, rows) -> Nat]
  BY <1>5, <1>8
<1> HIDE DEF f, e
<1>13. InRatio(f, e, 1, y, C)
  <2>1. \A r \in C : f[r] \in Int /\ f[r] = y * e[r]
    BY <1>9
  <2>2. \A v \in Int : 1 * v = v
    OBVIOUS
  <2> QED
    BY <2>1, <2>2 DEF InRatio
<1>14. 1 \in Int /\ y \in Int
  OBVIOUS
<1>15. 1 * SumFunction(f) = y * SumFunction(e)
  BY <1>5, <1>9, <1>13, <1>14, SumScaled
<1>16. SumFunction(f) \in Int
  BY <1>5, <1>9, SumType
<1>17. SumFunction(f) = y * width
  BY <1>10, <1>15, <1>16
<1>18. Scale = K * (den * width)
  BY <1>4 DEF Weighs
<1>19. den * ((K * num) * width) = num * (K * (den * width))
  OBVIOUS
<1>20. den * SumFunction(f) = num * Scale
  BY <1>6, <1>17, <1>18, <1>19
<1>21. num = LossScale(role, rows).num /\ den = LossScale(role, rows).den
  BY <1>4 DEF Weighs
<1> QED
  BY <1>11, <1>12, <1>20, <1>21, Zenon

\* What the ranks' first k micro-batches contribute to a term, and the
\* contribution of one row.
GotOf(role, term, parts, k) ==
  {g \in UNION {Contributions(role, p, parts[p]) : p \in 1..k} : g.term = term}
Record(role, term, part, rows, r) ==
  [part |-> part, term |-> term, row |-> r, weight |-> Weight(role, term, rows, r),
   against |-> Reference(role, term)]
RecordIn(role, term, parts, k, r) ==
  Record(role, term, PartOf(parts, k, r), parts[PartOf(parts, k, r)], r)

\* A part of a list of rows is one, over the rows that there are.
LEMMA PartIs ==
  ASSUME setup \in Setups, NEW V \in SUBSET Rows, NEW k \in Nat, NEW parts, IsCut(parts, V, k),
         NEW p \in 1 .. k
  PROVE  /\ parts[p] \in Seq(Rows) /\ parts[p] # <<>> /\ Len(parts[p]) \in Nat \ {0}
         /\ Lists(parts[p], Elements(parts[p])) /\ Elements(parts[p]) \subseteq V
<1>1. /\ parts[p] \in Seq(V) /\ parts[p] # <<>> /\ Lists(parts[p], Elements(parts[p]))
      /\ Elements(parts[p]) \subseteq V
  BY DEF IsCut
<1>2. PICK part \in Seq(V) : part = parts[p] /\ part # <<>>
  BY <1>1
<1>3. Len(part) \in Nat \ {0}
  BY <1>2
<1>4. part \in Seq(Rows)
  BY <1>2, SequenceOver
<1> QED
  BY <1>1, <1>2, <1>3, <1>4

\* Each row that the mask keeps contributes once, with its own micro-batch.
LEMMA GotAre ==
  ASSUME setup \in Setups, NEW role \in Roles, NEW term \in Terms(role),
         NEW rows \in Seq(Rows), NEW k \in Nat, NEW parts, IsCut(parts, Elements(rows), k)
  PROVE  GotOf(role, term, parts, k) =
           {RecordIn(role, term, parts, k, r) : r \in Counted(term, rows)}
<1>1. PICK V : V = Elements(rows) /\ V \in SUBSET Rows
  BY ToSetIs
<1>2. Counted(term, rows) = {r \in V : Counts(term, r)}
  BY <1>1, CountedIs
<1>3. \A p \in 1 .. k : Counted(term, parts[p]) = {r \in Elements(parts[p]) : Counts(term, r)}
  <2> SUFFICES ASSUME NEW p \in 1 .. k
               PROVE  Counted(term, parts[p]) = {r \in Elements(parts[p]) : Counts(term, r)}
    OBVIOUS
  <2>1. parts[p] \in Seq(Rows)
    BY <1>1, PartIs
  <2> QED
    BY <2>1, CountedIs
<1>4. \A r \in V : /\ PartOf(parts, k, r) \in 1 .. k
                   /\ \A p \in 1 .. k : r \in Elements(parts[p]) <=> PartOf(parts, k, r) = p
  BY <1>1, PartOfIs
<1>5. ASSUME NEW g \in GotOf(role, term, parts, k)
      PROVE  \E r \in Counted(term, rows) : g = RecordIn(role, term, parts, k, r)
  <2>1. PICK p \in 1 .. k : g \in Contributions(role, p, parts[p]) /\ g.term = term
    BY DEF GotOf
  <2>2. PICK t \in Terms(role) :
            g \in {Record(role, t, p, parts[p], r) : r \in Counted(t, parts[p])}
    BY <2>1, Zenon DEF Contributions, Record
  <2>3. PICK r \in Counted(t, parts[p]) : g = Record(role, t, p, parts[p], r)
    BY <2>2
  <2>4. g.term = t
    BY <2>3 DEF Record
  <2>5. t = term
    BY <2>1, <2>4
  <2>6. r \in Elements(parts[p]) /\ Counts(term, r)
    BY <1>3, <2>3, <2>5
  <2>7. r \in V
    BY <1>1, <2>6, PartIs
  <2>8. PartOf(parts, k, r) = p
    BY <1>4, <2>6, <2>7
  <2> QED
    BY <1>2, <2>3, <2>5, <2>6, <2>7, <2>8, Zenon DEF RecordIn
<1>6. ASSUME NEW r \in Counted(term, rows)
      PROVE  RecordIn(role, term, parts, k, r) \in GotOf(role, term, parts, k)
  <2>1. r \in V /\ Counts(term, r)
    BY <1>2
  <2>2. PICK p \in 1 .. k : p = PartOf(parts, k, r) /\ r \in Elements(parts[p])
    BY <1>4, <2>1
  <2>3. r \in Counted(term, parts[p])
    BY <1>3, <2>1, <2>2
  <2>4. PICK g : g = Record(role, term, p, parts[p], r)
    OBVIOUS
  <2>5. g \in Contributions(role, p, parts[p])
    <3> DEFINE Of(t) == {Record(role, t, p, parts[p], q) : q \in Counted(t, parts[p])}
    <3>1. Contributions(role, p, parts[p]) = UNION {Of(t) : t \in Terms(role)}
      BY Zenon DEF Contributions, Record
    <3>2. g \in Of(term)
      BY <2>3, <2>4
    <3> HIDE DEF Of
    <3> QED
      BY <3>1, <3>2
  <2>6. g.term = term
    BY <2>4 DEF Record
  <2>7. g \in GotOf(role, term, parts, k)
    BY <2>5, <2>6 DEF GotOf
  <2> QED
    BY <2>2, <2>4, <2>7, Zenon DEF RecordIn
<1> QED
  BY <1>5, <1>6

\* The rows are told apart by their contributions.
LEMMA RecordsApart ==
  ASSUME NEW role, NEW term, NEW parts, NEW k, NEW C, NEW D,
         D = {RecordIn(role, term, parts, k, r) : r \in C},
         NEW b, b = [r \in C |-> RecordIn(role, term, parts, k, r)]
  PROVE  Matches(b, C, D)
<1>1. \A r : RecordIn(role, term, parts, k, r).row = r
  BY DEF RecordIn, Record
<1>2. b \in [C -> D]
  OBVIOUS
<1>3. ASSUME NEW x \in C, NEW y \in C, b[x] = b[y]
      PROVE  x = y
  <2>1. b[x].row = x /\ b[y].row = y
    BY <1>1
  <2> QED
    BY <1>3, <2>1
<1>4. \A z \in D : \E x \in C : z = b[x]
  OBVIOUS
<1> QED
  BY <1>2, <1>3, <1>4 DEF Matches

\* What matches a finite set is finite, and as large.
LEMMA MatchesSize ==
  ASSUME NEW E, IsFiniteSet(E), NEW D, NEW b, Matches(b, E, D)
  PROVE  IsFiniteSet(D) /\ Cardinality(D) = Cardinality(E)
<1>1. b \in Bijection(E, D)
  BY Zenon DEF Matches, Bijection, Injection, Surjection, IsInjective
<1>2. ExistsBijection(E, D)
  BY <1>1, Zenon DEF ExistsBijection
<1> QED
  BY <1>2, FS_Bijection

\* The fractions of the micro-batches, over one denominator.
Fractions(e, den, role, parts, k) ==
  \A p \in 1 .. k : LossScale(role, parts[p]).num = e[p] /\ LossScale(role, parts[p]).den = den

\* Those of a full mini-batch add up to one.
LEMMA FractionsAddUp ==
  ASSUME setup \in Setups, NEW role \in Roles, NEW rows, NEW size \in Nat \ {0}, NEW k \in Nat,
         NEW parts, IsShare(rows, setup, role, size), IsDivided(parts, rows, setup, role, size, k),
         size = MiniBatchSize(setup, role)
  PROVE  \E den \in Nat \ {0} : \E e \in [1 .. k -> Int] :
            Fractions(e, den, role, parts, k) /\ SumFunction(e) = den
<1>1. PICK V : /\ V = Elements(rows) /\ V \in SUBSET Rows /\ IsCut(parts, V, k)
               /\ Lists(rows, V) /\ Len(rows) = size
  <2>1. Elements(rows) \subseteq Rows
    BY ToSetIs DEF IsShare, Rows
  <2> QED
    BY <2>1 DEF IsShare, IsDivided
<1>2. IsFiniteSet(V) /\ Cardinality(V) = size
  BY <1>1, ListLength
<1>3. PICK den \in 1..MiniBatchSize(setup, role) : den = LossScale(role, rows).den
  BY <1>1, LossScaleIs
<1>4. den \in Nat \ {0}
  BY SetupIs
<1>5. \A p \in 1 .. k : LossScale(role, parts[p]).den = den
  BY <1>3 DEF LossScale
<1>6. \A p \in 1 .. k : Len(parts[p]) \in Nat \ {0}
  BY <1>1, PartIs
<1>7. CASE setup.use_dynamic_bsz
  <2> DEFINE e == [p \in 1 .. k |-> Len(parts[p])]
  <2>1. e \in [1 .. k -> Int] /\ \A p \in 1 .. k : e[p] = Len(parts[p])
    BY <1>6
  <2>2. \A p \in 1 .. k : LossScale(role, parts[p]).num = e[p]
    BY <1>6, <1>7, LossScaleIs
  <2> HIDE DEF e
  <2>3. SumFunction(e) = size
    BY <1>1, <1>2, <2>1, LengthsAddUp
  <2>4. den = size
    BY <1>1, <1>3, <1>7, LossScaleIs
  <2>5. Fractions(e, den, role, parts, k)
    BY <1>5, <2>2 DEF Fractions
  <2> QED
    BY <1>4, <2>1, <2>3, <2>4, <2>5
<1>8. CASE ~setup.use_dynamic_bsz
  <2> DEFINE e == [p \in 1 .. k |-> 1]
  <2>1. e \in [1 .. k -> Int] /\ \A p \in 1 .. k : e[p] = 1
    OBVIOUS
  <2>2. \A p \in 1 .. k : LossScale(role, parts[p]).num = e[p]
    BY <1>6, <1>8, LossScaleIs
  <2> HIDE DEF e
  <2>3. PICK each \in Nat \ {0} : each = setup[role].ppo_micro_batch_size_per_gpu
    BY SetupIs
  <2>4. size = den * each
    BY <1>1, <1>3, <1>8, <2>3, LossScaleIs
  <2>5. k = CeilDiv(size, each)
    BY <1>8, <2>3 DEF IsDivided
  <2>6. k = den
    BY <1>4, <2>4, <2>5, EqualPieces
  <2>7. SumFunction(e) = k
    BY <2>1, UpToIsFinite, SumOfOnes
  <2>8. Fractions(e, den, role, parts, k)
    BY <1>5, <2>2 DEF Fractions
  <2> QED
    BY <1>4, <2>1, <2>6, <2>7, <2>8
<1> QED
  BY <1>7, <1>8

\* The weights of some of the rows.
LEMMA SomeWeights ==
  ASSUME NEW C, IsFiniteSet(C), NEW f \in [C -> Int], NEW E \in SUBSET C, NEW g \in [E -> Nat],
         \A x \in E : g[x] = f[x]
  PROVE  SumFunction(g) = Adding(f, C)[E] /\ SumFunction(g) \in Int
<1>1. IsFiniteSet(E)
  BY FS_Subset
<1>2. g \in [E -> Int]
  OBVIOUS
<1>3. SumFunction(g) = Adding(f, C)[E]
  BY <1>2, SumOfPart
<1>4. SumFunction(g) \in Int
  BY <1>1, <1>2, SumType
<1> QED
  BY <1>3, <1>4

SumsTo(e, n) == SumFunction(e) = n

\* A common factor comes out of the sum of k numbers.
LEMMA PiecesInRatio ==
  ASSUME NEW k \in Nat, NEW t \in [1 .. k -> Int], NEW e \in [1 .. k -> Int],
         NEW den \in Int, NEW scale \in Int, InRatio(t, e, den, scale, 1 .. k)
  PROVE  den * SumFunction(t) = scale * SumFunction(e)
<1>1. PICK D : D = 1 .. k
  OBVIOUS
<1>2. IsFiniteSet(D) /\ t \in [D -> Int] /\ e \in [D -> Int] /\ InRatio(t, e, den, scale, D)
  BY <1>1, UpToIsFinite, Zenon
<1> QED
  BY <1>2, SumScaled

\* Numbers in the ratio of fractions that add up to one.
LEMMA PiecesWeighOne ==
  ASSUME NEW k \in Nat, NEW t \in [1 .. k -> Int], NEW e \in [1 .. k -> Int],
         NEW den \in Nat \ {0}, NEW scale \in Nat, InRatio(t, e, den, scale, 1 .. k), SumsTo(e, den)
  PROVE  SumFunction(t) = scale
<1>1. den \in Int /\ scale \in Int
  OBVIOUS
<1>2. den * SumFunction(t) = scale * SumFunction(e)
  BY <1>1, PiecesInRatio
<1>3. IsFiniteSet(1 .. k)
  BY UpToIsFinite
<1>4. PICK sum \in Int : sum = SumFunction(t)
  BY <1>3, SumType
<1>5. den * sum = scale * den
  BY <1>2, <1>4 DEF SumsTo
<1>6. sum = scale
  BY <1>5
<1> QED
  BY <1>4, <1>6

\* Weights of which each group has its fraction of a scale.
LEMMA GroupsWeighOne ==
  ASSUME NEW C, IsFiniteSet(C), NEW f \in [C -> Int], NEW k \in Nat, NEW place \in [C -> 1 .. k],
         NEW t \in [1 .. k -> Int], GroupSums(t, f, C, place, k),
         NEW den \in Nat \ {0}, NEW scale \in Nat, NEW e \in [1 .. k -> Int], SumsTo(e, den),
         InRatio(t, e, den, scale, 1 .. k)
  PROVE  SumFunction(f) = scale
<1>1. SumFunction(f) = SumFunction(t)
  BY SumOfGroups
<1>2. SumFunction(t) = scale
  BY PiecesWeighOne
<1> QED
  BY <1>1, <1>2

\* The weights of a full mini-batch add up to one, when the mask leaves none of
\* its micro-batches without rows.
LEMMA GotWeighsOne ==
  ASSUME setup \in Setups, NEW role \in Roles, NEW term \in Terms(role), NEW rows,
         NEW size \in Nat \ {0}, NEW k \in Nat, NEW parts,
         IsShare(rows, setup, role, size), IsDivided(parts, rows, setup, role, size, k),
         size = MiniBatchSize(setup, role),
         \A p \in 1 .. k : Counted(term, parts[p]) # {}
  PROVE  WeightOf(GotOf(role, term, parts, k)) = Scale
<1>1. PICK V : /\ V = Elements(rows) /\ V \in SUBSET Rows /\ IsCut(parts, V, k)
               /\ rows \in Seq(Rows)
  <2>1. rows \in Seq(Rows)
    BY DEF IsShare, Rows
  <2>2. Elements(rows) \subseteq Rows
    BY <2>1, ToSetIs
  <2> QED
    BY <2>1, <2>2 DEF IsDivided
<1>2. PICK C : /\ C = Counted(term, rows) /\ C = {r \in V : Counts(term, r)}
               /\ C \in SUBSET Rows /\ IsFiniteSet(C)
  BY <1>1, CountedIs
<1>3. PICK got : got = GotOf(role, term, parts, k) /\ got = {RecordIn(role, term, parts, k, r) : r \in C}
  <2>1. IsCut(parts, Elements(rows), k) /\ rows \in Seq(Rows)
    BY <1>1
  <2>2. GotOf(role, term, parts, k) =
           {RecordIn(role, term, parts, k, r) : r \in Counted(term, rows)}
    BY <2>1, GotAre
  <2> QED
    BY <1>2, <2>2, Zenon
<1>4. PICK b : b = [r \in C |-> RecordIn(role, term, parts, k, r)]
  OBVIOUS
<1>5. Matches(b, C, got)
  BY <1>3, <1>4, RecordsApart
<1>6. IsFiniteSet(got)
  BY <1>2, <1>5, MatchesSize
<1>7. \A r \in V : /\ PartOf(parts, k, r) \in 1 .. k
                   /\ \A p \in 1 .. k : r \in Elements(parts[p]) <=> PartOf(parts, k, r) = p
  BY <1>1, PartOfIs
<1>8. ASSUME NEW p \in 1 .. k
      PROVE  /\ parts[p] \in Seq(Rows) /\ parts[p] # <<>>
             /\ Counted(term, parts[p]) = {r \in C : PartOf(parts, k, r) = p}
  <2>1. parts[p] \in Seq(Rows) /\ parts[p] # <<>> /\ Elements(parts[p]) \subseteq V
    BY <1>1, PartIs
  <2>2. Counted(term, parts[p]) = {r \in Elements(parts[p]) : Counts(term, r)}
    BY <2>1, CountedIs
  <2>3. \A r \in V : r \in Elements(parts[p]) <=> PartOf(parts, k, r) = p
    BY <1>7
  <2> QED
    BY <1>2, <2>1, <2>2, <2>3
<1> DEFINE Mine(p) == [r \in Counted(term, parts[p]) |-> Weight(role, term, parts[p], r)]
           f == [r \in C |-> Weight(role, term, parts[PartOf(parts, k, r)], r)]
           place == [r \in C |-> PartOf(parts, k, r)]
           t == [p \in 1 .. k |-> SumFunction(Mine(p))]
           h == [g \in got |-> g.weight]
<1>9. \A p \in 1 .. k : /\ Mine(p) \in [Counted(term, parts[p]) -> Nat]
                        /\ LossScale(role, parts[p]).den * SumFunction(Mine(p))
                             = LossScale(role, parts[p]).num * Scale
  BY <1>8, WeightsAddUp
<1>10. place \in [C -> 1 .. k] /\ \A r \in C : place[r] = PartOf(parts, k, r)
  BY <1>2, <1>7
<1>11. \A p \in 1 .. k : \A r \in Counted(term, parts[p]) : r \in C /\ place[r] = p /\ Mine(p)[r] = f[r]
  BY <1>8
<1>12. \A r \in C : f[r] \in Nat
  <2> SUFFICES ASSUME NEW r \in C  PROVE f[r] \in Nat
    OBVIOUS
  <2>1. PICK p \in 1 .. k : p = PartOf(parts, k, r)
    BY <1>10
  <2>2. r \in Counted(term, parts[p])
    BY <1>8, <2>1
  <2>3. Mine(p)[r] \in Nat
    <3>1. Mine(p) \in [Counted(term, parts[p]) -> Nat]
      BY <1>9
    <3> HIDE DEF Mine
    <3> QED
      BY <2>2, <3>1
  <2>4. f[r] = Mine(p)[r]
    BY <1>11, <2>2
  <2> QED
    BY <2>3, <2>4
<1>13. f \in [C -> Int]
  <2>1. \A r \in C : f[r] \in Int
    BY <1>12
  <2> QED
    BY <2>1, Zenon
<1>14. \A x \in C : f[x] = h[b[x]]
  <2> SUFFICES ASSUME NEW x \in C  PROVE f[x] = h[b[x]]
    OBVIOUS
  <2>1. b[x] \in got /\ b[x] = RecordIn(role, term, parts, k, x)
    BY <1>3, <1>4
  <2>2. h[b[x]] = RecordIn(role, term, parts, k, x).weight
    BY <2>1
  <2> QED
    BY <2>2 DEF RecordIn, Record
<1>15. \A y \in got : h[y] \in Int
  <2> SUFFICES ASSUME NEW y \in got  PROVE h[y] \in Int
    OBVIOUS
  <2>1. PICK x \in C : y = b[x]
    BY <1>5 DEF Matches
  <2>2. h[y] = f[x] /\ f[x] \in Nat
    BY <1>12, <1>14, <2>1
  <2> QED
    BY <2>2
<1>16. h \in [got -> Int]
  BY <1>15, Zenon
<1>17. WeightOf(got) = SumFunction(h)
  BY Zenon DEF WeightOf
<1>18. DOMAIN t = 1 .. k /\ \A p \in 1 .. k : t[p] = SumFunction(Mine(p))
  OBVIOUS
<1> HIDE DEF f, place, t, h, Mine
<1>19. SumFunction(f) = SumFunction(h)
  BY <1>2, <1>5, <1>6, <1>13, <1>14, <1>16, SumOfImage DEF SameAtImage
<1>20. \A p \in 1 .. k : t[p] = Adding(f, C)[{x \in C : place[x] = p}] /\ t[p] \in Int
  <2> SUFFICES ASSUME NEW p \in 1 .. k
               PROVE  t[p] = Adding(f, C)[{x \in C : place[x] = p}] /\ t[p] \in Int
    OBVIOUS
  <2>1. PICK E : E = Counted(term, parts[p])
    OBVIOUS
  <2>2. E \in SUBSET C /\ {x \in C : place[x] = p} = E
    BY <1>8, <1>10, <2>1
  <2>3. PICK g : g = Mine(p) /\ g \in [E -> Nat]
    BY <1>9, <2>1
  <2>6. SumFunction(g) = Adding(f, C)[E] /\ SumFunction(g) \in Int
    BY <1>2, <1>11, <1>13, <2>1, <2>2, <2>3, SomeWeights
  <2> QED
    BY <1>18, <2>2, <2>3, <2>6
<1>21. t \in [1 .. k -> Int]
  <2>1. t = [p \in 1 .. k |-> SumFunction(Mine(p))]
    BY Zenon DEF t
  <2> QED
    BY <1>20, <1>18, <2>1
<1>22. GroupSums(t, f, C, place, k)
  BY <1>20, Zenon DEF GroupSums
<1>24. PICK den \in Nat \ {0} : \E e \in [1 .. k -> Int] :
            Fractions(e, den, role, parts, k) /\ SumFunction(e) = den
  BY FractionsAddUp
<1>25. PICK e \in [1 .. k -> Int] : Fractions(e, den, role, parts, k) /\ SumFunction(e) = den
  BY <1>24
<1>26. PICK scale \in Nat : scale = Scale
  BY ScaleAssumption
<1>27. \A p \in 1 .. k : den * t[p] = scale * e[p]
  <2> SUFFICES ASSUME NEW p \in 1 .. k  PROVE den * t[p] = scale * e[p]
    OBVIOUS
  <2>1. LossScale(role, parts[p]).den = den /\ LossScale(role, parts[p]).num = e[p]
    BY <1>25 DEF Fractions
  <2>2. den * t[p] = e[p] * scale
    BY <1>9, <1>18, <1>26, <2>1
  <2>3. PICK y \in Int : y = e[p]
    OBVIOUS
  <2>4. y * scale = scale * y
    OBVIOUS
  <2> QED
    BY <2>2, <2>3, <2>4
<1>28. InRatio(t, e, den, scale, 1 .. k)
  BY <1>27, Zenon DEF InRatio
<1>29. SumFunction(f) = scale
  <2>1. IsFiniteSet(C) /\ f \in [C -> Int] /\ place \in [C -> 1 .. k] /\ t \in [1 .. k -> Int]
    BY <1>2, <1>10, <1>13, <1>21
  <2>2. SumsTo(e, den)
    BY <1>25 DEF SumsTo
  <2> QED
    BY <1>22, <1>28, <2>1, <2>2, GroupsWeighOne, Zenon
<1> QED
  BY <1>3, <1>17, <1>19, <1>26, <1>29

\* Rows whose sequences are averaged have the micro-batch's length between them.
LEMMA WidthIsLength ==
  ASSUME setup \in Setups, NEW role \in Roles, NEW term, NEW part \in Seq(Rows),
         Lists(part, Elements(part)), ~AveragesTokens(role, term),
         Counted(term, part) = Elements(part)
  PROVE  WidthOf(role, term, part) = Len(part)
<1>1. PICK C : C = Counted(term, part) /\ C \in SUBSET Rows /\ IsFiniteSet(C)
  BY CountedIs
<1>2. \A q \in C : Width(role, term, q) = 1
  <2> SUFFICES ASSUME NEW q \in C  PROVE Width(role, term, q) = 1
    OBVIOUS
  <2>1. q \in Rows
    BY <1>1
  <2> QED
    BY <2>1, WidthIs
<1> DEFINE f == [q \in C |-> Width(role, term, q)]
<1>3. f \in [C -> Int] /\ \A q \in C : f[q] = 1
  BY <1>2
<1>4. WidthOf(role, term, part) = SumFunction(f)
  BY <1>1, Zenon DEF WidthOf
<1> HIDE DEF f
<1>5. SumFunction(f) = Cardinality(C)
  BY <1>1, <1>3, SumOfOnes
<1>6. Cardinality(C) = Len(part)
  BY <1>1, ListLength
<1> QED
  BY <1>4, <1>5, <1>6

\* Then they weigh the same, in whichever micro-batch they are.
LEMMA SameWeight ==
  ASSUME setup \in Setups, NEW role \in Roles, NEW term, NEW part \in Seq(Rows), part # <<>>,
         Lists(part, Elements(part)), ~AveragesTokens(role, term),
         Counted(term, part) = Elements(part), NEW r \in Elements(part),
         ~setup.use_dynamic_bsz => Len(part) = setup[role].ppo_micro_batch_size_per_gpu
  PROVE  Weight(role, term, part, r) * MiniBatchSize(setup, role) = Scale
<1>1. Counted(term, part) # {} /\ r \in Counted(term, part) /\ r \in Rows
  BY CountedIs
<1>2. PICK K \in Nat : \E num \in Nat \ {0} : \E den \in Nat \ {0} : \E width \in Nat \ {0} :
            Weighs(role, term, part, K, num, den, width)
  BY <1>1, WeightsAre
<1>3. PICK num \in Nat \ {0} : \E den \in Nat \ {0} : \E width \in Nat \ {0} :
            Weighs(role, term, part, K, num, den, width)
  BY <1>2
<1>4. PICK den \in Nat \ {0} : \E width \in Nat \ {0} :
            Weighs(role, term, part, K, num, den, width)
  BY <1>3
<1>5. PICK width \in Nat \ {0} : Weighs(role, term, part, K, num, den, width)
  BY <1>4
<1>6. width = Len(part)
  <2>1. WidthOf(role, term, part) = Len(part)
    BY WidthIsLength
  <2> QED
    BY <1>5, <2>1, Zenon DEF Weighs
<1>7. PICK weight : weight = Weight(role, term, part, r)
  OBVIOUS
<1>8. weight = K * num
  <2>1. Width(role, term, r) = 1
    BY <1>1, WidthIs
  <2>2. weight = K * (num * 1)
    BY <1>1, <1>5, <1>7, <2>1, Zenon DEF Weighs
  <2>3. num * 1 = num
    OBVIOUS
  <2> QED
    BY <2>2, <2>3
<1>9. Scale = K * (den * width) /\ num = LossScale(role, part).num /\ den = LossScale(role, part).den
  BY <1>5, Zenon DEF Weighs
<1>10. Len(part) \in Nat \ {0}
  OBVIOUS
<1>11. PICK mini \in Nat \ {0} : mini = MiniBatchSize(setup, role)
  BY SetupIs
<1>12. num * mini = den * width
  <2>1. CASE setup.use_dynamic_bsz
    <3>1. num = width /\ den = mini
      BY <1>6, <1>9, <1>10, <1>11, <2>1, LossScaleIs
    <3>2. width * mini = mini * width
      OBVIOUS
    <3> QED
      BY <3>1, <3>2
  <2>2. CASE ~setup.use_dynamic_bsz
    <3>1. num = 1 /\ mini = den * setup[role].ppo_micro_batch_size_per_gpu
      BY <1>9, <1>10, <1>11, <2>2, LossScaleIs
    <3>2. mini = den * width
      BY <1>6, <2>2, <3>1
    <3> QED
      BY <3>1, <3>2
  <2> QED
    BY <2>1, <2>2
<1>13. (K * num) * mini = K * (num * mini)
  OBVIOUS
<1>14. weight * mini = Scale
  BY <1>8, <1>9, <1>12, <1>13
<1> QED
  BY <1>7, <1>11, <1>14

\* Rows weigh the same however a full mini-batch was divided.
LEMMA GotWeighSame ==
  ASSUME setup \in Setups, NEW role \in Roles, NEW term \in Terms(role), NEW rows,
         NEW size \in Nat \ {0}, NEW k \in Nat, NEW parts,
         IsShare(rows, setup, role, size), IsDivided(parts, rows, setup, role, size, k),
         size = MiniBatchSize(setup, role), ~AveragesTokens(role, term),
         Counted(term, rows) = Elements(rows)
  PROVE  \A g \in GotOf(role, term, parts, k) : g.weight * size = Scale
<1>1. PICK V : /\ V = Elements(rows) /\ V \in SUBSET Rows /\ IsCut(parts, V, k)
               /\ rows \in Seq(Rows) /\ Len(rows) = size
  <2>1. rows \in Seq(Rows) /\ Len(rows) = size
    BY DEF IsShare, Rows
  <2>2. Elements(rows) \subseteq Rows
    BY <2>1, ToSetIs
  <2> QED
    BY <2>1, <2>2 DEF IsDivided
<1>2. \A r \in V : Counts(term, r)
  BY <1>1, CountedIs
<1>3. GotOf(role, term, parts, k) = {RecordIn(role, term, parts, k, r) : r \in V}
  <2>1. IsCut(parts, Elements(rows), k) /\ rows \in Seq(Rows)
    BY <1>1
  <2>2. GotOf(role, term, parts, k) =
           {RecordIn(role, term, parts, k, r) : r \in Counted(term, rows)}
    BY <2>1, GotAre
  <2> QED
    BY <1>1, <2>2, Zenon
<1>4. ASSUME NEW r \in V
      PROVE  RecordIn(role, term, parts, k, r).weight * size = Scale
  <2>1. PICK p \in 1 .. k : p = PartOf(parts, k, r) /\ r \in Elements(parts[p])
    BY <1>1, PartOfIs
  <2>2. PICK part \in Seq(Rows) : /\ part = parts[p] /\ part # <<>> /\ Lists(part, Elements(part))
                                  /\ Elements(part) \subseteq V
    <3>1. /\ parts[p] \in Seq(Rows) /\ parts[p] # <<>> /\ Lists(parts[p], Elements(parts[p]))
          /\ Elements(parts[p]) \subseteq V
      BY <1>1, PartIs, Zenon
    <3> QED
      BY <3>1, Zenon
  <2>3. Counted(term, part) = Elements(part)
    <3>1. Counted(term, part) = {q \in Elements(part) : Counts(term, q)}
      BY CountedIs
    <3> QED
      BY <1>2, <2>2, <3>1
  <2>4. ~setup.use_dynamic_bsz => Len(part) = setup[role].ppo_micro_batch_size_per_gpu
    <3> SUFFICES ASSUME ~setup.use_dynamic_bsz
                 PROVE  Len(part) = setup[role].ppo_micro_batch_size_per_gpu
      OBVIOUS
    <3>1. PICK each \in Nat \ {0} : each = setup[role].ppo_micro_batch_size_per_gpu
      BY SetupIs
    <3>2. PICK den \in 1..MiniBatchSize(setup, role) : size = den * each
      BY <1>1, <3>1, LossScaleIs
    <3>3. den \in Nat \ {0}
      BY SetupIs
    <3>4. k = CeilDiv(size, each) /\ Len(part) = PieceLength(size, each, p)
      BY <2>2, <3>1 DEF IsDivided
    <3>5. CeilDiv(size, each) = den /\ \A q \in 1 .. den : PieceLength(size, each, q) = each
      BY <3>2, <3>3, EqualPieces
    <3> QED
      BY <3>1, <3>4, <3>5
  <2>5. Weight(role, term, part, r) * MiniBatchSize(setup, role) = Scale
    BY <2>1, <2>2, <2>3, <2>4, SameWeight
  <2>6. RecordIn(role, term, parts, k, r).weight = Weight(role, term, part, r)
    BY <2>1, <2>2 DEF RecordIn, Record
  <2> QED
    BY <2>5, <2>6
<1> QED
  BY <1>3, <1>4

\* What GradientsExact says of a rank's gradient and a term.
IsExact(role, term, rows, parts, got) ==
  /\ Cardinality(got) = Cardinality(Counted(term, rows))
  /\ {g.row : g \in got} = Counted(term, rows)
  /\ Len(rows) = MiniBatchSize(setup, role) /\ (\A p \in DOMAIN parts : Counted(term, parts[p]) # {})
       => WeightOf(got) = Scale
  /\ Len(rows) = MiniBatchSize(setup, role) /\ ~AveragesTokens(role, term)
       /\ Counted(term, rows) = ToSet(rows)
       => \A g \in got : g.weight * Len(rows) = Scale

\* It is so once the rank has been through its micro-batches.
LEMMA GotExact ==
  ASSUME setup \in Setups, NEW role \in Roles, NEW term \in Terms(role),
         NEW m \in 1..NumMiniBatches(setup, role), NEW d \in 1..setup.dp
  PROVE  IsExact(role, term, MiniBatches(setup, role, d)[m], Plan[setup][role][m][d],
                 GotOf(role, term, Plan[setup][role][m][d], Len(Plan[setup][role][m][d])))
<1>a. PICK rows : rows = MiniBatches(setup, role, d)[m]
  OBVIOUS
<1>b. PICK parts : parts = Plan[setup][role][m][d]
  OBVIOUS
<1>c. PICK got : got = GotOf(role, term, parts, Len(parts))
  OBVIOUS
<1>1. PICK size \in Nat \ {0} : \E k \in Nat :
            IsShare(rows, setup, role, size) /\ IsDivided(parts, rows, setup, role, size, k)
  BY <1>a, <1>b, PlanIs
<1>2. PICK k \in Nat : IsShare(rows, setup, role, size) /\ IsDivided(parts, rows, setup, role, size, k)
  BY <1>1
<1>3. /\ rows \in Seq(Rows) /\ Len(rows) = size /\ IsCut(parts, Elements(rows), k)
      /\ ToSet(rows) = Elements(rows)
  <2>1. rows \in Seq(Rows) /\ Len(rows) = size
    BY <1>2 DEF IsShare, Rows
  <2>2. ToSet(rows) = Elements(rows)
    BY <2>1, ToSetIs
  <2> QED
    BY <1>2, <2>1, <2>2 DEF IsDivided
<1>4. Len(parts) = k /\ DOMAIN parts = 1 .. k
  <2>1. PICK S : parts \in [1 .. k -> S]
    BY <1>3 DEF IsCut
  <2> QED
    BY <2>1
<1>5. PICK C : C = Counted(term, rows) /\ IsFiniteSet(C)
  BY <1>3, CountedIs
<1>6. got = GotOf(role, term, parts, k)
  BY <1>c, <1>4
<1>7. got = {RecordIn(role, term, parts, k, r) : r \in C}
  <2>1. GotOf(role, term, parts, k) =
           {RecordIn(role, term, parts, k, r) : r \in Counted(term, rows)}
    BY <1>3, GotAre
  <2> QED
    BY <1>5, <1>6, <2>1, Zenon
<1>8. PICK b : b = [r \in C |-> RecordIn(role, term, parts, k, r)]
  OBVIOUS
<1>9. Matches(b, C, got) /\ {g.row : g \in got} = C
  <2>1. Matches(b, C, got)
    BY <1>7, <1>8, RecordsApart
  <2>2. {g.row : g \in got} = C
    <3>1. \A r : RecordIn(role, term, parts, k, r).row = r
      BY DEF RecordIn, Record
    <3> QED
      BY <1>7, <3>1
  <2> QED
    BY <2>1, <2>2
<1>10. Cardinality(got) = Cardinality(C)
  BY <1>5, <1>9, MatchesSize
<1>11. ASSUME size = MiniBatchSize(setup, role), \A p \in 1 .. k : Counted(term, parts[p]) # {}
       PROVE  WeightOf(got) = Scale
  <2>1. WeightOf(GotOf(role, term, parts, k)) = Scale
    BY <1>2, <1>11, GotWeighsOne
  <2> QED
    BY <1>6, <2>1
<1>12. ASSUME size = MiniBatchSize(setup, role), ~AveragesTokens(role, term),
              Counted(term, rows) = Elements(rows)
       PROVE  \A g \in got : g.weight * size = Scale
  <2>1. \A g \in GotOf(role, term, parts, k) : g.weight * size = Scale
    BY <1>2, <1>12, GotWeighSame
  <2> QED
    BY <1>6, <2>1
<1> QED
  <2>1. IsExact(role, term, rows, parts, got)
    BY <1>3, <1>4, <1>5, <1>9, <1>10, <1>11, <1>12, Zenon DEF IsExact
  <2> QED
    BY <1>a, <1>b, <1>c, <2>1, Zenon

--------------------------------------------------------------------------------
\* An update has as many steps as its epochs have mini-batches.
LEMMA PerUpdateNatural ==
  ASSUME setup \in Setups, NEW role \in Roles
  PROVE  /\ NumMiniBatches(setup, role) \in Nat
         /\ PerUpdate(role) \in Nat
         /\ PerUpdate(role) > 0 => NumMiniBatches(setup, role) > 0
<1>1. PICK b \in Nat \ {0} : b = MiniBatchSize(setup, role)
  <2>1. /\ setup[role].ppo_mini_batch_size \in Nat /\ setup.n \in Nat /\ setup.dp \in Nat \ {0}
        /\ MiniBatchSize(setup, role) > 0
    BY UpdateAssumption
  <2>2. PICK x \in Nat : x = setup[role].ppo_mini_batch_size * setup.n
    BY <2>1
  <2>3. PICK e \in Nat \ {0} : e = setup.dp
    BY <2>1
  <2>4. x \div e \in Nat
    OBVIOUS
  <2>5. MiniBatchSize(setup, role) \in Nat
    BY <2>2, <2>3, <2>4 DEF MiniBatchSize
  <2> QED
    BY <2>1, <2>5
<1>2. PICK a \in Nat : a = NumRows(setup) \div setup.dp
  <2>1. setup.prompts \in Nat /\ setup.n \in Nat /\ setup.dp \in Nat \ {0}
    BY UpdateAssumption
  <2>2. PICK x \in Nat : x = setup.prompts * setup.n
    BY <2>1
  <2>3. PICK e \in Nat \ {0} : e = setup.dp
    BY <2>1
  <2>4. x \div e \in Nat
    OBVIOUS
  <2> QED
    BY <2>2, <2>3, <2>4 DEF NumRows
<1>3. NumMiniBatches(setup, role) \in Nat
  <2>1. a + b - 1 \in Nat
    OBVIOUS
  <2>2. PICK c \in Nat : c = a + b - 1
    BY <2>1
  <2>3. c \div b \in Nat
    OBVIOUS
  <2> QED
    BY <1>1, <1>2, <2>2, <2>3 DEF NumMiniBatches, CeilDiv
<1>4. setup[role].ppo_epochs \in Nat
  BY UpdateAssumption
<1>5. PICK k \in Nat : k = NumMiniBatches(setup, role)
  BY <1>3
<1>6. PICK e \in Nat : e = setup[role].ppo_epochs
  BY <1>4
<1>7. PerUpdate(role) = k * e
  BY <1>5, <1>6 DEF PerUpdate
<1>8. k * e \in Nat /\ (k * e > 0 => k > 0)
  OBVIOUS
<1> QED
  BY <1>3, <1>5, <1>7, <1>8

\* Within a mini-batch a rank's gradient is what the micro-batches that it has
\* been through contribute, with the references and masks of this update.
GradientOf(d, k) == UNION {Contributions(fit, p, MicroBatchesOf(d)[p]) : p \in 1..k}
Accumulates ==
    stage = "backward" =>
        /\ Updating /\ done < PerUpdate(fit)
        /\ \A d \in Ranks : micro <= Len(MicroBatchesOf(d)) /\ gradient[d] = GradientOf(d, micro)
GradientInv ==
    /\ TypeOK
    /\ fit # "returned" => global_steps <= setup.steps
    /\ stage = "raised" => Updating
    /\ Accumulates

GradientRecord ==
    [part : Nat, term : {"value"} \cup PolicyLosses \cup Auxiliary, row : Rows, weight : Nat,
     against : Nat \cup {NoVersion}]

\* The mini-batch that an update is at is one of the plan's.
LEMMA MiniBatchPlanned ==
  ASSUME setup \in Setups, fit \in Roles, done \in Nat, done < PerUpdate(fit)
  PROVE  MiniBatch \in 1..NumMiniBatches(setup, fit)
<1>1. NumMiniBatches(setup, fit) \in Nat /\ NumMiniBatches(setup, fit) > 0
  <2>1. PerUpdate(fit) \in Nat
    BY PerUpdateNatural
  <2>2. PerUpdate(fit) > 0
    BY <2>1
  <2> QED
    BY <2>2, PerUpdateNatural
<1>2. PICK k \in Nat \ {0} : k = NumMiniBatches(setup, fit)
  BY <1>1
<1>3. done % k \in 0..(k - 1)
  OBVIOUS
<1>4. (done % k) + 1 \in 1..k
  BY <1>3
<1> QED
  BY <1>2, <1>4 DEF MiniBatch

\* A rank's micro-batches have rows.
LEMMA PlannedParts ==
  ASSUME setup \in Setups, NEW role \in Roles, NEW m \in 1..NumMiniBatches(setup, role),
         NEW d \in 1..setup.dp, NEW parts, parts = Plan[setup][role][m][d]
  PROVE  Len(parts) \in Nat /\ \A p \in 1..Len(parts) : parts[p] \in Seq(Rows) /\ parts[p] # <<>>
<1>1. PICK rows : rows = MiniBatches(setup, role, d)[m]
  OBVIOUS
<1>2. PICK k \in Nat : \E size \in Nat \ {0} :
            IsShare(rows, setup, role, size) /\ IsDivided(parts, rows, setup, role, size, k)
  BY <1>1, PlanIs
<1>3. rows \in Seq(Rows) /\ IsCut(parts, Elements(rows), k)
  BY <1>2 DEF IsShare, IsDivided, Rows
<1>4. PICK V : V = Elements(rows) /\ V \in SUBSET Rows
  BY <1>3, ToSetIs
<1>5. Len(parts) = k
  <2>1. PICK S : parts \in [1 .. k -> S]
    BY <1>3 DEF IsCut
  <2> QED
    BY <2>1
<1>6. ASSUME NEW p \in 1 .. k  PROVE parts[p] \in Seq(Rows) /\ parts[p] # <<>>
  <2>1. V \in SUBSET Rows /\ IsCut(parts, V, k)
    BY <1>3, <1>4
  <2> QED
    BY <2>1, PartIs
<1> QED
  BY <1>5, <1>6

\* What a micro-batch contributes.
LEMMA ContributionsAre ==
  ASSUME setup \in Setups, NEW role \in Roles, NEW part \in Nat, NEW rows \in Seq(Rows), rows # <<>>,
         weights \in [Roles -> Nat], old \in [actor : Nat, critic : Nat, rollout : Nat]
  PROVE  Contributions(role, part, rows) \subseteq GradientRecord
<1> SUFFICES ASSUME NEW g \in Contributions(role, part, rows)  PROVE g \in GradientRecord
  OBVIOUS
<1>1. PICK term \in Terms(role) : \E r \in Counted(term, rows) : g = Record(role, term, part, rows, r)
  <2> DEFINE Of(t) == {Record(role, t, part, rows, r) : r \in Counted(t, rows)}
  <2>1. Contributions(role, part, rows) = UNION {Of(t) : t \in Terms(role)}
    BY Zenon DEF Contributions, Record
  <2>2. PICK t \in Terms(role) : g \in Of(t)
    <3> HIDE DEF Of
    <3> QED
      BY <2>1
  <2> QED
    BY <2>2
<1>2. PICK r \in Counted(term, rows) : g = Record(role, term, part, rows, r)
  BY <1>1
<1>3. r \in Rows
  BY CountedIs
<1>4. Weight(role, term, rows, r) \in Nat
  <2>1. PICK f : f = [q \in Counted(term, rows) |-> Weight(role, term, rows, q)]
    OBVIOUS
  <2>2. f \in [Counted(term, rows) -> Nat]
    BY <2>1, WeightsAddUp
  <2>3. f[r] = Weight(role, term, rows, r)
    BY <2>1
  <2> QED
    BY <2>2, <2>3
<1>5. term \in {"value"} \cup PolicyLosses \cup Auxiliary
  <2>1. setup.loss \in PolicyLosses /\ setup.aux \subseteq Auxiliary
    BY UpdateAssumption
  <2> QED
    BY <2>1 DEF Terms
<1>6. Reference(role, term) \in Nat \cup {NoVersion}
  <2>1. weights[role] \in Nat
    OBVIOUS
  <2>2. old["actor"] \in Nat /\ old["critic"] \in Nat
    OBVIOUS
  <2>3. old[role] \in Nat
    BY <2>2 DEF Roles
  <2> QED
    BY <2>1, <2>3, Zenon DEF Reference
<1> QED
  BY <1>2, <1>3, <1>4, <1>5, <1>6 DEF Record, GradientRecord

\* A mini-batch starts with no gradient, and a micro-batch adds its own.
LEMMA GradientGrows ==
  ASSUME NEW d, NEW k \in Nat
  PROVE  /\ GradientOf(d, 0) = {}
         /\ GradientOf(d, k + 1) =
              GradientOf(d, k) \cup Contributions(fit, k + 1, MicroBatchesOf(d)[k + 1])
<1>1. 1 .. 0 = {} /\ 1 .. (k + 1) = (1 .. k) \cup {k + 1}
  OBVIOUS
<1> DEFINE C(p) == Contributions(fit, p, MicroBatchesOf(d)[p])
<1>2. \A n : GradientOf(d, n) = UNION {C(p) : p \in 1 .. n}
  BY Zenon DEF GradientOf
<1> HIDE DEF C
<1>3. UNION {C(p) : p \in {}} = {}
  OBVIOUS
<1>4. \A A : UNION {C(p) : p \in A \cup {k + 1}} = (UNION {C(p) : p \in A}) \cup C(k + 1)
  OBVIOUS
<1>5. GradientOf(d, 0) = {} /\ GradientOf(d, k + 1) = GradientOf(d, k) \cup C(k + 1)
  BY <1>1, <1>2, <1>3, <1>4
<1> QED
  BY <1>5 DEF C

\* The inductive invariant is as exact as the property.
LEMMA GradientsExactHere ==
  ASSUME GradientInv
  PROVE  GradientsExact
<1> SUFFICES ASSUME Accumulated, NEW d \in Ranks, NEW term \in Terms(fit)
             PROVE  IsExact(fit, term, MiniBatches(setup, fit, d)[MiniBatch], MicroBatchesOf(d),
                            {g \in gradient[d] : g.term = term})
  BY Zenon DEF GradientsExact, IsExact
<1>0. PICK parts : parts = MicroBatchesOf(d)
  OBVIOUS
<1>1. /\ setup \in Setups /\ fit \in Roles /\ done \in Nat /\ stage = "backward"
      /\ micro = Len(parts)
  BY <1>0 DEF GradientInv, TypeOK, Accumulated, Updating
<1>2. done < PerUpdate(fit) /\ gradient[d] = GradientOf(d, Len(parts))
  BY <1>1 DEF GradientInv, Accumulates
<1>3. MiniBatch \in 1..NumMiniBatches(setup, fit)
  BY <1>1, <1>2, MiniBatchPlanned
<1>4. d \in 1..setup.dp /\ parts = Plan[setup][fit][MiniBatch][d]
  BY <1>0 DEF Ranks, MicroBatchesOf
<1>5. {g \in gradient[d] : g.term = term} = GotOf(fit, term, parts, Len(parts))
  BY <1>0, <1>2, Zenon DEF GradientOf, GotOf
<1>6. IsExact(fit, term, MiniBatches(setup, fit, d)[MiniBatch], parts,
              GotOf(fit, term, parts, Len(parts)))
  BY <1>1, <1>3, <1>4, GotExact, Zenon
<1> QED
  BY <1>0, <1>5, <1>6, Zenon

\* What a step that no rank takes part of the backward pass in leaves to show.
LEMMA GradientAfter ==
  ASSUME GradientInv, setup' = setup, fit' \in Phases, global_steps' \in 1..(setup.steps + 1),
         fit' # "returned" => global_steps' <= setup.steps,
         micro' \in Nat, stage' = "split", done' \in Nat, Updating' => done' <= PerUpdate(fit)',
         ~Updating' => done' = 0, gradient' \in [Ranks -> SUBSET GradientRecord],
         far' \subseteq Rows, did_update' \in BOOLEAN, unscaled' \in BOOLEAN,
         weights' \in [Roles -> Nat], skipped' \in [Roles -> Nat], rollout_version' \in Nat,
         old' \in [actor : Nat, critic : Nat, rollout : Nat],
         masked' \subseteq Rows, correct' \subseteq Rows, feedback' \subseteq Rows,
         teacher' \in Seq(Nat)
  PROVE  GradientInv'
<1>1. setup' \in Setups /\ Ranks' = Ranks /\ Rows' = Rows
  BY DEF GradientInv, TypeOK, Ranks, Rows
<1>2. GradientRecord' = GradientRecord
  BY <1>1 DEF GradientRecord
<1>3. (done \in 0..(IF Updating THEN PerUpdate(fit) ELSE 0))'
  <2>1. CASE Updating'
    <3>1. fit' \in Roles /\ setup' \in Setups
      BY <1>1, <2>1 DEF Updating
    <3>2. PICK total : total = PerUpdate(fit)'
      OBVIOUS
    <3>3. NumMiniBatches(setup, fit') \in Nat /\ setup[fit'].ppo_epochs \in Nat
      BY <1>1, <3>1, PerUpdateNatural, UpdateAssumption
    <3>4. \A a, b \in Nat : a * b \in Nat
      OBVIOUS
    <3>5. total \in Nat
      BY <3>2, <3>3, <3>4 DEF PerUpdate
    <3>6. done' \in 0 .. total
      BY <2>1, <3>2, <3>5
    <3> QED
      BY <2>1, <3>2, <3>6
  <2>2. CASE ~Updating'
    BY <2>2
  <2> QED
    BY <2>1, <2>2
<1>4. (gradient \in [Ranks -> SUBSET GradientRecord])'
  BY <1>1, <1>2
<1>5. TypeOK'
  BY <1>1, <1>3, <1>4 DEF TypeOK, Phases, GradientRecord
<1>6. Accumulates'
  BY DEF Accumulates
<1> QED
  BY <1>1, <1>5, <1>6 DEF GradientInv

\* There is no gradient before the first update.
LEMMA GradientInit == Init => GradientInv
<1> SUFFICES ASSUME Init PROVE GradientInv
  OBVIOUS
<1>1. /\ setup \in Setups /\ fit = "begin" /\ global_steps = 1 /\ done = 0 /\ micro = 0
      /\ stage = "split" /\ far = {} /\ did_update = FALSE /\ rollout_version = 0
      /\ unscaled = FALSE /\ feedback = {} /\ masked = {} /\ correct = {} /\ teacher = <<>> /\ setup.steps \in Nat \ {0}
  BY UpdateAssumption DEF Init
<1>2. weights \in [Roles -> Nat] /\ skipped \in [Roles -> Nat]
  BY DEF Init
<1>3. old \in [actor : Nat, critic : Nat, rollout : Nat]
  BY DEF Init
<1>4. gradient \in [Ranks -> SUBSET GradientRecord]
  BY DEF Init, NoGradient
<1>5. ~Updating
  BY <1>1 DEF Updating, Roles
<1>6. done \in 0..(IF Updating THEN PerUpdate(fit) ELSE 0)
  BY <1>1, <1>5
<1>7. global_steps \in 1..(setup.steps + 1) /\ global_steps <= setup.steps
  BY <1>1
<1>8. /\ teacher \in Seq(Nat) /\ masked \subseteq Rows /\ correct \subseteq Rows
      /\ feedback \subseteq Rows /\ far \subseteq Rows
  BY <1>1
<1>9. TypeOK
  BY <1>1, <1>2, <1>3, <1>4, <1>6, <1>7, <1>8 DEF TypeOK, GradientRecord
<1> QED
  BY <1>1, <1>7, <1>9 DEF GradientInv, Accumulates

\* What the invariant says of the variables.
LEMMA TypesHere ==
  ASSUME GradientInv
  PROVE  /\ setup \in Setups /\ fit \in Phases /\ global_steps \in 1..(setup.steps + 1)
         /\ setup.steps \in Nat \ {0}
         /\ (fit # "returned" => global_steps <= setup.steps)
         /\ micro \in Nat /\ stage \in {"split", "backward", "raised"} /\ done \in Nat
         /\ (Updating => PerUpdate(fit) \in Nat /\ done <= PerUpdate(fit))
         /\ (~Updating => done = 0 /\ stage = "split")
         /\ gradient \in [Ranks -> SUBSET GradientRecord]
         /\ far \subseteq Rows /\ did_update \in BOOLEAN /\ unscaled \in BOOLEAN
         /\ weights \in [Roles -> Nat] /\ skipped \in [Roles -> Nat] /\ rollout_version \in Nat
         /\ old \in [actor : Nat, critic : Nat, rollout : Nat]
         /\ masked \subseteq Rows /\ correct \subseteq Rows /\ feedback \subseteq Rows
         /\ teacher \in Seq(Nat)
<1>1. setup \in Setups /\ setup.steps \in Nat \ {0}
  BY UpdateAssumption DEF GradientInv, TypeOK
<1>2. done \in 0..(IF Updating THEN PerUpdate(fit) ELSE 0)
  BY DEF GradientInv, TypeOK
<1>3. Updating => PerUpdate(fit) \in Nat
  BY <1>1, PerUpdateNatural DEF Updating
<1>4. CASE Updating
  <2>1. done \in 0 .. PerUpdate(fit)
    BY <1>2, <1>4
  <2> QED
    BY <1>1, <1>3, <1>4, <2>1 DEF GradientInv, TypeOK, Phases, GradientRecord
<1>5. CASE ~Updating
  <2>1. done = 0 /\ stage = "split"
    BY <1>2, <1>5 DEF GradientInv, TypeOK, Accumulates
  <2> QED
    BY <1>1, <1>5, <2>1 DEF GradientInv, TypeOK, Phases, GradientRecord
<1> QED
  BY <1>4, <1>5

\* While a mini-batch goes on, what a micro-batch contributes stays the same.
LEMMA GradientOfSame ==
  ASSUME UNCHANGED <<setup, fit, done, weights, old, masked, correct, feedback, far>>, NEW d, NEW k
  PROVE  GradientOf(d, k)' = GradientOf(d, k) /\ MicroBatchesOf(d)' = MicroBatchesOf(d)
<1>1. MicroBatchesOf(d)' = MicroBatchesOf(d)
  BY DEF MicroBatchesOf, MiniBatch
<1>2. \A role, term, rows : Counted(term, rows)' = Counted(term, rows)
  BY DEF Counted, Counts, Distilled, Reprompted, HasSolution, Routed, uid
<1>3. \A role, term : Reference(role, term)' = Reference(role, term)
  BY DEF Reference, OnPolicy
<1>4. \A role, term, rows, r : Weight(role, term, rows, r)' = Weight(role, term, rows, r)
  BY <1>2 DEF Weight, LossScale, Width, AveragesTokens
<1>5. \A role : Terms(role)' = Terms(role)
  BY DEF Terms
<1>6. \A role, part, rows : Contributions(role, part, rows)' = Contributions(role, part, rows)
  BY <1>2, <1>3, <1>4, <1>5 DEF Contributions
<1> QED
  BY <1>1, <1>6 DEF GradientOf

\* A mini-batch starts.
LEMMA GradientAfterStart ==
  ASSUME GradientInv, StartMiniBatch
  PROVE  GradientInv'
<1>1. /\ setup \in Setups /\ setup' = setup /\ fit' = fit /\ fit \in Roles /\ done' = done /\ done \in Nat
      /\ done < PerUpdate(fit) /\ stage' = "backward" /\ micro' = 0
      /\ gradient' = NoGradient /\ Updating /\ Updating' /\ global_steps' = global_steps
      /\ UNCHANGED <<weights, skipped, unscaled, rollout_version, old, masked, correct, feedback,
                     did_update, teacher>>
  BY TypesHere DEF StartMiniBatch, batchVars, optimizerVars, Updating
<1>2. Ranks' = Ranks /\ Rows' = Rows /\ GradientRecord' = GradientRecord /\ PerUpdate(fit)' = PerUpdate(fit)
  BY <1>1 DEF Ranks, Rows, GradientRecord, PerUpdate
<1>3. gradient' \in [Ranks -> SUBSET GradientRecord] /\ far' \subseteq Rows
  <2>1. setup.fars \subseteq SUBSET Rows
    BY <1>1, UpdateAssumption DEF Rows
  <2>2. far' \in setup.fars \/ far' = {}
    BY DEF StartMiniBatch
  <2> QED
    BY <1>1, <2>1, <2>2 DEF NoGradient
<1>4. TypeOK'
  <2>1. (done \in 0..(IF Updating THEN PerUpdate(fit) ELSE 0))'
    BY <1>1, <1>2 DEF GradientInv, TypeOK
  <2> QED
    BY <1>1, <1>2, <1>3, <2>1 DEF GradientInv, TypeOK, GradientRecord
<1>5. MiniBatch' \in 1..NumMiniBatches(setup, fit)
  <2>1. MiniBatch' = MiniBatch
    BY <1>1 DEF MiniBatch
  <2> QED
    BY <1>1, <2>1, MiniBatchPlanned
<1>6. ASSUME NEW d \in Ranks
      PROVE  0 <= Len(MicroBatchesOf(d)') /\ gradient'[d] = GradientOf(d, 0)'
  <2>1. PICK parts : parts = MicroBatchesOf(d)'
    OBVIOUS
  <2>2. parts = Plan[setup][fit][MiniBatch'][d] /\ d \in 1..setup.dp
    BY <1>1, <2>1 DEF MicroBatchesOf, Ranks
  <2>3. Len(parts) \in Nat
    BY <1>1, <1>5, <2>2, PlannedParts
  <2>4. GradientOf(d, 0)' = {}
    <3>1. 1 .. 0 = {}
      OBVIOUS
    <3> QED
      BY <3>1 DEF GradientOf
  <2>5. gradient'[d] = {}
    BY <1>1, <1>2 DEF NoGradient
  <2> QED
    BY <2>1, <2>3, <2>4, <2>5
<1>7. Accumulates'
  BY <1>1, <1>2, <1>6 DEF Accumulates
<1>8. (fit # "returned" => global_steps <= setup.steps)' /\ stage' # "raised"
  BY <1>1 DEF GradientInv
<1> QED
  BY <1>4, <1>7, <1>8 DEF GradientInv

\* The ranks go through their next micro-batch.
LEMMA GradientAfterBackward ==
  ASSUME GradientInv, Backward
  PROVE  GradientInv'
<1>1. /\ setup \in Setups /\ setup' = setup /\ fit' = fit /\ fit \in Roles /\ done' = done /\ done \in Nat
      /\ stage = "backward" /\ stage' = stage /\ micro' = micro + 1 /\ micro \in Nat
      /\ Updating /\ Updating' /\ global_steps' = global_steps
      /\ UNCHANGED <<weights, skipped, unscaled, rollout_version, old, masked, correct, feedback, far,
                     did_update, teacher>>
      /\ \A d \in Ranks : micro < Len(MicroBatchesOf(d))
      /\ gradient \in [Ranks -> SUBSET GradientRecord]
      /\ weights \in [Roles -> Nat] /\ old \in [actor : Nat, critic : Nat, rollout : Nat]
  BY TypesHere DEF Backward, batchVars, optimizerVars, Updating
<1>2. Ranks' = Ranks /\ Rows' = Rows /\ GradientRecord' = GradientRecord /\ PerUpdate(fit)' = PerUpdate(fit)
  BY <1>1 DEF Ranks, Rows, GradientRecord, PerUpdate
<1>3. done < PerUpdate(fit) /\ \A d \in Ranks : gradient[d] = GradientOf(d, micro)
  BY <1>1 DEF GradientInv, Accumulates
<1>4. MiniBatch \in 1..NumMiniBatches(setup, fit)
  BY <1>1, <1>3, MiniBatchPlanned
<1>5. ASSUME NEW d \in Ranks
      PROVE  /\ gradient'[d] = GradientOf(d, micro + 1) /\ gradient'[d] \subseteq GradientRecord
             /\ micro + 1 <= Len(MicroBatchesOf(d))
  <2>1. PICK parts : parts = MicroBatchesOf(d)
    OBVIOUS
  <2>2. parts = Plan[setup][fit][MiniBatch][d] /\ d \in 1..setup.dp
    BY <2>1 DEF MicroBatchesOf, Ranks
  <2>3. Len(parts) \in Nat /\ \A p \in 1..Len(parts) : parts[p] \in Seq(Rows) /\ parts[p] # <<>>
    BY <1>1, <1>4, <2>2, PlannedParts
  <2>4. PICK l \in Nat : l = Len(parts)
    BY <2>3
  <2>5. micro < l
    BY <1>1, <2>1, <2>4
  <2>6. micro + 1 \in 1 .. l /\ micro + 1 \in Nat /\ micro + 1 <= l
    BY <1>1, <2>5
  <2>7. PICK part : part = parts[micro + 1] /\ part \in Seq(Rows) /\ part # <<>>
    BY <2>3, <2>4, <2>6
  <2>8. Contributions(fit, micro + 1, part) \subseteq GradientRecord
    BY <1>1, <2>6, <2>7, ContributionsAre
  <2>9. gradient'[d] = gradient[d] \cup Contributions(fit, micro + 1, part)
    BY <2>1, <2>7 DEF Backward
  <2>10. gradient[d] \subseteq GradientRecord
    BY <1>1
  <2>11. gradient'[d] = GradientOf(d, micro + 1)
    BY <1>1, <1>3, <2>1, <2>7, <2>9, GradientGrows
  <2> QED
    BY <2>1, <2>4, <2>6, <2>8, <2>9, <2>10, <2>11
<1>6. gradient' \in [Ranks -> SUBSET GradientRecord]
  <2>1. gradient' = [d \in Ranks |-> gradient'[d]]
    BY DEF Backward
  <2>2. \A d \in Ranks : gradient'[d] \in SUBSET GradientRecord
    BY <1>5
  <2> QED
    BY <2>1, <2>2, Zenon
<1>8. TypeOK'
  <2>1. (done \in 0..(IF Updating THEN PerUpdate(fit) ELSE 0))'
    BY <1>1, <1>2 DEF GradientInv, TypeOK
  <2>2. micro' \in Nat
    BY <1>1
  <2> QED
    BY <1>1, <1>2, <1>6, <2>1, <2>2 DEF GradientInv, TypeOK, GradientRecord
<1>9. Accumulates'
  <2>1. UNCHANGED <<setup, fit, done, weights, old, masked, correct, feedback, far>>
    BY <1>1
  <2>2. ASSUME NEW d \in Ranks
        PROVE  micro' <= Len(MicroBatchesOf(d)') /\ gradient'[d] = GradientOf(d, micro)'
    <3>1. PICK k : k = micro + 1
      OBVIOUS
    <3>2. GradientOf(d, k)' = GradientOf(d, k) /\ MicroBatchesOf(d)' = MicroBatchesOf(d)
      BY <2>1, GradientOfSame
    <3>3. gradient'[d] = GradientOf(d, k) /\ k <= Len(MicroBatchesOf(d)) /\ micro' = k
      BY <1>1, <1>5, <3>1
    <3>4. GradientOf(d, micro)' = GradientOf(d, k)'
      BY <3>3 DEF GradientOf
    <3> QED
      BY <3>2, <3>3, <3>4
  <2> QED
    BY <1>1, <1>2, <1>3, <2>2 DEF Accumulates
<1>10. (fit # "returned" => global_steps <= setup.steps)' /\ stage' # "raised"
  BY <1>1 DEF GradientInv
<1> QED
  BY <1>8, <1>9, <1>10 DEF GradientInv

\* A step begins, outside the updates.
LEMMA GradientAfterBegin ==
  ASSUME GradientInv, BeginStep
  PROVE  GradientInv'
<1>1. /\ setup' = setup /\ fit = "begin" /\ global_steps' = global_steps
      /\ UNCHANGED <<done, stage, micro, gradient, far, did_update, weights, skipped, unscaled, teacher>>
      /\ ~Updating /\ done = 0 /\ stage = "split" /\ global_steps <= setup.steps
  BY TypesHere DEF BeginStep, updateVars, optimizerVars, Updating, Roles
<1>2. fit' \in {"critic", "actor", "end"}
  BY DEF BeginStep, AfterCritic
<1>3. masked' \subseteq Rows /\ correct' \subseteq Rows /\ feedback' \subseteq Rows
  <2>1. /\ setup.masks \subseteq SUBSET Rows /\ setup.corrects \subseteq SUBSET Rows
        /\ setup.feedbacks \subseteq SUBSET Rows
    BY TypesHere, UpdateAssumption DEF Rows
  <2>2. masked' \in setup.masks /\ correct' \in setup.corrects /\ feedback' \in setup.feedbacks
    BY DEF BeginStep
  <2> QED
    BY <2>1, <2>2
<1>4. weights.actor \in Nat /\ weights.critic \in Nat /\ rollout_version \in Nat
  BY TypesHere DEF Roles
<1>5. rollout_version' \in Nat /\ old' \in [actor : Nat, critic : Nat, rollout : Nat]
  <2>1. PICK generated : /\ generated = IF setup.one_step_off THEN rollout_version ELSE weights.actor
                         /\ generated \in Nat
    BY <1>4
  <2>2. old' = [actor |-> IF setup.bypass_mode THEN generated ELSE weights.actor,
                critic |-> weights.critic, rollout |-> generated]
    BY <2>1 DEF BeginStep
  <2>3. PICK behind : /\ behind = IF setup.bypass_mode THEN generated ELSE weights.actor
                      /\ behind \in Nat
    BY <1>4, <2>1
  <2>4. rollout_version' = weights.actor
    BY DEF BeginStep
  <2> QED
    BY <1>4, <2>1, <2>2, <2>3, <2>4
<1>6. Updating' => done' <= PerUpdate(fit)'
  <2> SUFFICES ASSUME Updating'  PROVE done' <= PerUpdate(fit)'
    OBVIOUS
  <2>1. PICK role \in Roles : role = fit'
    BY DEF Updating
  <2>2. PICK total \in Nat : total = PerUpdate(role)
    BY TypesHere, PerUpdateNatural
  <2>3. PerUpdate(fit)' = PerUpdate(role)
    BY <1>1, <2>1 DEF PerUpdate
  <2> QED
    BY <1>1, <2>2, <2>3
<1>7. fit' \in Phases /\ (fit' # "returned" => global_steps' <= setup.steps)
  BY <1>1, <1>2 DEF Phases, Roles
<1>8. ~Updating' => done' = 0
  BY <1>1
<1> QED
  BY <1>1, <1>3, <1>5, <1>6, <1>7, <1>8, TypesHere, GradientAfter

\* An optimizer step ends the mini-batch.
LEMMA GradientAfterOptimizer ==
  ASSUME GradientInv, OptimizerStep
  PROVE  GradientInv'
<1>1. /\ setup' = setup /\ fit' = fit /\ fit \in Roles /\ Updating /\ Updating'
      /\ global_steps' = global_steps /\ stage = "backward" /\ stage' = "split"
      /\ done' = done + 1 /\ done \in Nat
      /\ UNCHANGED <<micro, far, rollout_version, old, masked, correct, feedback, teacher>>
  BY TypesHere DEF OptimizerStep, Accumulated, Updating, batchVars
<1>2. done < PerUpdate(fit)
  BY <1>1 DEF GradientInv, Accumulates
<1>3. done' \in Nat /\ done' <= PerUpdate(fit)'
  <2>1. PICK total \in Nat : total = PerUpdate(fit)
    BY <1>1, TypesHere
  <2>2. PerUpdate(fit)' = PerUpdate(fit)
    BY <1>1 DEF PerUpdate
  <2> QED
    BY <1>1, <1>2, <2>1, <2>2
<1>4. weights' \in [Roles -> Nat] /\ skipped' \in [Roles -> Nat]
  <2>1. weights \in [Roles -> Nat] /\ skipped \in [Roles -> Nat]
    BY TypesHere
  <2> QED
    BY <1>1, <2>1 DEF OptimizerStep
<1>5. gradient' \in [Ranks -> SUBSET GradientRecord]
  <2>1. gradient \in [Ranks -> SUBSET GradientRecord]
    BY TypesHere
  <2> QED
    BY <2>1 DEF OptimizerStep, NoGradient
<1>6. did_update' \in BOOLEAN /\ unscaled' \in BOOLEAN
  <2>1. /\ did_update' = (did_update \/ fit = "actor") \/ did_update' = did_update
        /\ unscaled' = (unscaled \/ Scaled) \/ unscaled' = unscaled
    BY DEF OptimizerStep
  <2>2. did_update \in BOOLEAN /\ unscaled \in BOOLEAN
    BY TypesHere
  <2> QED
    BY <2>1, <2>2
<1>7. fit' \in Phases /\ (fit' # "returned" => global_steps' <= setup.steps)
  BY <1>1, TypesHere
<1> QED
  BY <1>1, <1>3, <1>4, <1>5, <1>6, <1>7, TypesHere, GradientAfter

\* An update ends.
LEMMA GradientAfterReset ==
  ASSUME GradientInv, ResetUpdate, setup' = setup, global_steps' = global_steps, stage = "split",
         UNCHANGED <<stage, weights, skipped, unscaled, batchVars>>,
         fit # "returned", fit' \in Phases \ {"returned"}, teacher' \in Seq(Nat)
  PROVE  GradientInv'
<1>1. /\ done' = 0 /\ gradient' = NoGradient /\ far' = {} /\ micro' = 0 /\ did_update' = FALSE
      /\ UNCHANGED <<rollout_version, old, masked, correct, feedback>>
  BY DEF ResetUpdate, batchVars
<1>2. gradient' \in [Ranks -> SUBSET GradientRecord]
  BY <1>1 DEF NoGradient
<1>3. Updating' => done' <= PerUpdate(fit)'
  <2> SUFFICES ASSUME Updating'  PROVE done' <= PerUpdate(fit)'
    OBVIOUS
  <2>1. PICK role \in Roles : role = fit'
    BY DEF Updating
  <2>2. PICK total \in Nat : total = PerUpdate(role)
    BY TypesHere, PerUpdateNatural
  <2>3. PerUpdate(fit)' = PerUpdate(role)
    BY <2>1 DEF PerUpdate
  <2> QED
    BY <1>1, <2>2, <2>3
<1>4. fit' # "returned" => global_steps' <= setup.steps
  BY TypesHere
<1>5. 0 \in Nat /\ FALSE \in BOOLEAN /\ {} \subseteq Rows
  OBVIOUS
<1> QED
  BY <1>1, <1>2, <1>3, <1>4, <1>5, TypesHere, GradientAfter

\* Every step keeps the invariant.
LEMMA GradientStep == GradientInv /\ [Next]_vars => GradientInv'
<1> SUFFICES ASSUME GradientInv, [Next]_vars
             PROVE  GradientInv'
  OBVIOUS
<1>1. CASE BeginStep
  BY <1>1, GradientAfterBegin
<1>2. CASE StartMiniBatch
  BY <1>2, GradientAfterStart
<1>3. CASE Backward
  BY <1>3, GradientAfterBackward
<1>4. CASE OptimizerStep
  BY <1>4, GradientAfterOptimizer
<1>5. CASE EndCritic
  <2>1. /\ ResetUpdate /\ setup' = setup /\ global_steps' = global_steps /\ stage = "split"
        /\ UNCHANGED <<stage, weights, skipped, unscaled, batchVars>>
        /\ fit = "critic" /\ fit' \in {"actor", "end"} /\ teacher' = teacher
    BY <1>5 DEF EndCritic, UpdateOver, AfterCritic, optimizerVars
  <2>2. fit' \in Phases \ {"returned"} /\ teacher' \in Seq(Nat)
    BY <2>1, TypesHere DEF Phases, Roles
  <2> QED
    BY <2>1, <2>2, GradientAfterReset
<1>6. CASE EndActor
  <2>1. /\ ResetUpdate /\ setup' = setup /\ global_steps' = global_steps /\ stage = "split"
        /\ UNCHANGED <<stage, weights, skipped, unscaled, batchVars>>
        /\ fit = "actor" /\ fit' = "end"
    BY <1>6 DEF EndActor, UpdateOver, optimizerVars
  <2>2. teacher' \in Seq(Nat)
    <3>1. teacher \in Seq(Nat) /\ weights.actor \in Nat
      BY TypesHere DEF Roles
    <3>2. teacher' = Append(teacher, weights.actor) \/ teacher' = teacher
      BY <1>6 DEF EndActor, UpdateTeacher
    <3> QED
      BY <3>1, <3>2
  <2>3. fit' \in Phases \ {"returned"}
    BY <2>1 DEF Phases, Roles
  <2> QED
    BY <2>1, <2>2, <2>3, GradientAfterReset
<1>7. CASE EndStep
  <2>1. /\ setup' = setup /\ fit = "end" /\ global_steps' = global_steps + 1
        /\ fit' = IF global_steps >= setup.steps THEN "returned" ELSE "begin"
        /\ UNCHANGED <<done, stage, micro, gradient, far, did_update, weights, skipped, unscaled,
                       rollout_version, old, masked, correct, feedback, teacher>>
    BY <1>7 DEF EndStep, updateVars, optimizerVars, batchVars
  <2>2. ~Updating /\ ~Updating' /\ done = 0 /\ stage = "split"
    BY <2>1, TypesHere DEF Updating, Roles
  <2>3. PICK steps \in Nat \ {0} : steps = setup.steps
    BY TypesHere
  <2>4. global_steps \in 1..(steps + 1) /\ global_steps <= steps
    BY <2>1, <2>3, TypesHere
  <2>5. /\ global_steps' \in 1..(setup.steps + 1)
        /\ (fit' # "returned" => global_steps' <= setup.steps)
    BY <2>1, <2>3, <2>4
  <2>6. fit' \in Phases
    BY <2>1 DEF Phases
  <2> QED
    BY <2>1, <2>2, <2>5, <2>6, TypesHere, GradientAfter
<1>8. CASE UNCHANGED vars
  <2>1. /\ UNCHANGED <<setup, fit, global_steps, done, stage, micro, gradient, far, did_update>>
        /\ UNCHANGED <<weights, skipped, unscaled, rollout_version, old, masked, correct, feedback, teacher>>
    BY <1>8 DEF vars, updateVars, optimizerVars, batchVars
  <2>2. TypeOK'
    BY <2>1 DEF GradientInv, TypeOK, Updating, PerUpdate, Ranks, Rows
  <2>3. \A d : GradientOf(d, micro)' = GradientOf(d, micro) /\ MicroBatchesOf(d)' = MicroBatchesOf(d)
    <3> SUFFICES ASSUME NEW d
                 PROVE  /\ GradientOf(d, micro)' = GradientOf(d, micro)
                        /\ MicroBatchesOf(d)' = MicroBatchesOf(d)
      OBVIOUS
    <3>1. PICK k : k = micro
      OBVIOUS
    <3>2. GradientOf(d, k)' = GradientOf(d, k) /\ MicroBatchesOf(d)' = MicroBatchesOf(d)
      BY <2>1, GradientOfSame
    <3>3. GradientOf(d, micro)' = GradientOf(d, k)'
      BY <2>1, <3>1 DEF GradientOf
    <3> QED
      BY <3>1, <3>2, <3>3
  <2>4. Accumulates'
    BY <2>1, <2>3 DEF GradientInv, Accumulates, Updating, PerUpdate, Ranks
  <2> QED
    BY <2>1, <2>2, <2>4 DEF GradientInv, Updating
<1>9. CASE UnscaleRaises
  <2>1. /\ UNCHANGED <<setup, fit, global_steps, done, micro, gradient, far, did_update>>
        /\ UNCHANGED <<weights, skipped, unscaled, rollout_version, old, masked, correct, feedback, teacher>>
        /\ Updating /\ stage' = "raised"
    BY <1>9 DEF UnscaleRaises, Accumulated, optimizerVars, batchVars
  <2>2. TypeOK'
    BY <2>1 DEF GradientInv, TypeOK, Updating, PerUpdate, Ranks, Rows
  <2>3. Accumulates' /\ Updating'
    BY <2>1 DEF Accumulates, Updating
  <2> QED
    BY <2>1, <2>2, <2>3 DEF GradientInv
<1> QED
  BY <1>1, <1>2, <1>3, <1>4, <1>5, <1>6, <1>7, <1>8, <1>9 DEF Next

\* The variables have their types: no weight is negative, no row is one that the
\* batch does not have, and an update takes no more steps than it should.
THEOREM UpdateTypesCorrect == Spec => []TypeOK
<1>1. GradientInv => TypeOK
  BY DEF GradientInv
<1> QED
  BY <1>1, GradientInit, GradientStep, PTL DEF Spec

\* When the optimizer steps, each rank's gradient holds the rows of its part of
\* the mini-batch that the mask keeps, each once, weighed as if the mini-batch
\* had not been divided.
THEOREM GradientsAreExact == Spec => []GradientsExact
<1>1. GradientInv => GradientsExact
  BY GradientsExactHere
<1> QED
  BY <1>1, GradientInit, GradientStep, PTL DEF Spec

--------------------------------------------------------------------------------
\* The updates of a role that are over are those of the steps before this one,
\* and of this one once the role is through with it.
UpdateSteps(role) ==
    {t \in 1..setup.steps :
        /\ role = "critic" => setup.use_critic
        /\ role = "actor" => setup.critic_warmup <= t
        /\ t < global_steps \/ (t = global_steps /\ fit \in {"end"} \cup ({"actor"} \ {role}))}

Through(role) == IF fit = role THEN done ELSE 0

StepsInv ==
    /\ setup \in Setups
    /\ fit \in Phases
    /\ weights \in [Roles -> Nat] /\ skipped \in [Roles -> Nat]
    /\ done \in Nat /\ micro \in Nat /\ stage \in {"split", "backward", "raised"}
    /\ global_steps \in Nat \ {0} /\ (fit # "returned" => global_steps <= setup.steps)
    /\ Updating => Trains(fit)
    /\ ~Updating => done = 0 /\ stage = "split"
    /\ stage = "backward" => done < PerUpdate(fit)
    /\ \A role \in Roles :
         /\ weights[role] + skipped[role] =
              Cardinality(UpdateSteps(role)) * PerUpdate(role) + Through(role)
         /\ skipped[role] > 0 => setup.overflow

\* In fp16 the actor has skipped a step when its scaler has not been updated, and
\* then never steps again: it skips no second one, and raises at the next.
ScalerInv ==
    /\ unscaled \in BOOLEAN
    /\ unscaled => setup.float16
    /\ setup.float16 => skipped.actor = IF unscaled THEN 1 ELSE 0
    /\ stage = "raised" => fit = "actor" /\ unscaled

\* A role's updates can be counted.
LEMMA UpdateStepsFinite ==
  ASSUME setup \in Setups, NEW role \in Roles
  PROVE  IsFiniteSet(UpdateSteps(role)) /\ Cardinality(UpdateSteps(role)) \in Nat
<1>1. 1 \in Int /\ setup.steps \in Int
  BY UpdateAssumption
<1>2. IsFiniteSet(1..setup.steps)
  BY <1>1, FS_Interval, Zenon
<1>3. UpdateSteps(role) \subseteq 1..setup.steps
  BY DEF UpdateSteps
<1>4. IsFiniteSet(UpdateSteps(role))
  BY <1>2, <1>3, FS_Subset
<1> QED
  BY <1>4, FS_CardinalityType

\* Nothing has been updated.
LEMMA StepsInit == Init => StepsInv
<1> SUFFICES ASSUME Init PROVE StepsInv
  OBVIOUS
<1>1. /\ setup \in Setups /\ fit = "begin" /\ global_steps = 1 /\ done = 0 /\ micro = 0
      /\ stage = "split" /\ setup.steps \in Nat \ {0}
  BY UpdateAssumption DEF Init
<1>2. weights = [role \in Roles |-> 0] /\ skipped = [role \in Roles |-> 0]
  BY DEF Init
<1>3. ~Updating
  BY <1>1 DEF Updating, Roles
<1>4. ASSUME NEW role \in Roles
      PROVE  /\ weights[role] + skipped[role] =
                  Cardinality(UpdateSteps(role)) * PerUpdate(role) + Through(role)
             /\ skipped[role] = 0
  <2>1. UpdateSteps(role) = {}
    <3>1. \A t \in 1..setup.steps : ~(t < 1)
      OBVIOUS
    <3>2. fit \notin {"end"} \cup ({"actor"} \ {role})
      BY <1>1
    <3> QED
      BY <1>1, <3>1, <3>2 DEF UpdateSteps
  <2>2. Cardinality(UpdateSteps(role)) = 0
    BY <2>1, FS_EmptySet
  <2>3. Through(role) = 0
    BY <1>1 DEF Through
  <2>4. PICK k \in Nat : k = PerUpdate(role)
    BY <1>1, PerUpdateNatural
  <2>5. weights[role] = 0 /\ skipped[role] = 0
    BY <1>2
  <2> QED
    BY <2>2, <2>3, <2>4, <2>5
<1>5. \A role \in Roles :
         /\ weights[role] + skipped[role] =
              Cardinality(UpdateSteps(role)) * PerUpdate(role) + Through(role)
         /\ skipped[role] > 0 => setup.overflow
  BY <1>4
<1>6. weights \in [Roles -> Nat] /\ skipped \in [Roles -> Nat]
  BY <1>2
<1>7. global_steps \in Nat \ {0} /\ global_steps <= setup.steps
  BY <1>1
<1> QED
  BY <1>1, <1>3, <1>5, <1>6, <1>7 DEF StepsInv, Phases

\* A step that neither steps an optimizer nor ends an update.
LEMMA StepsUntouched ==
  ASSUME StepsInv, UNCHANGED <<setup, weights, skipped>>,
         \A role \in Roles : UpdateSteps(role)' = UpdateSteps(role) /\ Through(role)' = Through(role)
  PROVE  \A role \in Roles :
           /\ weights'[role] + skipped'[role] =
                Cardinality(UpdateSteps(role)') * PerUpdate(role)' + Through(role)'
           /\ skipped'[role] > 0 => setup'.overflow
<1> SUFFICES ASSUME NEW role \in Roles
             PROVE  /\ weights'[role] + skipped'[role] =
                        Cardinality(UpdateSteps(role)') * PerUpdate(role)' + Through(role)'
                    /\ skipped'[role] > 0 => setup'.overflow
  OBVIOUS
<1>1. PerUpdate(role)' = PerUpdate(role)
  BY DEF PerUpdate
<1>2. /\ weights[role] + skipped[role] =
           Cardinality(UpdateSteps(role)) * PerUpdate(role) + Through(role)
      /\ skipped[role] > 0 => setup.overflow
  BY DEF StepsInv
<1>3. UpdateSteps(role)' = UpdateSteps(role) /\ Through(role)' = Through(role)
  OBVIOUS
<1> QED
  BY <1>1, <1>2, <1>3

\* The end of a role's update adds it, with all its steps.
LEMMA StepsAfterUpdate ==
  ASSUME StepsInv, NEW ended \in Roles, UpdateOver(ended), done' = 0, fit' \in Phases \ {ended},
         UNCHANGED <<setup, weights, skipped>>,
         UpdateSteps(ended)' = UpdateSteps(ended) \cup {global_steps},
         global_steps \notin UpdateSteps(ended),
         \A role \in Roles \ {ended} : UpdateSteps(role)' = UpdateSteps(role)
  PROVE  \A role \in Roles :
           /\ weights'[role] + skipped'[role] =
                Cardinality(UpdateSteps(role)') * PerUpdate(role)' + Through(role)'
           /\ skipped'[role] > 0 => setup'.overflow
<1> SUFFICES ASSUME NEW role \in Roles
             PROVE  /\ weights'[role] + skipped'[role] =
                        Cardinality(UpdateSteps(role)') * PerUpdate(role)' + Through(role)'
                    /\ skipped'[role] > 0 => setup'.overflow
  OBVIOUS
<1>1. PerUpdate(role)' = PerUpdate(role)
  BY DEF PerUpdate
<1>2. /\ weights[role] + skipped[role] =
           Cardinality(UpdateSteps(role)) * PerUpdate(role) + Through(role)
      /\ skipped[role] > 0 => setup.overflow
  BY DEF StepsInv
<1>3. setup \in Setups
  BY DEF StepsInv
<1>4. PICK k \in Nat : k = PerUpdate(role)
  BY <1>3, PerUpdateNatural
<1>5. PICK c \in Nat : c = Cardinality(UpdateSteps(role))
  BY <1>3, UpdateStepsFinite
<1>6. PICK applied \in Int : applied = weights[role] + skipped[role]
  <2>1. weights[role] \in Nat /\ skipped[role] \in Nat
    BY DEF StepsInv
  <2> QED
    BY <2>1
<1>7. Through(role)' = 0
  BY DEF Through
<1>8. CASE role = ended
  <2>1. Cardinality(UpdateSteps(role)') = c + 1
    BY <1>3, <1>5, <1>8, UpdateStepsFinite, FS_AddElement
  <2>2. Through(role) = k
    BY <1>4, <1>8 DEF Through, UpdateOver
  <2>3. applied = c * k + k
    BY <1>2, <1>4, <1>5, <1>6, <2>2
  <2>4. (c + 1) * k + 0 = c * k + k
    OBVIOUS
  <2>5. applied = (c + 1) * k + 0
    BY <2>3, <2>4
  <2> QED
    BY <1>1, <1>2, <1>4, <1>6, <1>7, <2>1, <2>5
<1>9. CASE role # ended
  <2>1. UpdateSteps(role)' = UpdateSteps(role)
    BY <1>9
  <2>2. Through(role) = 0
    BY <1>9 DEF Through, UpdateOver
  <2> QED
    BY <1>1, <1>2, <1>7, <2>1, <2>2
<1> QED
  BY <1>8, <1>9

\* An optimizer step is applied or, after an overflow, skipped.
LEMMA StepsAfterOptimizer ==
  ASSUME StepsInv, OptimizerStep
  PROVE  \A role \in Roles :
           /\ weights'[role] + skipped'[role] =
                Cardinality(UpdateSteps(role)') * PerUpdate(role)' + Through(role)'
           /\ skipped'[role] > 0 => setup'.overflow
<1> SUFFICES ASSUME NEW role \in Roles
             PROVE  /\ weights'[role] + skipped'[role] =
                        Cardinality(UpdateSteps(role)') * PerUpdate(role)' + Through(role)'
                    /\ skipped'[role] > 0 => setup'.overflow
  OBVIOUS
<1>1. /\ UNCHANGED <<setup, fit, global_steps>> /\ fit \in Roles /\ Updating
      /\ done' = done + 1 /\ done \in Nat
      /\ weights \in [Roles -> Nat] /\ skipped \in [Roles -> Nat] /\ setup \in Setups
  BY DEF OptimizerStep, Accumulated, Updating, StepsInv
<1>2. PerUpdate(role)' = PerUpdate(role) /\ UpdateSteps(role)' = UpdateSteps(role)
  BY <1>1 DEF PerUpdate, UpdateSteps
<1>3. /\ weights[role] + skipped[role] =
           Cardinality(UpdateSteps(role)) * PerUpdate(role) + Through(role)
      /\ skipped[role] > 0 => setup.overflow
  BY DEF StepsInv
<1>4. PICK product \in Nat : product = Cardinality(UpdateSteps(role)) * PerUpdate(role)
  <2>1. PICK k \in Nat : k = PerUpdate(role)
    BY <1>1, PerUpdateNatural
  <2>2. PICK c \in Nat : c = Cardinality(UpdateSteps(role))
    BY <1>1, UpdateStepsFinite
  <2> QED
    BY <2>1, <2>2
<1>5. PICK w \in Nat : w = weights[role]
  BY <1>1
<1>6. PICK k \in Nat : k = skipped[role]
  BY <1>1
<1>7. /\ fit = role => w + k = product + done
      /\ fit # role => w + k = product
  <2>1. Through(role) \in Nat
    BY <1>1 DEF Through
  <2>2. PICK through \in Nat : through = Through(role)
    BY <2>1
  <2>3. w + k = product + through
    BY <1>3, <1>4, <1>5, <1>6, <2>2
  <2>4. (fit = role => through = done) /\ (fit # role => through = 0)
    BY <2>2 DEF Through
  <2> QED
    BY <1>1, <2>3, <2>4
<1>8. CASE fit # role
  <2>1. weights'[role] = w /\ skipped'[role] = k
    BY <1>1, <1>5, <1>6, <1>8 DEF OptimizerStep
  <2>2. Through(role)' = 0
    BY <1>1, <1>8 DEF Through
  <2>3. w + k = product + 0
    BY <1>7, <1>8
  <2> QED
    BY <1>1, <1>2, <1>3, <1>4, <1>6, <2>1, <2>2, <2>3
<1>9. CASE fit = role
  <2>1. \/ weights'[role] = w + 1 /\ skipped'[role] = k
        \/ weights'[role] = w /\ skipped'[role] = k + 1 /\ setup.overflow
    BY <1>1, <1>5, <1>6, <1>9 DEF OptimizerStep
  <2>2. Through(role)' = done + 1
    BY <1>1, <1>9 DEF Through
  <2>3. w + 1 + k = product + (done + 1) /\ w + (k + 1) = product + (done + 1)
    BY <1>1, <1>7, <1>9
  <2>5. weights'[role] + skipped'[role] = product + (done + 1)
    BY <2>1, <2>3
  <2>6. skipped'[role] > 0 => setup.overflow
    BY <1>3, <1>6, <2>1
  <2> QED
    BY <1>1, <1>2, <1>4, <2>2, <2>5, <2>6
<1> QED
  BY <1>8, <1>9

\* Every step of the update keeps the count.
LEMMA StepsNext ==
  ASSUME StepsInv, [Next]_vars
  PROVE  StepsInv'
<1> DEFINE Accounted ==
             \A role \in Roles :
               /\ weights'[role] + skipped'[role] =
                    Cardinality(UpdateSteps(role)') * PerUpdate(role)' + Through(role)'
               /\ skipped'[role] > 0 => setup'.overflow
<1>a. /\ setup \in Setups /\ fit \in Phases
      /\ weights \in [Roles -> Nat] /\ skipped \in [Roles -> Nat]
      /\ done \in Nat /\ micro \in Nat /\ stage \in {"split", "backward", "raised"}
      /\ global_steps \in Nat \ {0} /\ (fit # "returned" => global_steps <= setup.steps)
      /\ Updating => Trains(fit)
      /\ ~Updating => done = 0 /\ stage = "split"
      /\ stage = "backward" => done < PerUpdate(fit)
  BY DEF StepsInv
<1>b. setup.steps \in Nat
  BY <1>a, UpdateAssumption
<1>c. ASSUME Accounted, UNCHANGED <<setup, global_steps, weights, skipped>>,
             fit \in Phases \ {"returned"}, fit' \in Phases,
             done' = 0, micro' \in Nat, stage' = "split",
             Updating' => Trains(fit)'
      PROVE  StepsInv'
  BY <1>a, <1>c DEF StepsInv
<1> HIDE DEF Accounted
<1>d. \/ AfterCritic = "actor" /\ Trains("actor")
      \/ AfterCritic = "end" /\ ~Trains("actor")
  BY DEF AfterCritic
<1>1. CASE BeginStep
  <2>1. /\ fit = "begin" /\ done = 0 /\ done' = 0 /\ stage' = "split" /\ micro' = micro
        /\ UNCHANGED <<setup, global_steps, weights, skipped>>
        /\ fit' = IF Trains("critic") THEN "critic" ELSE AfterCritic
    BY <1>1, <1>a DEF BeginStep, updateVars, optimizerVars, Updating, Roles
  <2>2. fit' \in {"critic", "actor", "end"} /\ (Updating' => Trains(fit)')
    BY <1>d, <2>1 DEF Updating, Trains, Roles
  <2>3. \A role \in Roles : UpdateSteps(role)' = UpdateSteps(role) /\ Through(role)' = Through(role)
    <3>1. \A role \in Roles : Through(role)' = Through(role)
      BY <2>1 DEF Through
    <3>2. UpdateSteps("critic")' = UpdateSteps("critic")
      <4>1. CASE fit' = "critic"
        BY <2>1, <4>1 DEF UpdateSteps
      <4>2. CASE fit' # "critic"
        <5>1. ~setup.use_critic
          BY <2>1, <4>2 DEF Trains
        <5> QED
          BY <2>1, <5>1 DEF UpdateSteps
      <4> QED
        BY <4>1, <4>2
    <3>3. UpdateSteps("actor")' = UpdateSteps("actor")
      <4>1. CASE fit' # "end"
        BY <2>1, <4>1 DEF UpdateSteps
      <4>2. CASE fit' = "end"
        <5>1. ~(setup.critic_warmup <= global_steps)
          BY <1>d, <2>1, <4>2 DEF Trains
        <5> QED
          BY <2>1, <5>1 DEF UpdateSteps
      <4> QED
        BY <4>1, <4>2
    <3> QED
      BY <3>1, <3>2, <3>3 DEF Roles
  <2>4. Accounted
    BY <2>1, <2>3, StepsUntouched DEF Accounted
  <2> QED
    BY <1>a, <1>c, <2>1, <2>2, <2>4 DEF Phases, Roles
<1>2. CASE StartMiniBatch
  <2>1. /\ UNCHANGED <<setup, fit, global_steps, done, weights, skipped>>
        /\ Updating /\ done < PerUpdate(fit) /\ micro' = 0 /\ stage' = "backward"
    BY <1>2 DEF StartMiniBatch, optimizerVars
  <2>2. \A role \in Roles : UpdateSteps(role)' = UpdateSteps(role) /\ Through(role)' = Through(role)
    BY <2>1 DEF UpdateSteps, Through
  <2>3. Accounted
    BY <2>1, <2>2, StepsUntouched DEF Accounted
  <2>4. (Trains(fit)' <=> Trains(fit)) /\ PerUpdate(fit)' = PerUpdate(fit) /\ Updating'
    BY <2>1 DEF Trains, PerUpdate, Updating
  <2> QED
    BY <1>a, <2>1, <2>3, <2>4 DEF StepsInv, Accounted
<1>3. CASE Backward
  <2>1. /\ UNCHANGED <<setup, fit, global_steps, done, stage, weights, skipped>>
        /\ Updating /\ micro' = micro + 1
    BY <1>3 DEF Backward, optimizerVars
  <2>2. \A role \in Roles : UpdateSteps(role)' = UpdateSteps(role) /\ Through(role)' = Through(role)
    BY <2>1 DEF UpdateSteps, Through
  <2>3. Accounted
    BY <2>1, <2>2, StepsUntouched DEF Accounted
  <2>4. (Trains(fit)' <=> Trains(fit)) /\ PerUpdate(fit)' = PerUpdate(fit) /\ Updating'
    BY <2>1 DEF Trains, PerUpdate, Updating
  <2>6. micro' \in Nat
    BY <1>a, <2>1
  <2> QED
    BY <1>a, <2>1, <2>3, <2>4, <2>6 DEF StepsInv, Accounted
<1>4. CASE OptimizerStep
  <2>1. /\ UNCHANGED <<setup, fit, global_steps, micro>>
        /\ Updating /\ done' = done + 1 /\ stage' = "split"
    BY <1>4 DEF OptimizerStep, Accumulated
  <2>2. weights' \in [Roles -> Nat] /\ skipped' \in [Roles -> Nat]
    BY <1>a, <1>4, <2>1 DEF OptimizerStep, Updating
  <2>3. Accounted
    BY <1>4, StepsAfterOptimizer DEF Accounted
  <2>4. (Trains(fit)' <=> Trains(fit)) /\ Updating'
    BY <2>1 DEF Trains, Updating
  <2>5. done' \in Nat
    BY <1>a, <2>1
  <2> QED
    BY <1>a, <2>1, <2>2, <2>3, <2>4, <2>5 DEF StepsInv, Accounted
<1>5. CASE EndCritic
  <2>1. /\ UNCHANGED <<setup, global_steps, stage, weights, skipped>>
        /\ UpdateOver("critic") /\ fit = "critic" /\ stage = "split" /\ Updating
        /\ fit' = AfterCritic /\ done' = 0 /\ micro' = 0
    BY <1>5 DEF EndCritic, UpdateOver, ResetUpdate, optimizerVars, Updating, Roles
  <2>2. fit' \in {"actor", "end"} /\ (Updating' => Trains(fit)')
    BY <1>d, <2>1 DEF Updating, Trains, Roles
  <2>3. UpdateSteps("critic")' = UpdateSteps("critic") \cup {global_steps}
    <3>1. setup.use_critic /\ global_steps \in 1..setup.steps
      BY <1>a, <1>b, <2>1 DEF Trains
    <3> QED
      BY <2>1, <2>2, <3>1 DEF UpdateSteps
  <2>4. global_steps \notin UpdateSteps("critic")
    BY <1>a, <2>1 DEF UpdateSteps
  <2>5. UpdateSteps("actor")' = UpdateSteps("actor")
    <3>1. CASE fit' = "actor"
      BY <2>1, <3>1 DEF UpdateSteps
    <3>2. CASE fit' = "end"
      <4>1. ~(setup.critic_warmup <= global_steps)
        BY <1>d, <2>1, <3>2 DEF Trains
      <4> QED
        BY <2>1, <4>1 DEF UpdateSteps
    <3> QED
      BY <2>2, <3>1, <3>2
  <2>6. Accounted
    <3>1. "critic" \in Roles /\ Roles \ {"critic"} = {"actor"} /\ fit' \in Phases \ {"critic"}
      BY <2>2 DEF Roles, Phases
    <3> QED
      BY <2>1, <2>3, <2>4, <2>5, <3>1, StepsAfterUpdate DEF Accounted
  <2> QED
    BY <1>a, <1>c, <2>1, <2>2, <2>6 DEF Phases, Roles
<1>6. CASE EndActor
  <2>1. /\ UNCHANGED <<setup, global_steps, stage, weights, skipped>>
        /\ UpdateOver("actor") /\ fit = "actor" /\ stage = "split" /\ Updating
        /\ fit' = "end" /\ done' = 0 /\ micro' = 0 /\ ~Updating'
    BY <1>6 DEF EndActor, UpdateOver, ResetUpdate, optimizerVars, Updating, Roles
  <2>3. UpdateSteps("actor")' = UpdateSteps("actor") \cup {global_steps}
    <3>1. setup.critic_warmup <= global_steps /\ global_steps \in 1..setup.steps
      BY <1>a, <1>b, <2>1 DEF Trains
    <3> QED
      BY <2>1, <3>1 DEF UpdateSteps
  <2>4. global_steps \notin UpdateSteps("actor")
    BY <1>a, <2>1 DEF UpdateSteps
  <2>5. UpdateSteps("critic")' = UpdateSteps("critic")
    BY <2>1 DEF UpdateSteps
  <2>6. Accounted
    <3>1. "actor" \in Roles /\ Roles \ {"actor"} = {"critic"} /\ fit' \in Phases \ {"actor"}
      BY <2>1 DEF Roles, Phases
    <3> QED
      BY <2>1, <2>3, <2>4, <2>5, <3>1, StepsAfterUpdate DEF Accounted
  <2> QED
    BY <1>a, <1>c, <2>1, <2>6 DEF Phases, Roles
<1>7. CASE EndStep
  <2>1. /\ UNCHANGED <<setup, done, micro, stage, weights, skipped>>
        /\ fit = "end" /\ ~Updating /\ ~Updating' /\ global_steps' = global_steps + 1
        /\ fit' = IF global_steps >= setup.steps THEN "returned" ELSE "begin"
    BY <1>7 DEF EndStep, updateVars, optimizerVars, Updating, Roles
  <2>2. \A role \in Roles : UpdateSteps(role)' = UpdateSteps(role)
    <3> SUFFICES ASSUME NEW role \in Roles PROVE UpdateSteps(role)' = UpdateSteps(role)
      OBVIOUS
    <3>1. \A t \in 1..setup.steps : t < global_steps + 1 <=> t < global_steps \/ t = global_steps
      BY <1>a, <1>b
    <3>2. fit' \notin {"end"} \cup ({"actor"} \ {role})
      BY <2>1
    <3> QED
      BY <2>1, <3>1, <3>2 DEF UpdateSteps
  <2>3. \A role \in Roles : Through(role)' = Through(role)
    BY <2>1 DEF Through, Roles
  <2>4. Accounted
    BY <2>1, <2>2, <2>3, StepsUntouched DEF Accounted
  <2>5. global_steps' \in Nat \ {0} /\ (fit' # "returned" => global_steps' <= setup.steps)
    BY <1>a, <1>b, <2>1
  <2>6. fit' \in Phases
    BY <2>1 DEF Phases
  <2>7. stage' = "split" /\ done' = 0 /\ micro' \in Nat
    BY <1>a, <2>1
  <2> QED
    BY <1>a, <2>1, <2>4, <2>5, <2>6, <2>7 DEF StepsInv, Accounted
<1>8. CASE UNCHANGED vars
  BY <1>8 DEF vars, updateVars, optimizerVars, StepsInv, UpdateSteps, Through, Updating, Trains,
     PerUpdate
<1>9. CASE UnscaleRaises
  <2>1. /\ UNCHANGED <<setup, fit, global_steps, done, micro, weights, skipped>>
        /\ Updating /\ stage' = "raised"
    BY <1>9 DEF UnscaleRaises, Accumulated, optimizerVars
  <2>2. \A role \in Roles : UpdateSteps(role)' = UpdateSteps(role) /\ Through(role)' = Through(role)
    BY <2>1 DEF UpdateSteps, Through
  <2>3. Accounted
    BY <2>1, <2>2, StepsUntouched DEF Accounted
  <2>4. (Trains(fit)' <=> Trains(fit)) /\ Updating'
    BY <2>1 DEF Trains, Updating
  <2> QED
    BY <1>a, <2>1, <2>3, <2>4 DEF StepsInv, Accounted
<1> QED
  BY <1>1, <1>2, <1>3, <1>4, <1>5, <1>6, <1>7, <1>8, <1>9 DEF Next

\* No step of the actor's optimizer follows one that was skipped in fp16.
LEMMA ScalerAfterOptimizer ==
  ASSUME StepsInv, ScalerInv, OptimizerStep
  PROVE  ScalerInv'
<1>1. /\ setup' = setup /\ fit' = fit /\ stage' = "split" /\ fit \in Roles
      /\ skipped \in [Roles -> Nat] /\ unscaled \in BOOLEAN
  BY DEF OptimizerStep, Accumulated, Updating, StepsInv, ScalerInv
<1>2. CASE UNCHANGED <<skipped, unscaled>>
  BY <1>1, <1>2 DEF ScalerInv
<1>3. CASE /\ skipped' = [skipped EXCEPT ![fit] = @ + 1]
           /\ unscaled' = (unscaled \/ Scaled)
  <2>1. CASE fit = "critic"
    <3>1. skipped'.actor = skipped.actor /\ (unscaled' <=> unscaled) /\ unscaled' \in BOOLEAN
      BY <1>1, <1>3, <2>1 DEF Scaled, Roles
    <3> QED
      BY <1>1, <3>1 DEF ScalerInv
  <2>2. CASE fit = "actor" /\ setup.float16
    <3>1. Scaled /\ ~unscaled
      BY <2>2 DEF Scaled, OptimizerStep
    <3>2. skipped.actor = 0
      BY <2>2, <3>1 DEF ScalerInv
    <3>3. skipped'.actor = 1
      BY <1>1, <1>3, <2>2, <3>2 DEF Roles
    <3>4. unscaled' = TRUE
      BY <1>3, <3>1
    <3> QED
      BY <1>1, <2>2, <3>3, <3>4 DEF ScalerInv
  <2>3. CASE ~setup.float16
    <3>1. ~unscaled /\ ~Scaled
      BY <2>3 DEF ScalerInv, Scaled
    <3>2. unscaled' = FALSE
      BY <1>3, <3>1
    <3> QED
      BY <1>1, <2>3, <3>2 DEF ScalerInv
  <2> QED
    BY <1>1, <2>1, <2>2, <2>3 DEF Roles
<1> QED
  BY <1>2, <1>3 DEF OptimizerStep

\* Every step keeps what the scaler says.
LEMMA ScalerNext ==
  ASSUME StepsInv, ScalerInv, [Next]_vars
  PROVE  ScalerInv'
<1>1. ASSUME UNCHANGED <<setup, skipped, unscaled>>, stage' # "raised" \/ UNCHANGED <<stage, fit>>
      PROVE  ScalerInv'
  BY <1>1 DEF ScalerInv
<1>2. \A role \in Roles : UpdateOver(role) => stage # "raised"
  BY DEF UpdateOver
<1>3. ~Updating => stage # "raised"
  BY DEF StepsInv
<1>4. CASE BeginStep
  BY <1>1, <1>3, <1>4 DEF BeginStep, updateVars, optimizerVars, Updating, Roles
<1>5. CASE StartMiniBatch
  BY <1>1, <1>5 DEF StartMiniBatch, optimizerVars
<1>6. CASE Backward
  BY <1>1, <1>6 DEF Backward, optimizerVars
<1>7. CASE OptimizerStep
  BY <1>7, ScalerAfterOptimizer
<1>8. CASE UnscaleRaises
  <2>1. /\ UNCHANGED <<setup, fit, skipped, unscaled>> /\ stage' = "raised"
        /\ fit = "actor" /\ unscaled
    BY <1>8 DEF UnscaleRaises, Scaled, optimizerVars
  <2> QED
    BY <2>1 DEF ScalerInv
<1>9. CASE EndCritic
  BY <1>1, <1>2, <1>9 DEF EndCritic, optimizerVars, Roles
<1>10. CASE EndActor
  BY <1>1, <1>2, <1>10 DEF EndActor, optimizerVars, Roles
<1>11. CASE EndStep
  BY <1>1, <1>3, <1>11 DEF EndStep, updateVars, optimizerVars, Updating, Roles
<1>12. CASE UNCHANGED vars
  BY <1>1, <1>12 DEF vars, updateVars, optimizerVars
<1> QED
  BY <1>4, <1>5, <1>6, <1>7, <1>8, <1>9, <1>10, <1>11, <1>12 DEF Next

\* Every mini-batch of every update is an optimizer step of the role's weights,
\* or one that was skipped after an overflow, for any masks, ranks, epochs and
\* steps; in fp16 the actor skips one at most, and raises only after it.
THEOREM EveryStepAccounted == Spec => []StepsAccounted
<1>1. StepsInv /\ ScalerInv => StepsAccounted
  <2> SUFFICES ASSUME StepsInv, ScalerInv PROVE StepsAccounted
    OBVIOUS
  <2>1. \A role \in Roles :
          /\ weights[role] + skipped[role] =
               Updates(role) * PerUpdate(role) + (IF fit = role THEN done ELSE 0)
          /\ skipped[role] > 0 => setup.overflow
    BY DEF StepsInv, Updates, UpdateSteps, Through
  <2>2. setup.float16 => skipped.actor <= 1
    BY DEF ScalerInv
  <2>3. stage = "raised" => setup.float16 /\ fit = "actor" /\ skipped.actor = 1
    BY DEF ScalerInv
  <2> QED
    BY <2>1, <2>2, <2>3 DEF StepsAccounted
<1>2. Init => StepsInv /\ ScalerInv
  <2> SUFFICES ASSUME Init PROVE ScalerInv
    BY StepsInit
  <2>1. unscaled = FALSE /\ skipped.actor = 0 /\ stage = "split"
    BY DEF Init, Roles
  <2> QED
    BY <2>1 DEF ScalerInv
<1>3. StepsInv /\ ScalerInv /\ [Next]_vars => (StepsInv /\ ScalerInv)'
  BY StepsNext, ScalerNext
<1> QED
  BY <1>1, <1>2, <1>3, PTL DEF Spec
================================================================================
