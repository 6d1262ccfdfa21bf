------------------------------ MODULE CspdTargets ------------------------------
(***************************************************************************)
(* RayPPOTrainer._prepare_cspd_targets (trainer/ppo/ray_trainer.py) with   *)
(* the helpers of trainer/ppo/cspd.py: choose the most uncertain response  *)
(* prefixes, ask the critic for the value of every candidate successor,    *)
(* put the answers back where they belong and turn them into a success     *)
(* posterior over the candidates and a tail.                               *)
(*                                                                         *)
(* Tokens are tuples that say where they come from, so that a misplaced    *)
(* answer shows.  The critic is an unknown function of the tokens it sees: *)
(* the scatter moves those tokens about, and only the last step reads      *)
(* numbers off them.  Probabilities are integers over Scale, products of   *)
(* two of them integers over Scale * Scale.  The code's eps = 1e-6 is      *)
(* below the grid, so "> eps" is "> 0".  meta_info["cspd_topk"] is set and *)
(* restored inside the first step and no later step reads it.              *)
(***************************************************************************)
EXTENDS Integers, FiniteSets, SequencesExt

CONSTANTS NumRows,          \* responses in the batch
          PromptWidth,      \* padded width of a prompt
          ResponseWidth,    \* padded width of a response
          TopK,             \* cspd_topk
          MaxPrefixes,      \* cspd_prefixes_per_response
          DpSize,           \* data-parallel critic workers
          Scale,            \* the integer that stands for probability 1
          Prompts,          \* lengths the prompts may have, row by row
          Masks,            \* response masks a row may have, sets of positions
          Entropies,        \* entropies a position may have
          Values,           \* outputs of the critic; -Scale .. Scale is [-1, 1]
          TopProbs          \* top-K probabilities of a position, times Scale

\* Values are signed returns of the parity of Scale, so that the halves below are
\* exact; the top-K probabilities are part of a distribution.
CspdAssumption ==
    /\ {NumRows, PromptWidth, ResponseWidth, TopK, DpSize, Scale} \subseteq Nat \ {0}
    /\ MaxPrefixes \in Int
    /\ Prompts \subseteq [1 .. NumRows -> 1 .. PromptWidth]
    /\ Masks \subseteq SUBSET (1 .. ResponseWidth)
    /\ Entropies \subseteq Nat
    /\ \A v \in Values : v \in Int /\ (v + Scale) % 2 = 0
    /\ \A p \in TopProbs : p \in [1 .. TopK -> 0 .. Scale] /\ SumFunction(p) <= Scale

ASSUME CspdAssumption

Rows == 1 .. NumRows
Times == 1 .. ResponseWidth
Top == 1 .. TopK

VARIABLES pc,               \* the statement the trainer is at
          batch,            \* prompt lengths, response masks, entropies
          selected,         \* selected[i]: the chosen positions of row i
          queries,          \* the successor batch
          successor_values, \* what the critic saw for candidate j of (i, t)
          critic,           \* the value function frozen for this iteration
          pi_top,           \* behaviour probabilities of the candidates
          target            \* posterior masses, their total and the weight

vars == <<pc, batch, selected, queries, successor_values, critic, pi_top, target>>

(***************************************************************************)
(* Tokens and the rows of the batch                                        *)
(***************************************************************************)
Pad == <<"pad", 0, 0, 0>>
PromptToken(i, j) == <<"prompt", i, j, 0>>
ResponseToken(i, t) == <<"response", i, t, 0>>
Candidate(i, t, j) == <<"candidate", i, t, j>>

Padding(i) == PromptWidth - batch.prompt[i]

\* input_ids[i, :prompt_width], padded on the left.
SourceIds(i) == [j \in 1 .. PromptWidth |-> IF j <= Padding(i) THEN Pad ELSE PromptToken(i, j)]

\* Mutant: the padding is kept.
PromptTokensPadded(i) == SourceIds(i)

\* The prompt columns where the attention mask is set.
PromptTokens(i) == SubSeq(SourceIds(i), Padding(i) + 1, PromptWidth)

\* The tokens before position t of the response of row i.
PrefixIds(i, t) == PromptTokens(i) \o [u \in 1 .. t - 1 |-> ResponseToken(i, u)]

(***************************************************************************)
(* select_prefixes                                                         *)
(***************************************************************************)
\* Mutant: padding competes for the quota.
UncertaintyUnmasked(i, t) == batch.entropy[i][t]

\* The entropy with masked positions at minus infinity.
Uncertainty(i, t) == IF t \in batch.mask[i] THEN batch.entropy[i][t] ELSE -1

\* What topk may return for row i: ties are broken either way.
TopPositions(i) ==
    LET k == Max({0, Min({MaxPrefixes, ResponseWidth})})
    IN {S \in SUBSET Times :
           /\ Cardinality(S) = k
           /\ \A t \in S, u \in Times \ S : Uncertainty(i, u) <= Uncertainty(i, t)}

SelectPrefixes ==
    /\ pc = "select"
    /\ \E top \in [Rows -> SUBSET Times] :
          /\ \A i \in Rows : top[i] \in TopPositions(i)
          /\ selected' = [i \in Rows |-> top[i] \cap batch.mask[i]]
    /\ pc' = "query"
    /\ UNCHANGED <<batch, queries, successor_values, critic, pi_top, target>>

(***************************************************************************)
(* make_successor_batch                                                    *)
(***************************************************************************)
\* Row-major order.
Before(p, q) == p[1] < q[1] \/ (p[1] = q[1] /\ p[2] < q[2])

\* selected_mask.nonzero(): the selected positions, row by row.
SelectedPositions ==
    LET chosen == {p \in Rows \X Times : p[2] \in selected[p[1]]}
    IN CHOOSE s \in [1 .. Cardinality(chosen) -> chosen] :
          \A m, n \in DOMAIN s : m < n => Before(s[m], s[n])

\* Mutant: torch.repeat, the whole list TopK times.
RepeatTiled(s) == [n \in 1 .. Len(s) * TopK |-> s[((n - 1) % Len(s)) + 1]]

\* repeat_interleave: each element TopK times in a row.
repeat_interleave(s) == [n \in 1 .. Len(s) * TopK |-> s[((n - 1) \div TopK) + 1]]

\* topk_ids[selected_mask].reshape(-1)
SelectedActions ==
    LET s == SelectedPositions
    IN [n \in 1 .. Len(s) * TopK |->
           LET p == s[((n - 1) \div TopK) + 1]
           IN Candidate(p[1], p[2], ((n - 1) % TopK) + 1)]

MakeSuccessorBatch ==
    /\ pc = "query"
    /\ LET places == repeat_interleave(SelectedPositions)
           seqs == [n \in DOMAIN places |->
                       PrefixIds(places[n][1], places[n][2]) \o <<SelectedActions[n], Pad>>]
           width == Max({Len(seqs[n]) : n \in DOMAIN seqs} \cup {0})
       IN queries' = [n \in DOMAIN seqs |->
                         LET start == width - Len(seqs[n])
                         IN [ids |-> [c \in 1 .. start |-> Pad] \o seqs[n],
                             start |-> start]]
    /\ pc' = "score"
    /\ UNCHANGED <<batch, selected, successor_values, critic, pi_top, target>>

(***************************************************************************)
(* _compute_values on the successor batch and the scatter of its answers   *)
(***************************************************************************)
\* The tokens the value at the one response position depends on: those the
\* attention mask shows, up to the column before the last.
SeenByCritic(q) == SubSeq(q.ids, q.start + 1, Len(q.ids) - 1)

\* successor_values[selected] = scored.view(-1, topk); zero (no tokens) elsewhere.
Scatter(scored) ==
    LET s == SelectedPositions
        at(i, t) == CHOOSE m \in DOMAIN s : s[m] = <<i, t>>
    IN [i \in Rows |-> [t \in Times |-> [j \in Top |->
           IF t \in selected[i] THEN scored[(at(i, t) - 1) * TopK + j] ELSE <<>>]]]

Score ==
    /\ pc = "score"
    /\ Len(queries) % DpSize = 0
    /\ successor_values' = Scatter([n \in DOMAIN queries |-> SeenByCritic(queries[n])])
    /\ pc' = "posterior"
    /\ UNCHANGED <<batch, selected, queries, critic, pi_top, target>>

\* The dispatch asserts that the batch splits evenly over the critic workers.
ScoreNotDivisible ==
    /\ pc = "score"
    /\ Len(queries) % DpSize # 0
    /\ pc' = "failed"
    /\ UNCHANGED <<batch, selected, queries, successor_values, critic, pi_top, target>>

(***************************************************************************)
(* build_success_posterior                                                 *)
(***************************************************************************)
Clamp(x, lo, hi) == Max({lo, Min({x, hi})})

\* Mutant: the signed return is taken for a probability.
SuccessUnshifted(v) == Clamp(v, 0, Scale)

\* The critic predicts the return in [-1, 1]; the success probability is half
\* of it shifted.
Success(v) == Clamp((v + Scale) \div 2, 0, Scale)

\* The value the frozen critic gives to the tokens it saw.
ValueOf(seen, cr) ==
    CASE seen = <<>> -> 0
      [] seen # <<>> /\ Last(seen)[1] = "candidate" -> cr.successor[Last(seen)[4]]
      [] OTHER -> cr.state[Last(seen)[2]]

\* batch["values"]: the critic's value of a prefix, zero at masked positions.
StateValue(i, t, cr) == IF t \in batch.mask[i] THEN ValueOf(PrefixIds(i, t), cr) ELSE 0

TailProbability(p) == Clamp(Scale - SumFunction(p), 0, Scale)

\* Mutant: the tail is not projected.
TailMassUnprojected(raw, p) == raw

\* The mass the candidates leave, projected to what the tail can hold.
TailMass(raw, p) == Min({Max({raw, 0}), Scale * TailProbability(p)})

\* Whether a position's target counts.
Usable(chosen, total) == chosen /\ total > 0

PosteriorAt(i, t, cr, p) ==
    LET top == [j \in Top |-> p[j] * Success(ValueOf(successor_values[i][t][j], cr))]
        state == Success(StateValue(i, t, cr))
        tail == TailMass(Scale * state - SumFunction(top), p)
        total == SumFunction(top) + tail
        valid == Usable(t \in selected[i], total)
    IN [top |-> IF valid THEN top ELSE [j \in Top |-> 0],
        tail |-> IF valid THEN tail ELSE 0,
        total |-> IF valid THEN total ELSE 0,
        weight |-> IF valid THEN state ELSE 0]

BuildSuccessPosterior ==
    /\ pc = "posterior"
    /\ \E cr \in [state : [Rows -> Values], successor : [Top -> Values]], p \in TopProbs :
          /\ critic' = cr
          /\ pi_top' = p
          /\ target' = [i \in Rows |-> [t \in Times |-> PosteriorAt(i, t, cr, p)]]
    /\ pc' = "done"
    /\ UNCHANGED <<batch, selected, queries, successor_values>>

(***************************************************************************)
(* Specification                                                           *)
(***************************************************************************)
NoTarget == [top |-> [j \in Top |-> 0], tail |-> 0, total |-> 0, weight |-> 0]

Init ==
    /\ pc = "select"
    \* _compute_old_log_prob: the entropies of the behaviour policy.
    /\ batch \in [prompt : Prompts,
                  mask : [Rows -> Masks],
                  entropy : [Rows -> [Times -> Entropies]]]
    /\ selected = [i \in Rows |-> {}]
    /\ queries = <<>>
    /\ successor_values = [i \in Rows |-> [t \in Times |-> [j \in Top |-> <<>>]]]
    /\ critic = [state |-> [i \in Rows |-> 0], successor |-> [j \in Top |-> 0]]
    /\ pi_top = [j \in Top |-> 0]
    /\ target = [i \in Rows |-> [t \in Times |-> NoTarget]]

Next ==
    \/ SelectPrefixes
    \/ MakeSuccessorBatch
    \/ Score
    \/ ScoreNotDivisible
    \/ BuildSuccessPosterior

Spec == Init /\ [][Next]_vars

(***************************************************************************)
(* Properties                                                              *)
(***************************************************************************)
\* Types: every mass is a mass, whatever the critic answers.  A negative tail
\* would make the forward cross-entropy push the student away from the tail.
TypeOK ==
    /\ pc \in {"select", "query", "score", "posterior", "done", "failed"}
    /\ selected \in [Rows -> SUBSET Times]
    /\ \A n \in DOMAIN queries : queries[n].start \in 0 .. PromptWidth + ResponseWidth
    /\ target \in [Rows -> [Times -> [top : [Top -> 0 .. Scale * Scale],
                                      tail : 0 .. Scale * Scale,
                                      total : 0 .. (TopK + 1) * Scale * Scale,
                                      weight : 0 .. Scale]]]

\* select_prefixes takes real response tokens only, as many as it may, and the
\* most uncertain of them: padding never uses up a row's quota.
SelectsMostUncertain ==
    pc # "select" =>
        \A i \in Rows :
            /\ selected[i] \subseteq batch.mask[i]
            /\ Cardinality(selected[i])
                  = Min({Max({0, MaxPrefixes}), Cardinality(batch.mask[i])})
            /\ \A t \in selected[i], u \in batch.mask[i] \ selected[i] :
                  batch.entropy[i][u] <= batch.entropy[i][t]

\* The number written for candidate j of position t of row i is the critic's
\* value of exactly that prompt, that response up to t and that candidate:
\* neither padding, the dummy token nor another row's prefix reaches it, through
\* compaction, left-padding, flattening and the scatter back.
ScoresAreAligned ==
    pc = "posterior" =>
        \A i \in Rows, t \in Times, j \in Top :
            t \in selected[i] =>
                successor_values[i][t][j] =
                    [c \in 1 .. batch.prompt[i] |-> PromptToken(i, Padding(i) + c)]
                    \o [u \in 1 .. t - 1 |-> ResponseToken(i, u)]
                    \o <<Candidate(i, t, j)>>

\* P(success) of the state of row i and of its candidate j, over 2 * Scale:
\* the reward is +1 or -1.  A reference for a critic that stays within it.
InRange(v) == v \in -Scale .. Scale

\* A critic is consistent at a prefix of row i when the value it gives to the
\* prefix is an average of its candidates' values and of some tail in [-1, 1].
Consistent(i) ==
    LET v == critic.state[i]
        known == SumFunction([j \in Top |-> pi_top[j] * critic.successor[j]])
        rest == Scale - SumFunction(pi_top)
    IN /\ InRange(v)
       /\ \A j \in Top : InRange(critic.successor[j])
       /\ Scale * v - known \in -(Scale * rest) .. Scale * rest

\* With a consistent critic the target is the exact Bayes posterior: the masses
\* add up to the value of the state, and candidate j has pi(a_j) * P(success |
\* s, a_j) / P(success | s), in signed values 2 P - 1.
\* Even for an inconsistent critic conditioning on success does not raise joint
\* mass: no candidate's mass exceeds its behaviour probability, nor the tail's
\* the behaviour tail.
TargetIsBayesPosterior ==
    pc = "done" =>
        /\ \A i \in Rows : \A t \in selected[i] :
            Consistent(i) =>
                /\ 2 * target[i][t].total = Scale * (critic.state[i] + Scale)
                /\ \A j \in Top : 2 * target[i][t].top[j] = pi_top[j] * (critic.successor[j] + Scale)
        /\ \A i \in Rows, t \in Times :
            LET g == target[i][t]
            IN /\ \A j \in Top : g.top[j] <= Scale * pi_top[j]
               /\ g.tail <= Scale * (Scale - SumFunction(pi_top))
================================================================================
