---------------------------- MODULE SeqlenBalancing ----------------------------
(* utils/seqlen_balancing.py: how rows are divided among data-parallel ranks   *)
(* and, on a rank, among micro-batches, and how results find their rows again. *)
(* Rows are numbered from 1; lens[i] is the length of row i.                   *)
EXTENDS Integers, Sequences, FiniteSets, SequencesExt

calculate_workload(len) == 24576 * len + len * len
Workloads(lens) == [i \in DOMAIN lens |-> calculate_workload(lens[i])]

Total(seq) == SumFunction(seq)
AtIndices(seq, idx) == [p \in DOMAIN idx |-> seq[idx[p]]]
CeilDiv(a, b) == (a + b - 1) \div b
EveryOther(seq, first) ==
    [p \in 1..((Len(seq) - first) \div 2 + 1) |-> seq[2 * p - 2 + first]]

\* sorted() and sort(): less has the pairs of positions of which the first is to
\* come first; positions of which neither is stay in their order.  (SubSeq is for
\* TLC, which evaluates the sequence only once then.)
Sort(seq, less) ==
    LET Ahead(i) == {j \in DOMAIN seq : <<j, i>> \in less \/ (j < i /\ <<i, j>> \notin less)}
        sorted == [p \in DOMAIN seq |-> seq[CHOOSE i \in DOMAIN seq : Cardinality(Ahead(i)) = p - 1]]
    IN SubSeq(sorted, 1, Len(seq))
Pairs(seq) == (DOMAIN seq) \X (DOMAIN seq)
SortBy(seq, key) == Sort(seq, {p \in Pairs(seq) : key[p[1]] < key[p[2]]})
Ascending(S) ==
    [p \in 1..Cardinality(S) |-> CHOOSE i \in S : Cardinality({j \in S : j < i}) = p - 1]

\* class Set of karmarkar_karp: a part with its sum.  Two parts never share an
\* item, so the comparison of their items ends at the first one.
NoItems == [sum |-> 0, items |-> <<>>]
Item(idx, val) == [sum |-> val, items |-> <<idx>>]
Union2(a, b) == [sum |-> a.sum + b.sum, items |-> a.items \o b.items]
Smaller(a, b) ==
    \/ a.sum < b.sum
    \/ a.sum = b.sum /\ Len(a.items) < Len(b.items)
    \/ a.sum = b.sum /\ Len(a.items) = Len(b.items) /\ a.items # <<>> /\ a.items[1] < b.items[1]

\* class State: k parts, the largest first.
Decreasing(parts) ==
    Sort(parts, {p \in Pairs(parts) : Smaller(parts[p[2]], parts[p[1]])})
KKState(idx, vals, k) ==
    Decreasing([i \in 1..k |-> IF i <= Len(idx) THEN Item(idx[i], vals[idx[i]]) ELSE NoItems])
Spread(st) == st[1].sum - st[Len(st)].sum
PopsBefore(s, t) == Spread(s) > Spread(t) \/ (Spread(s) = Spread(t) /\ Smaller(t[1], s[1]))
MergeStates(s, t) ==
    Decreasing([i \in DOMAIN s |-> Union2(s[i], t[Len(t) + 1 - i])])

Pop(states) == CHOOSE s \in states : \A t \in states \ {s} : PopsBefore(s, t)
MergeTwo(states) ==
    LET s == Pop(states)
        t == Pop(states \ {s})
    IN (states \ {s, t}) \union {MergeStates(s, t)}

\* The largest differencing method: the two states of the largest spread are
\* merged, large parts with small ones, until one is left.
KarmarkarKarp(vals, k, equal_size) ==
    LET sorted == SortBy([i \in DOMAIN vals |-> i], vals)
        step   == IF equal_size THEN k ELSE 1
        first  == {KKState(SubSeq(sorted, step * m + 1, step * m + step), vals, k) :
                       m \in 0..(Len(vals) \div step - 1)}
        after[i \in 0..(Cardinality(first) - 1)] ==
            IF i = 0 THEN first ELSE MergeTwo(after[i - 1])
        last == CHOOSE s \in after[Cardinality(first) - 1] : TRUE
    IN [i \in 1..k |-> last[i].items]

get_seqlen_balanced_partitions(vals, k, equal_size) ==
    LET parts == KarmarkarKarp(vals, k, equal_size)
    IN [i \in 1..k |-> SortBy(parts[i], parts[i])]

\* Its assertions: no part is empty, and every row is in one.
PartitionsPass(parts, n) ==
    /\ \A i \in DOMAIN parts : parts[i] # <<>>
    /\ UNION {ToSet(parts[i]) : i \in DOMAIN parts} = 1..n

\* get_group_balanced_partitions: rows of one uid, which are contiguous, stay on
\* one rank.
get_group_balanced_partitions(lens, uids, k) ==
    LET starts == Ascending({i \in DOMAIN uids : i = 1 \/ uids[i] # uids[i - 1]})
        End(g) == IF g = Len(starts) THEN Len(uids) ELSE starts[g + 1] - 1
        Rows(g) == [p \in 1..(End(g) - starts[g] + 1) |-> starts[g] + p - 1]
        load == [g \in DOMAIN starts |-> Total(Workloads(AtIndices(lens, Rows(g))))]
        parts == get_seqlen_balanced_partitions(load, k, TRUE)
        Samples(part) == FlattenSeq([q \in DOMAIN part |-> Rows(part[q])])
    IN [i \in 1..k |-> SortBy(Samples(parts[i]), Samples(parts[i]))]

\* _balance_batch: the order in which the rows are handed to the ranks: equal
\* parts of similar work, inside each the small rows at both ends.
BalancedOrder(lens, dp) ==
    LET load == Workloads(lens)
        parts == get_seqlen_balanced_partitions(load, dp, TRUE)
        Ends(part) == LET s == SortBy(part, AtIndices(load, part))
                      IN EveryOther(s, 1) \o Reverse(EveryOther(s, 2))
    IN FlattenSeq([i \in DOMAIN parts |-> Ends(parts[i])])

GroupedOrder(lens, uids, dp) == FlattenSeq(get_group_balanced_partitions(lens, uids, dp))

\* rearrange_micro_batches: the number a rank would take alone, and the lists of
\* indices once the ranks agreed on the largest one; the heaviest in the middle.
MicroBatchesWanted(lens, max_token_len) ==
    LET n == CeilDiv(Total(lens), max_token_len) IN IF n < Len(lens) THEN n ELSE Len(lens)
HeaviestFirst(parts, load) ==
    LET work == [i \in DOMAIN parts |-> Total(AtIndices(load, parts[i]))]
    IN Sort(parts, {p \in Pairs(parts) :
                       \/ work[p[1]] > work[p[2]]
                       \/ work[p[1]] = work[p[2]] /\ parts[p[1]][1] > parts[p[2]][1]})
FirstInMiddle(seq) == Reverse(EveryOther(seq, 1)) \o EveryOther(seq, 2)
MicroBatches(lens, num_micro_batches) ==
    LET load == Workloads(lens)
        parts == get_seqlen_balanced_partitions(load, num_micro_batches, FALSE)
    IN FirstInMiddle(HeaviestFirst(parts, load))

get_reverse_idx(idx) == [i \in DOMAIN idx |-> CHOOSE p \in DOMAIN idx : idx[p] = i]

\* Mutant: the index map itself is applied, not its inverse.
restore_by_same_idx(data, batch_idx_list) ==
    AtIndices(data, FlattenSeq(batch_idx_list))

\* restore_dynamic_batch: results in the order of the micro-batches go back to
\* the order of the rows.
restore_dynamic_batch(data, batch_idx_list) ==
    AtIndices(data, get_reverse_idx(FlattenSeq(batch_idx_list)))
================================================================================
