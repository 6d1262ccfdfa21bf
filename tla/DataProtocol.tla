------------------------------ MODULE DataProtocol -----------------------------
(* protocol.py and single_controller/base/decorator.py: batches of rows on the *)
(* controller, cut into chunks for the ranks of a worker group and put together *)
(* again.  A batch is the sequence of its rows; a column of results is aligned  *)
(* with it by position.                                                         *)
EXTENDS Integers, Sequences, FiniteSets, SequencesExt

\* DataProto.repeat(interleave=True): the copies of a row follow one another.
RepeatInterleave(rows, n) == [p \in 1..(Len(rows) * n) |-> rows[((p - 1) \div n) + 1]]

\* DataProto.reorder: row order[p] of the old batch becomes row p.
Reorder(rows, order) == [p \in DOMAIN order |-> rows[order[p]]]

\* DataProto.chunk asserts that the batch divides.
Divides(rows, chunks) == Len(rows) % chunks = 0
Chunk(rows, chunks) ==
    LET size == Len(rows) \div chunks
    IN [c \in 1..chunks |-> SubSeq(rows, (c - 1) * size + 1, c * size)]

\* DataProto.split: parts of size rows, the last one what is left.
Split(rows, size) ==
    [c \in 1..((Len(rows) + size - 1) \div size) |->
        SubSeq(rows, (c - 1) * size + 1, IF c * size < Len(rows) THEN c * size ELSE Len(rows))]

Concat(batches) == FlattenSeq(batches)

\* pad_dataproto_to_divisor repeats the batch from its beginning, as often as
\* needed; unpad_dataproto drops the tail.
PadSize(rows, divisor) == (divisor - (Len(rows) % divisor)) % divisor
PadToDivisor(rows, divisor) ==
    [p \in 1..(Len(rows) + PadSize(rows, divisor)) |-> rows[((p - 1) % Len(rows)) + 1]]
Unpad(rows, pad_size) == SubSeq(rows, 1, Len(rows) - pad_size)

\* A mesh has dp ranks times sp workers that share a rank's rows.  The dispatch
\* sends chunk dp_rank[w] to worker w, and collects from the workers of the mask,
\* in the order of the workers.
MeshWorkers(mesh) == 1..(mesh.dp * mesh.sp)
DpRank(mesh, w) == ((w - 1) \div mesh.sp) + 1
IsCollect(mesh, w) == (w - 1) % mesh.sp = 0
DispatchNd(mesh, rows) == [w \in MeshWorkers(mesh) |-> Chunk(rows, mesh.dp)[DpRank(mesh, w)]]
CollectNd(mesh, output) ==
    Concat([w \in MeshWorkers(mesh) |-> IF IsCollect(mesh, w) THEN output[w] ELSE <<>>])
================================================================================
