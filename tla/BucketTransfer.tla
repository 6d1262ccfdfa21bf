--------------------------- MODULE BucketTransfer ---------------------------
(***************************************************************************)
(* The transfer of the actor's weights to the rollout ranks:               *)
(* sync_rollout_weights and sync_rollout_weights_by_checkpoint             *)
(* (fully_async_policy/fsdp_workers.py) and the CheckpointEngine they call *)
(* (fully_async_policy/checkpoint_engine.py).                              *)
(*                                                                         *)
(* Parameters are packed into buckets, each held by one actor rank.  All   *)
(* ranks walk the same list of broadcasts.  A broadcast and a barrier are  *)
(* steps of all ranks together and complete when they return; what a rank  *)
(* does between two of them that no other thread can see (copying its      *)
(* bucket to the device and into its own buffer, sending a message to its  *)
(* thread) is part of the next or the last of them.  With overlap, each    *)
(* rank has a thread that loads one half of the broadcast buffer while the *)
(* next bucket arrives in the other half; a message that loads nothing is  *)
(* answered at once.                                                       *)
(***************************************************************************)
EXTENDS Integers, Sequences, FiniteSets, SequencesExt

CONSTANTS
  ActorRanks,    \* the sequence actor_ranks
  RolloutRanks,  \* the set of rollout ranks
  WeightsInfos,  \* the lists of (aligned) parameter sizes considered
  DeviceBuffer,  \* device_buffer_size_M
  MaxVersion     \* bound: versions of the actor's weights

Ranks == ToSet(ActorRanks) \cup RolloutRanks
Modes == {"plain", "engine", "overlap"}

ASSUME TransferAssumption ==
  /\ ActorRanks \in Seq(Ranks) /\ ActorRanks # <<>>
  /\ IsInjective(ActorRanks)
  /\ ToSet(ActorRanks) \cap RolloutRanks = {}
  /\ \A info \in WeightsInfos : info \in Seq(Nat \ {0}) /\ info # <<>>
  /\ DeviceBuffer \in Nat \ {0}
  /\ MaxVersion \in Nat

VARIABLES
  mode,          \* checkpoint_engine.enable, overlap_broadcast_and_consume
  weights_info,  \* size of each parameter
  order,         \* the broadcasts of an update, from global_buckets
  actor_version, \* which update the actor's weights come from
  tp,            \* where each rank is in sync_rollout_weights...
  memory_buffers,\* version each actor rank holds in host memory, or -1
  h2d_buffer,    \* bucket on each rank's device, or NoData
  half,          \* the two halves of each rank's broadcast_load_buffer
  gidx,          \* broadcasts done in this update
  consumer,      \* the loading thread: off, idle, busy, loading, acked
  job,           \* the broadcast last given to each rank to load
  model          \* version of each parameter in each rollout rank's engine

settings == <<mode, weights_info, order>>
buffers == <<memory_buffers, h2d_buffer, half>>
transferVars == <<settings, actor_version, tp, buffers, gidx, consumer, job, model>>

NoData == [owner |-> "none", i |-> 0, version |-> -1]
Corrupt == -1
Params == DOMAIN weights_info
Overlap == mode = "overlap"

-----------------------------------------------------------------------------
(* register_checkpoint: which parameter goes to which bucket.              *)

BucketSize == LET largest == CHOOSE p \in Params :
                               \A q \in Params : weights_info[q] <= weights_info[p]
              IN  IF DeviceBuffer < weights_info[largest]
                  THEN weights_info[largest] ELSE DeviceBuffer

EmptyBucket == [size |-> 0, metas |-> <<>>]

(* Parameter p goes to the next actor rank, into that rank's last bucket if *)
(* it fits and into a new one otherwise.                                   *)
AssignParam(buckets, p) ==
  LET r    == ActorRanks[((p - 1) % Len(ActorRanks)) + 1]
      last == buckets[r][Len(buckets[r])]
      size == weights_info[p]
  IN  IF last.size + size > BucketSize
      THEN [buckets EXCEPT ![r] = Append(@, [size |-> size, metas |-> <<p>>])]
      ELSE [buckets EXCEPT ![r][Len(buckets[r])] =
              [size |-> last.size + size, metas |-> Append(last.metas, p)]]

GlobalBuckets ==
  LET after[p \in 0 .. Len(weights_info)] ==
        IF p = 0 THEN [r \in ToSet(ActorRanks) |-> <<EmptyBucket>>]
                 ELSE AssignParam(after[p - 1], p)
  IN  after[Len(weights_info)]

(* The order in which update_checkpoint broadcasts: the first bucket of    *)
(* every actor rank, then the second of those that have one, ...; n counts *)
(* the ranks looked at over all rounds.                                    *)
BucketOrder(buckets) ==
  LET k    == Len(ActorRanks)
      Own(n) == ActorRanks[((n - 1) % k) + 1]
      Row(n) == (n - 1) \div k + 1
      after[n \in 0 .. Len(weights_info) * k] ==
        IF n = 0 THEN <<>>
        ELSE IF Row(n) <= Len(buckets[Own(n)])
             THEN Append(after[n - 1], [owner |-> Own(n), i |-> Row(n),
                                        metas |-> buckets[Own(n)][Row(n)].metas])
             ELSE after[n - 1]
  IN  after[Len(weights_info) * k]

(* Without the engine, rank 0 broadcasts one parameter after the other.    *)
ParamOrder == [p \in Params |-> [owner |-> ActorRanks[1], i |-> p, metas |-> <<p>>]]

(* The bucket of broadcast number g, counted from 0 as gidx is.            *)
Bucket(g) == order[g + 1]
More(g) == g < Len(order)

(* The first broadcast of an iteration of the outer loop over i.           *)
FirstOfRow(g) == g = 0 \/ Bucket(g - 1).i # Bucket(g).i

(* Mutant: the two halves are not alternated.                              *)
HalfOfOneBuffer(g) == 0

HalfOf(g) == IF Overlap THEN g % 2 ELSE 0

-----------------------------------------------------------------------------
TransferInit ==
  /\ mode \in Modes
  /\ weights_info \in WeightsInfos
  /\ order = IF mode = "plain" THEN ParamOrder ELSE BucketOrder(GlobalBuckets)
  /\ actor_version = 0
  /\ tp = [r \in Ranks |-> "idle"]
  /\ memory_buffers = [r \in Ranks |-> -1]
  /\ h2d_buffer = [r \in Ranks |-> NoData]
  /\ half = [r \in Ranks |-> [h \in 0 .. 1 |-> NoData]]
  /\ gidx = 0
  /\ consumer = [r \in Ranks |-> "off"]
  /\ job = [r \in Ranks |-> 0]
  /\ model = [r \in RolloutRanks |-> [p \in Params |-> 0]]

(* The actor has been trained and all ranks are called.                    *)
StartTransfer ==
  /\ \A r \in Ranks : tp[r] = "idle"
  /\ actor_version < MaxVersion
  /\ actor_version' = actor_version + 1
  /\ tp' = [r \in Ranks |-> IF mode = "plain" THEN "broadcast" ELSE "register"]
  /\ gidx' = 0
  /\ UNCHANGED <<settings, buffers, consumer, job, model>>

(* cache_actor_weights_to_cpu and register_checkpoint of one rank.         *)
RegisterCheckpoint(r) ==
  /\ tp[r] = "register"
  /\ tp' = [tp EXCEPT ![r] = "start"]
  /\ memory_buffers' = IF r \in ToSet(ActorRanks)
                       THEN [memory_buffers EXCEPT ![r] = actor_version]
                       ELSE memory_buffers
  /\ UNCHANGED <<settings, actor_version, h2d_buffer, half, gidx, consumer, job, model>>

(* The barrier before update_checkpoint; each rank then allocates fresh    *)
(* buffers and, with overlap, starts its thread and greets it.             *)
StartUpdate ==
  /\ \A r \in Ranks : tp[r] = "start"
  /\ tp' = [r \in Ranks |-> "broadcast"]
  /\ h2d_buffer' = [r \in Ranks |-> NoData]
  /\ half' = [r \in Ranks |-> [h \in 0 .. 1 |-> NoData]]
  /\ consumer' = [r \in Ranks |-> IF Overlap THEN "acked" ELSE "off"]
  /\ UNCHANGED <<settings, actor_version, memory_buffers, gidx, job, model>>

(* Step 1: at the first broadcast of a row an actor rank copies its own    *)
(* bucket of that row, if it has one, to the device.                       *)
OnDevice(r, g) ==
  IF mode # "plain" /\ FirstOfRow(g) /\ memory_buffers[r] >= 0
     /\ \E k \in 1 .. Len(order) : order[k].owner = r /\ order[k].i = Bucket(g).i
  THEN [owner |-> r, i |-> Bucket(g).i, version |-> memory_buffers[r]]
  ELSE h2d_buffer[r]

(* What the source of broadcast g sends: its device buffer, or, without    *)
(* the engine, the parameter itself.                                       *)
Sent(r, g) == IF mode = "plain"
              THEN [owner |-> r, i |-> Bucket(g).i, version |-> actor_version]
              ELSE OnDevice(r, g)

AfterAll == CASE mode = "plain"  -> "idle"
              [] mode = "engine" -> "final"
              [] OTHER           -> "drain"

(* Mutant: one broadcast too many.                                         *)
AfterOneMore(g) == IF More(g) THEN "broadcast" ELSE AfterAll

(* Where a rank goes after broadcast g when nothing is left to be done     *)
(* for it.                                                                 *)
After(g) == IF More(g + 1) THEN "broadcast" ELSE AfterAll

(* Steps 1 and 2: collective.broadcast of the next bucket to every rank.   *)
(* Without overlap a rollout rank goes on to load it.                      *)
Broadcast ==
  LET sent == Sent(Bucket(gidx).owner, gidx) IN
  /\ \A r \in Ranks : tp[r] = "broadcast"
  /\ h2d_buffer' = [r \in Ranks |-> OnDevice(r, gidx)]
  /\ half' = [r \in Ranks |-> [half[r] EXCEPT ![HalfOf(gidx)] = sent]]
  /\ tp' = [r \in Ranks |-> IF Overlap THEN "ack"
                             ELSE IF r \in RolloutRanks THEN "load"
                             ELSE After(gidx)]
  /\ job' = IF Overlap THEN job ELSE [r \in Ranks |-> gidx]
  /\ gidx' = IF Overlap THEN gidx ELSE gidx + 1
  /\ UNCHANGED <<settings, actor_version, memory_buffers, consumer, model>>

(* What a load of broadcast g makes of rank r's model: a parameter that is *)
(* not where the metas say it is becomes garbage.                          *)
Loaded(r, g) ==
  LET b == Bucket(g)
      c == half[r][HalfOf(g)]
  IN  [p \in Params |->
         IF p \in ToSet(b.metas)
         THEN IF c.owner = b.owner /\ c.i = b.i THEN c.version ELSE Corrupt
         ELSE model[r][p]]

LoadInline(r) ==
  /\ tp[r] = "load"
  /\ model' = [model EXCEPT ![r] = Loaded(r, job[r])]
  /\ tp' = [tp EXCEPT ![r] = After(job[r])]
  /\ UNCHANGED <<settings, actor_version, buffers, gidx, consumer, job>>

(* socket.recv(): the reply to the message before.                         *)
ReceiveAck(r) ==
  /\ tp[r] = "ack" /\ consumer[r] = "acked"
  /\ tp' = [tp EXCEPT ![r] = "barrier"]
  /\ consumer' = [consumer EXCEPT ![r] = "idle"]
  /\ UNCHANGED <<settings, actor_version, buffers, gidx, job, model>>

(* The barrier, after which each rank sends the bucket's metas to its      *)
(* thread and goes on to the next bucket.                                  *)
Barrier ==
  /\ \A r \in Ranks : tp[r] = "barrier"
  /\ tp' = [r \in Ranks |-> After(gidx)]
  /\ consumer' = [r \in Ranks |-> IF r \in RolloutRanks THEN "busy" ELSE "acked"]
  /\ job' = [r \in Ranks |-> gidx]
  /\ gidx' = gidx + 1
  /\ UNCHANGED <<settings, actor_version, buffers, model>>

(* update_weights_from_ipc_: load_weights begins and ends.                 *)
ConsumerLoads(r) ==
  /\ consumer[r] = "busy"
  /\ consumer' = [consumer EXCEPT ![r] = "loading"]
  /\ UNCHANGED <<settings, actor_version, tp, buffers, gidx, job, model>>

ConsumerLoaded(r) ==
  /\ consumer[r] = "loading"
  /\ model' = [model EXCEPT ![r] = Loaded(r, job[r])]
  /\ consumer' = [consumer EXCEPT ![r] = "acked"]
  /\ UNCHANGED <<settings, actor_version, tp, buffers, gidx, job>>

(* After the last bucket: its reply is awaited, the thread told to stop    *)
(* and joined.                                                             *)
DrainConsumer(r) ==
  /\ tp[r] = "drain" /\ consumer[r] = "acked"
  /\ consumer' = [consumer EXCEPT ![r] = "off"]
  /\ tp' = [tp EXCEPT ![r] = "final"]
  /\ UNCHANGED <<settings, actor_version, buffers, gidx, job, model>>

(* The last barrier; the host buffers are given up.                        *)
FinishUpdate ==
  /\ \A r \in Ranks : tp[r] = "final"
  /\ tp' = [r \in Ranks |-> "idle"]
  /\ memory_buffers' = [r \in Ranks |-> -1]
  /\ UNCHANGED <<settings, actor_version, h2d_buffer, half, gidx, consumer, job, model>>

TransferStep ==
  \/ StartUpdate
  \/ Broadcast
  \/ Barrier
  \/ FinishUpdate
  \/ \E r \in Ranks :
       \/ RegisterCheckpoint(r)
       \/ LoadInline(r)
       \/ ReceiveAck(r)
       \/ ConsumerLoads(r)
       \/ ConsumerLoaded(r)
       \/ DrainConsumer(r)

TransferNext == StartTransfer \/ TransferStep

TransferSpec == TransferInit /\ [][TransferNext]_transferVars

-----------------------------------------------------------------------------
(* What register_checkpoint makes of any list of parameters: each is in    *)
(* exactly one bucket, of an actor rank, and no bucket exceeds bucket_size *)
(* (an actor rank without a parameter has an empty one).                   *)
PlanIsComplete ==
  /\ order \in Seq([owner : ToSet(ActorRanks), i : Nat, metas : Seq(Params)])
  /\ \A p \in Params : Cardinality({k \in DOMAIN order : p \in ToSet(order[k].metas)}) = 1
  /\ \A k \in DOMAIN order : LET metas == order[k].metas IN
       SumFunction([j \in DOMAIN metas |-> weights_info[metas[j]]]) <= BucketSize

TransferTypeOK ==
  /\ mode \in Modes /\ weights_info \in WeightsInfos
  /\ PlanIsComplete
  /\ \A r \in Ranks : tp[r] = "broadcast" => More(gidx)
  /\ actor_version \in 0 .. MaxVersion
  /\ tp \in [Ranks -> {"idle", "register", "start", "broadcast", "load",
                       "ack", "barrier", "drain", "final"}]
  /\ memory_buffers \in [Ranks -> -1 .. MaxVersion]
  /\ gidx \in Nat
  /\ consumer \in [Ranks -> {"off", "idle", "busy", "loading", "acked"}]
  /\ job \in [Ranks -> Nat]
  /\ model \in [RolloutRanks -> [Params -> -1 .. MaxVersion]]

(* A parameter of a rollout rank is never garbage and never of a version   *)
(* other than the last two; a rank that is through with the update has     *)
(* every parameter of the newest version: no bucket is overwritten before  *)
(* it was loaded, missed, or sent from a buffer with another row's data    *)
(* (update_checkpoint, register_checkpoint).                               *)
EveryParameterArrives ==
  \A r \in RolloutRanks, p \in Params :
    /\ model[r][p] \in {actor_version, actor_version - 1} \ {Corrupt}
    /\ tp[r] \in {"idle", "final"} => model[r][p] = actor_version
=============================================================================
