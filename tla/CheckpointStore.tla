--------------------------- MODULE CheckpointStore ---------------------------
(***************************************************************************)
(* Saving, rotating and resuming checkpoints in the fully asynchronous     *)
(* trainer: _check_save_checkpoint / _save_checkpoint / load_checkpoint    *)
(* (fully_async_trainer.py), the retention of the checkpoint managers of   *)
(* actor and critic (utils/checkpoint), the rollouter's data.pt, and the   *)
(* tracker file that names the version to resume from.                     *)
(*                                                                         *)
(* The process may die between any two writes.  What is on disk survives;  *)
(* the managers' previous_saved_paths does not.  The shards that the ranks *)
(* write between two barriers are one write, and one directory's rmtree is *)
(* one step.                                                               *)
(***************************************************************************)
EXTENDS Naturals, Sequences, FiniteSets

CONSTANTS
  Parts,        \* the parts of a checkpoint in the order they are saved
  Keep,         \* max_ckpt_to_keep of each part, 0 for no limit
  SaveFreq,     \* trainer.save_freq
  MaxVersion,   \* bound: parameter versions
  MaxCrashes,   \* bound: crashes
  NoTracker,    \* there is no latest_checkpointed_iteration.txt
  Torn          \* the file has been truncated and not yet written

Versions == 1 .. MaxVersion
PartNames == {Parts[k] : k \in 1 .. Len(Parts)}

ASSUME StoreAssumption ==
  /\ Parts \in Seq(STRING) /\ Parts # <<>>
  /\ \A j, k \in 1 .. Len(Parts) : j # k => Parts[j] # Parts[k]
  /\ Keep \in [PartNames -> Nat]
  /\ SaveFreq \in Nat \ {0}
  /\ MaxVersion \in Nat /\ MaxCrashes \in Nat
  /\ NoTracker \notin Nat /\ Torn \notin Nat /\ NoTracker # Torn

VARIABLES
  pc,           \* train, check, begin, write, register, tracker, ...
  part,         \* index in Parts of the part being saved
  version,      \* current_param_version
  last_ckpt_version,
  previous_saved_paths,   \* of each part's checkpoint manager
  complete,     \* on disk: versions of each part that are wholly written
  partial,      \* on disk: versions of each part begun and not finished
  tracker,      \* on disk
  newest,       \* history: the last version whose save went to its end
  crashes

disk == <<complete, partial, tracker>>
trainer == <<version, last_ckpt_version, previous_saved_paths>>
vars == <<pc, part, trainer, disk, newest, crashes>>

Init ==
  /\ pc = "train" /\ part = 1
  /\ version = 0 /\ last_ckpt_version = 0
  /\ previous_saved_paths = [p \in PartNames |-> <<>>]
  /\ complete = [p \in PartNames |-> {}]
  /\ partial = [p \in PartNames |-> {}]
  /\ tracker = NoTracker
  /\ newest = 0 /\ crashes = 0

(* One training step, which may or may not publish a new version.          *)
Train ==
  /\ pc = "train"
  /\ version' \in {version, version + 1} \cap (0 .. MaxVersion)
  /\ pc' = "check"
  /\ UNCHANGED <<part, last_ckpt_version, previous_saved_paths, disk, newest, crashes>>

(* Mutant: only the expiring instance makes a checkpoint.                  *)
SaveWantedOnExpiry(esi) == version # last_ckpt_version /\ esi

(* The condition of _check_save_checkpoint; esi: the instance is about to  *)
(* expire (should_save_ckpt_esi).                                          *)
SaveWanted(esi) ==
  /\ version # last_ckpt_version
  /\ version % SaveFreq = 0 \/ esi

CheckSaveCheckpoint ==
  /\ pc = "check"
  /\ \E esi \in BOOLEAN : pc' = IF SaveWanted(esi) THEN "begin" ELSE "train"
  /\ part' = 1
  /\ UNCHANGED <<trainer, disk, newest, crashes>>
-----------------------------------------------------------------------------
(* _save_checkpoint, part by part.                                         *)

SavingPart == Parts[part]

(* Keep what lies in the last n of the manager's paths, delete the rest.   *)
Retain(p, paths, n) ==
  LET gone == {paths[k] : k \in 1 .. (Len(paths) - n)}
      kept == SubSeq(paths, Len(paths) - n + 1, Len(paths))
  IN /\ previous_saved_paths' = [previous_saved_paths EXCEPT ![p] = kept]
     /\ complete' = [complete EXCEPT ![p] = @ \ gone]

(* Mutants: one path too many is removed; nothing is removed before the    *)
(* save.                                                                   *)
EnsureCapacityGreedy(p) ==
  LET paths == previous_saved_paths[p] IN
  IF Keep[p] > 1 /\ Len(paths) >= Keep[p]
  THEN Retain(p, paths, Keep[p] - 2)
  ELSE UNCHANGED <<previous_saved_paths, complete>>

EnsureNothing(p) == UNCHANGED <<previous_saved_paths, complete>>

(* ensure_checkpoint_capacity: room for the new checkpoint, unless only    *)
(* one is kept.                                                            *)
EnsureCapacity(p) ==
  LET paths == previous_saved_paths[p] IN
  IF Keep[p] > 1 /\ Len(paths) >= Keep[p]
  THEN Retain(p, paths, Keep[p] - 1)
  ELSE UNCHANGED <<previous_saved_paths, complete>>

(* The old checkpoints make room.                                          *)
BeginPart ==
  /\ pc = "begin"
  /\ EnsureCapacity(SavingPart)
  /\ pc' = "write"
  /\ UNCHANGED <<part, version, last_ckpt_version, partial, tracker, newest, crashes>>

(* The directory is made and the ranks begin to write into it; a           *)
(* directory that an earlier process left there is overwritten.            *)
WritePart ==
  /\ pc = "write"
  /\ complete' = [complete EXCEPT ![SavingPart] = @ \ {version}]
  /\ partial' = [partial EXCEPT ![SavingPart] = @ \cup {version}]
  /\ pc' = "written"
  /\ UNCHANGED <<part, trainer, tracker, newest, crashes>>

PartWritten ==
  /\ pc = "written"
  /\ complete' = [complete EXCEPT ![SavingPart] = @ \cup {version}]
  /\ partial' = [partial EXCEPT ![SavingPart] = @ \ {version}]
  /\ pc' = "register"
  /\ UNCHANGED <<part, trainer, tracker, newest, crashes>>

(* register_checkpoint, and on to the next part or to the tracker.         *)
RegisterPart ==
  LET p == SavingPart
      paths == Append(previous_saved_paths[p], version)
  IN
  /\ pc = "register"
  /\ IF Keep[p] > 0 /\ Len(paths) > Keep[p]
     THEN Retain(p, paths, Keep[p])
     ELSE /\ previous_saved_paths' = [previous_saved_paths EXCEPT ![p] = paths]
          /\ UNCHANGED complete
  /\ IF part < Len(Parts)
     THEN pc' = "begin" /\ part' = part + 1
     ELSE pc' = "open_tracker" /\ UNCHANGED part
  /\ UNCHANGED <<version, last_ckpt_version, partial, tracker, newest, crashes>>

(* open(..., "w") truncates the tracker; f.write and the end of the with   *)
(* block fill it.                                                          *)
OpenTracker ==
  /\ pc = "open_tracker"
  /\ tracker' = Torn
  /\ pc' = "write_tracker"
  /\ UNCHANGED <<part, trainer, complete, partial, newest, crashes>>

WriteTracker ==
  /\ pc = "write_tracker"
  /\ tracker' = version
  /\ last_ckpt_version' = version
  /\ newest' = version
  /\ pc' = "train"
  /\ UNCHANGED <<part, version, previous_saved_paths, complete, partial, crashes>>
-----------------------------------------------------------------------------
(* The process dies, wherever it is.                                       *)
Crash ==
  /\ pc \notin {"down", "load_failed"}
  /\ crashes < MaxCrashes
  /\ crashes' = crashes + 1
  /\ pc' = "down"
  /\ UNCHANGED <<part, trainer, disk, newest>>

(* All that a load of version v needs is there.                            *)
Loadable(v) == \A p \in PartNames : v \in complete[p]

Start(v) ==
  /\ version' = v
  /\ last_ckpt_version' = v
  /\ previous_saved_paths' = [p \in PartNames |-> <<>>]
  /\ pc' = "train"

(* Mutants: the newest directory is taken whether it is complete or not;   *)
(* the version after the one saved is resumed.                             *)
LoadNewestDirectory ==
  LET found == UNION {complete[p] \cup partial[p] : p \in PartNames} IN
  /\ pc = "down"
  /\ IF found = {}
     THEN Start(0)
     ELSE Start(CHOOSE v \in found : \A w \in found : w <= v)
  /\ UNCHANGED <<part, disk, newest, crashes>>

LoadNextVersion ==
  /\ pc = "down"
  /\ \/ tracker \in {NoTracker, Torn} /\ Start(0)
     \/ tracker \in Versions /\ Start(tracker + 1)
  /\ UNCHANGED <<part, disk, newest, crashes>>

(* The process is started again with resume_mode "auto": load_checkpoint   *)
(* of the trainer and of the rollouter through find_latest_ckpt_path.  An  *)
(* empty tracker or a missing part raises (a missing data.pt alone would   *)
(* only be reported).                                                      *)
LoadCheckpoint ==
  /\ pc = "down"
  /\ \/ tracker = NoTracker /\ Start(0)
     \/ tracker \in Versions /\ Loadable(tracker) /\ Start(tracker)
     \/ /\ tracker = Torn \/ (tracker \in Versions /\ ~Loadable(tracker))
        /\ pc' = "load_failed"
        /\ UNCHANGED trainer
  /\ UNCHANGED <<part, disk, newest, crashes>>

(* Starting it once more does not help.                                    *)
LoadFailsAgain ==
  /\ pc = "load_failed"
  /\ UNCHANGED vars

Next ==
  \/ Train \/ CheckSaveCheckpoint
  \/ BeginPart \/ WritePart \/ PartWritten \/ RegisterPart
  \/ OpenTracker \/ WriteTracker
  \/ Crash \/ LoadCheckpoint \/ LoadFailsAgain

Spec == Init /\ [][Next]_vars
-----------------------------------------------------------------------------
(* Types and ranges of the state.                                          *)
TypeOK ==
  /\ pc \in {"train", "check", "begin", "write", "written", "register",
             "open_tracker", "write_tracker", "down", "load_failed"}
  /\ part \in 1 .. Len(Parts)
  /\ version \in 0 .. MaxVersion
  /\ last_ckpt_version \in 0 .. MaxVersion
  /\ previous_saved_paths \in [PartNames -> Seq(Versions)]
  /\ complete \in [PartNames -> SUBSET Versions]
  /\ partial \in [PartNames -> SUBSET Versions]
  /\ tracker \in Versions \cup {NoTracker, Torn}
  /\ newest \in 0 .. MaxVersion
  /\ crashes \in Nat

(* Wherever the process dies, the version that the tracker names can be    *)
(* loaded: no rotation removes a part of it and no save overwrites it      *)
(* before the tracker names its successor ("we keep the existing           *)
(* checkpoint until the new save completes successfully").                 *)
TrackedCheckpointComplete == tracker \in Versions => Loadable(tracker)

(* A restart resumes from the last version whose save went to its end,     *)
(* whatever an interrupted save left in the directory.                     *)
ResumesFromNewest ==
  [][pc = "down" /\ pc' = "train" => version' = newest]_vars

(* The version that a restart resumes, if it can read the tracker.         *)
Tracked == IF tracker = NoTracker THEN 0 ELSE tracker

(* Wherever the process dies, what the tracker names can be loaded and is  *)
(* at most SaveFreq versions old.  Between open and write the tracker      *)
(* names nothing (see RestartLoads); then the version being saved is       *)
(* complete on the disk, for whoever repairs the tracker by hand.          *)
LossBounded ==
  /\ tracker # Torn => /\ tracker \in Versions => Loadable(tracker)
                       /\ version - Tracked <= SaveFreq
  /\ tracker = Torn => Loadable(version)

(* A restart after a crash loads a checkpoint or starts from scratch; it   *)
(* never fails for want of one.  The tracker is written "for atomic        *)
(* usage", which open(..., "w") is not: expected to be violated.           *)
RestartLoads == pc # "load_failed"

(* The disk holds at most max_ckpt_to_keep directories of a part for each  *)
(* process there has been, finished or not: a process forgets what an      *)
(* earlier one saved, but no more than that is left behind.                *)
DiskBounded ==
  \A p \in PartNames :
    Keep[p] > 1 => Cardinality(complete[p] \cup partial[p]) <= Keep[p] * (crashes + 1)
=============================================================================
