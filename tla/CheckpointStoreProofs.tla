------------------------ MODULE CheckpointStoreProofs ------------------------
(***************************************************************************)
(* Proofs about the checkpoint store.  Whatever the parts of a checkpoint  *)
(* are, however many of each are kept, however often one is saved and      *)
(* wherever the process dies: a restart resumes from the last complete     *)
(* save, and the disk grows with the crashes only.  If no part keeps       *)
(* exactly one checkpoint, what the tracker names can be loaded and is at  *)
(* most save_freq versions old; while it is torn, the version being saved  *)
(* is complete.                                                            *)
(***************************************************************************)
EXTENDS CheckpointStore, SequenceTheorems, FiniteSetTheorems, TLAPS

Saving == {"begin", "write", "written", "register", "open_tracker", "write_tracker"}
Closing == {"open_tracker", "write_tracker"}
Alive == pc \notin {"down", "load_failed"}

(* The parts of the running save whose directories are registered, and     *)
(* those that are written.                                                 *)
Saved(p) ==
  \/ pc \in Closing
  \/ pc \in Saving /\ \E k \in 1 .. (part - 1) : Parts[k] = p
Written(p) == Saved(p) \/ (pc = "register" /\ p = SavingPart)

Ascending(s) == \A j, k \in 1 .. Len(s) : j < k => s[j] < s[k]

(* A manager's paths ascend up to the last complete save, which is their   *)
(* end; then the running save adds its version.                            *)
Earlier(s) == Ascending(s) /\ \A k \in 1 .. Len(s) : s[k] <= last_ckpt_version
WithNew(s) ==
  /\ Ascending(s)
  /\ s # <<>> /\ s[Len(s)] = version
  /\ \A k \in 1 .. (Len(s) - 1) : s[k] <= last_ckpt_version

PathsInv ==
  Alive => \A p \in PartNames : IF Saved(p) THEN WithNew(previous_saved_paths[p])
                                            ELSE Earlier(previous_saved_paths[p])
WrittenInv == \A p \in PartNames : Written(p) => version \in complete[p]

(* The process knows the last complete save, and so does the disk unless   *)
(* the tracker is being written.                                           *)
ProgressInv ==
  /\ newest = last_ckpt_version \/ ~Alive
  /\ Alive => version >= last_ckpt_version
  /\ pc \in Saving => version > last_ckpt_version
  /\ tracker \in Versions => tracker = newest
  /\ tracker = NoTracker => newest = 0
  /\ tracker = Torn => pc = "write_tracker" \/ ~Alive

StoreInv == TypeOK /\ ProgressInv /\ WrittenInv /\ PathsInv /\ TrackedCheckpointComplete
-----------------------------------------------------------------------------
(* Facts about the parts and their paths.                                  *)

(* A part being saved is one of the parts, and not one saved before.       *)
LEMMA SavingPartFacts ==
  ASSUME TypeOK
  PROVE  /\ SavingPart \in PartNames
         /\ pc \notin Closing => ~Saved(SavingPart)
<1>1. /\ Len(Parts) \in Nat /\ part \in 1 .. Len(Parts)
      /\ \A j, k \in 1 .. Len(Parts) : j # k => Parts[j] # Parts[k]
  BY StoreAssumption, LenProperties DEF TypeOK
<1>2. SavingPart \in PartNames
  BY <1>1 DEF SavingPart, PartNames
<1>3. \A k \in 1 .. (part - 1) : Parts[k] # Parts[part]
  <2>1. \A k \in 1 .. (part - 1) : k \in 1 .. Len(Parts) /\ k # part
    BY <1>1
  <2> QED
    BY <1>1, <2>1
<1> QED
  BY <1>2, <1>3 DEF SavingPart, Saved

(* The last n of some paths.                                               *)
LEMMA KeptPaths ==
  ASSUME NEW s \in Seq(Versions), Ascending(s), NEW n \in Nat, n <= Len(s)
  PROVE  LET kept == SubSeq(s, Len(s) - n + 1, Len(s)) IN
         /\ kept \in Seq(Versions)
         /\ Len(kept) = n
         /\ \A k \in 1 .. n : kept[k] = s[Len(s) - n + k]
         /\ Ascending(kept)
<1> DEFINE m == Len(s) - n + 1
           kept == SubSeq(s, m, Len(s))
<1>1. m \in Nat \ {0} /\ Len(s) \in Nat /\ \A i \in m .. Len(s) : s[i] \in Versions
  OBVIOUS
<1>2. /\ kept \in Seq(Versions)
      /\ Len(kept) = n
      /\ \A k \in 1 .. n : kept[k] = s[Len(s) - n + k]
  <2>1. /\ kept \in Seq(Versions)
        /\ Len(kept) = IF m <= Len(s) THEN Len(s) - m + 1 ELSE 0
        /\ \A i \in 1 .. (Len(s) - m + 1) : kept[i] = s[m + i - 1]
    <3> HIDE DEF m
    <3> QED
      BY <1>1, SubSeqProperties
  <2>2. Len(s) - m + 1 = n /\ \A k \in 1 .. n : m + k - 1 = Len(s) - n + k
    BY <1>1
  <2>3. Len(kept) = n
    <3> HIDE DEF kept
    <3> QED
      BY <2>1, <1>1
  <2> HIDE DEF m, kept
  <2> QED
    BY <2>1, <2>2, <2>3
<1>3. Ascending(kept)
  <2> HIDE DEF m, kept
  <2> SUFFICES ASSUME NEW j \in 1 .. n, NEW k \in 1 .. n, j < k
               PROVE  kept[j] < kept[k]
    BY <1>2 DEF Ascending
  <2>1. /\ Len(s) - n + j \in 1 .. Len(s) /\ Len(s) - n + k \in 1 .. Len(s)
        /\ Len(s) - n + j < Len(s) - n + k
    BY <1>1
  <2> QED
    BY <1>2, <2>1 DEF Ascending
<1> QED
  BY <1>2, <1>3

(* A version that no path named is added.                                  *)
LEMMA AppendedPath ==
  ASSUME NEW s \in Seq(Versions), Earlier(s), version \in Versions,
         last_ckpt_version \in Nat, version > last_ckpt_version
  PROVE  /\ Append(s, version) \in Seq(Versions)
         /\ Len(Append(s, version)) = Len(s) + 1
         /\ WithNew(Append(s, version))
<1> DEFINE t == Append(s, version)
<1>1. /\ t \in Seq(Versions) /\ Len(t) = Len(s) + 1 /\ Len(s) \in Nat /\ t # <<>>
      /\ \A k \in 1 .. Len(s) : t[k] = s[k] /\ s[k] \in Versions
      /\ t[Len(s) + 1] = version
  OBVIOUS
<1> HIDE DEF t
<1>2. \A k \in 1 .. Len(s) : s[k] <= last_ckpt_version
  BY DEF Earlier
<1>3. Ascending(t)
  <2> SUFFICES ASSUME NEW j \in 1 .. Len(t), NEW k \in 1 .. Len(t), j < k
               PROVE  t[j] < t[k]
    BY DEF Ascending
  <2>1. j \in 1 .. Len(s) /\ t[j] = s[j] /\ s[j] \in Nat /\ s[j] <= last_ckpt_version
    BY <1>1, <1>2 DEF Versions
  <2>2. CASE k = Len(s) + 1
    BY <1>1, <2>1, <2>2 DEF Versions
  <2>3. CASE k # Len(s) + 1
    <3>1. k \in 1 .. Len(s) /\ t[k] = s[k]
      BY <1>1, <2>3
    <3> QED
      BY <2>1, <3>1 DEF Earlier, Ascending
  <2> QED
    BY <2>2, <2>3
<1>4. \A k \in 1 .. (Len(t) - 1) : t[k] <= last_ckpt_version
  BY <1>1, <1>2
<1> QED
  BY <1>1, <1>3, <1>4 DEF WithNew, t

(* Keeping the last n paths removes neither the last complete save nor,    *)
(* among those of a part that is saved, the running one: one of them is    *)
(* kept before the save, two after it.                                     *)
LEMMA RetainKeeps ==
  ASSUME NEW s \in Seq(Versions), NEW n \in Nat \ {0}, n <= Len(s),
         last_ckpt_version \in Nat, version \in Nat, version > last_ckpt_version,
         Earlier(s) \/ (WithNew(s) /\ n > 1)
  PROVE  LET kept == SubSeq(s, Len(s) - n + 1, Len(s)) IN
         /\ kept \in Seq(Versions)
         /\ Earlier(s) => Earlier(kept)
         /\ WithNew(s) => WithNew(kept)
         /\ \A k \in 1 .. (Len(s) - n) : s[k] # last_ckpt_version /\ s[k] # version
<1> DEFINE kept == SubSeq(s, Len(s) - n + 1, Len(s))
<1>1. /\ kept \in Seq(Versions) /\ Len(kept) = n /\ Ascending(kept)
      /\ \A k \in 1 .. n : kept[k] = s[Len(s) - n + k]
      /\ Ascending(s) /\ Len(s) \in Nat
      /\ \A k \in 1 .. Len(s) : s[k] \in Nat
  <2>1. Ascending(s)
    BY DEF Earlier, WithNew
  <2>2. \A k \in 1 .. Len(s) : s[k] \in Nat
    BY StoreAssumption DEF Versions
  <2> QED
    BY <2>1, <2>2, KeptPaths
<1> HIDE DEF kept
<1>2. ASSUME Earlier(s)
      PROVE  /\ Earlier(kept)
             /\ \A k \in 1 .. (Len(s) - n) : s[k] # last_ckpt_version /\ s[k] # version
  <2>1. \A k \in 1 .. n : Len(s) - n + k \in 1 .. Len(s)
    BY <1>1
  <2>2. Earlier(kept)
    BY <1>1, <1>2, <2>1 DEF Earlier
  <2>3. ASSUME NEW k \in 1 .. (Len(s) - n)
        PROVE  s[k] # last_ckpt_version /\ s[k] # version
    <3>1. k \in 1 .. Len(s) /\ Len(s) \in 1 .. Len(s) /\ k < Len(s)
      BY <1>1
    <3>2. s[k] < s[Len(s)] /\ s[Len(s)] <= last_ckpt_version
      BY <1>1, <1>2, <3>1 DEF Earlier, Ascending
    <3>3. s[k] \in Nat /\ s[Len(s)] \in Nat
      BY <1>1, <3>1
    <3> QED
      BY <3>2, <3>3
  <2> QED
    BY <2>2, <2>3
<1>3. ASSUME WithNew(s), n > 1
      PROVE  /\ WithNew(kept)
             /\ \A k \in 1 .. (Len(s) - n) : s[k] # last_ckpt_version /\ s[k] # version
  <2>1. /\ \A k \in 1 .. (n - 1) : Len(s) - n + k \in 1 .. (Len(s) - 1)
        /\ Len(s) - n + n = Len(s) /\ n \in 1 .. n
    BY <1>1, <1>3
  <2>2. WithNew(kept)
    <3>1. kept[n] = version
      BY <1>1, <1>3, <2>1 DEF WithNew
    <3>2. ASSUME NEW k \in 1 .. (n - 1)
          PROVE  kept[k] <= last_ckpt_version
      <4>1. k \in 1 .. n /\ kept[k] = s[Len(s) - n + k] /\ Len(s) - n + k \in 1 .. (Len(s) - 1)
        BY <1>1, <2>1
      <4> QED
        BY <1>3, <4>1 DEF WithNew
    <3> QED
      BY <1>1, <1>3, <3>1, <3>2 DEF WithNew
  <2>3. ASSUME NEW k \in 1 .. (Len(s) - n)
        PROVE  s[k] # last_ckpt_version /\ s[k] # version
    <3>1. /\ k \in 1 .. Len(s) /\ Len(s) - 1 \in 1 .. Len(s) /\ k < Len(s) - 1
          /\ Len(s) - 1 \in 1 .. (Len(s) - 1)
      BY <1>1, <1>3
    <3>2. s[k] < s[Len(s) - 1] /\ s[Len(s) - 1] <= last_ckpt_version
      BY <1>1, <1>3, <3>1 DEF WithNew, Ascending
    <3>3. s[k] \in Nat /\ s[Len(s) - 1] \in Nat
      BY <1>1, <3>1
    <3> QED
      BY <3>2, <3>3
  <2> QED
    BY <2>2, <2>3
<1>4. WithNew(s) => ~Earlier(s)
  <2> SUFFICES ASSUME WithNew(s), Earlier(s) PROVE FALSE
    OBVIOUS
  <2>1. Len(s) \in 1 .. Len(s) /\ s[Len(s)] = version
    BY <1>1 DEF WithNew
  <2> QED
    BY <2>1 DEF Earlier
<1> QED
  BY <1>1, <1>2, <1>3, <1>4 DEF kept
-----------------------------------------------------------------------------
(* The steps.                                                              *)

(* Keeping the last n paths keeps the types, whatever the limits are.      *)
LEMMA RetainTypes ==
  ASSUME TypeOK, NEW p \in PartNames, NEW s \in Seq(Versions), NEW n \in Nat,
         n <= Len(s), Retain(p, s, n)
  PROVE  /\ previous_saved_paths' \in [PartNames -> Seq(Versions)]
         /\ complete' \in [PartNames -> SUBSET Versions]
<1> DEFINE kept == SubSeq(s, Len(s) - n + 1, Len(s))
<1>1. kept \in Seq(Versions)
  <2>0. Len(s) \in Nat
    BY LenProperties
  <2>a. Len(s) - n + 1 \in Nat \ {0}
    BY <2>0
  <2>1. PICK m \in Nat \ {0} : m = Len(s) - n + 1
    BY <2>a
  <2>2. Len(s) \in Nat /\ \A i \in m .. Len(s) : s[i] \in Versions
    BY <2>1
  <2> QED
    BY <2>1, <2>2, SubSeqProperties
<1> HIDE DEF kept
<1>2. previous_saved_paths' = [previous_saved_paths EXCEPT ![p] = kept]
  BY DEF Retain, kept
<1>3. complete' = [complete EXCEPT ![p] = @ \ {s[k] : k \in 1 .. (Len(s) - n)}]
  BY DEF Retain
<1> QED
  BY <1>1, <1>2, <1>3 DEF TypeOK

(* The types and the progress do not depend on how many checkpoints a part *)
(* keeps.                                                                  *)
LEMMA BasicNext ==
  ASSUME TypeOK, ProgressInv, [Next]_vars
  PROVE  TypeOK' /\ ProgressInv'
<1> DEFINE p == SavingPart
           s == previous_saved_paths[p]
<1>b. NoTracker \notin Versions /\ Torn \notin Versions /\ NoTracker # Torn
  BY StoreAssumption DEF Versions
<1>c. MaxVersion \in Nat /\ Len(Parts) \in Nat
  BY StoreAssumption, LenProperties
<1>d. /\ part \in 1 .. Len(Parts)
      /\ version \in 0 .. MaxVersion /\ last_ckpt_version \in 0 .. MaxVersion
      /\ newest \in 0 .. MaxVersion
  BY DEF TypeOK
<1>e. /\ p \in PartNames /\ s \in Seq(Versions) /\ Len(s) \in Nat /\ Keep[p] \in Nat
  <2>1. p \in PartNames
    BY SavingPartFacts
  <2> QED
    BY <2>1, StoreAssumption, LenProperties DEF TypeOK
<1>f. ASSUME pc \in Saving
      PROVE  version \in Versions
  BY <1>c, <1>d, <1>f DEF ProgressInv, Versions
<1> HIDE DEF p, s
<1>1. CASE Train
  <2>0. /\ pc = "train" /\ pc' = "check" /\ version' \in 0 .. MaxVersion
        /\ version' >= version
        /\ UNCHANGED <<part, last_ckpt_version, previous_saved_paths, complete, partial, tracker,
                       newest, crashes>>
    BY <1>1, <1>c, <1>d DEF Train, disk
  <2> QED
    BY <1>c, <1>d, <2>0 DEF TypeOK, ProgressInv, Alive, Saving
<1>2. CASE CheckSaveCheckpoint
  <2>0. /\ pc = "check" /\ part' = 1
        /\ pc' \in {"train", "begin"} /\ (pc' = "begin" => version # last_ckpt_version)
        /\ UNCHANGED <<version, last_ckpt_version, previous_saved_paths, complete, partial, tracker,
                       newest, crashes>>
    BY <1>2 DEF CheckSaveCheckpoint, SaveWanted, disk, trainer
  <2> QED
    BY <1>c, <1>d, <2>0 DEF TypeOK, ProgressInv, Alive, Saving
<1>3. CASE BeginPart
  <2>0. /\ pc = "begin" /\ pc' = "write"
        /\ UNCHANGED <<part, version, last_ckpt_version, partial, tracker, newest, crashes>>
    BY <1>3 DEF BeginPart
  <2>1. /\ previous_saved_paths' \in [PartNames -> Seq(Versions)]
        /\ complete' \in [PartNames -> SUBSET Versions]
    <3>1. CASE Keep[p] > 1 /\ Len(s) >= Keep[p]
      <4>1. Retain(p, s, Keep[p] - 1)
        BY <1>3, <3>1 DEF BeginPart, EnsureCapacity, p, s
      <4>2. Keep[p] - 1 \in Nat /\ Keep[p] - 1 <= Len(s)
        BY <1>e, <3>1
      <4> QED
        BY <1>e, <4>1, <4>2, RetainTypes
    <3>2. CASE ~(Keep[p] > 1 /\ Len(s) >= Keep[p])
      BY <1>3, <3>2 DEF BeginPart, EnsureCapacity, p, s, TypeOK
    <3> QED
      BY <3>1, <3>2
  <2> QED
    BY <1>d, <2>0, <2>1 DEF TypeOK, ProgressInv, Alive, Saving
<1>4. CASE WritePart
  <2>0. /\ pc = "write" /\ pc' = "written"
        /\ complete' = [complete EXCEPT ![p] = @ \ {version}]
        /\ partial' = [partial EXCEPT ![p] = @ \cup {version}]
        /\ UNCHANGED <<part, version, last_ckpt_version, previous_saved_paths, tracker, newest,
                       crashes>>
    BY <1>4 DEF WritePart, trainer, p
  <2>1. version \in Versions
    BY <1>f, <2>0 DEF Saving
  <2> QED
    BY <1>c, <1>d, <2>0, <2>1 DEF TypeOK, ProgressInv, Alive, Saving
<1>5. CASE PartWritten
  <2>0. /\ pc = "written" /\ pc' = "register"
        /\ complete' = [complete EXCEPT ![p] = @ \cup {version}]
        /\ partial' = [partial EXCEPT ![p] = @ \ {version}]
        /\ UNCHANGED <<part, version, last_ckpt_version, previous_saved_paths, tracker, newest,
                       crashes>>
    BY <1>5 DEF PartWritten, trainer, p
  <2>1. version \in Versions
    BY <1>f, <2>0 DEF Saving
  <2> QED
    BY <1>c, <1>d, <2>0, <2>1 DEF TypeOK, ProgressInv, Alive, Saving
<1>6. CASE RegisterPart
  <2>0. /\ pc = "register"
        /\ \/ part < Len(Parts) /\ pc' = "begin" /\ part' = part + 1
           \/ part = Len(Parts) /\ pc' = "open_tracker" /\ part' = part
        /\ UNCHANGED <<version, last_ckpt_version, partial, tracker, newest, crashes>>
    BY <1>c, <1>d, <1>6 DEF RegisterPart
  <2>1. /\ previous_saved_paths' \in [PartNames -> Seq(Versions)]
        /\ complete' \in [PartNames -> SUBSET Versions]
    <3> DEFINE paths == Append(s, version)
    <3>0. paths \in Seq(Versions) /\ Len(paths) \in Nat
      <4>1. version \in Versions
        BY <1>f, <2>0 DEF Saving
      <4> QED
        BY <1>e, <4>1
    <3>1. CASE Keep[p] > 0 /\ Len(paths) > Keep[p]
      <4>1. Retain(p, paths, Keep[p])
        BY <1>6, <3>1 DEF RegisterPart, p, s
      <4> HIDE DEF paths
      <4>2. Keep[p] \in Nat /\ Keep[p] <= Len(paths)
        BY <1>e, <3>0, <3>1
      <4> QED
        BY <1>e, <3>0, <4>1, <4>2, RetainTypes
    <3>2. CASE ~(Keep[p] > 0 /\ Len(paths) > Keep[p])
      <4>1. /\ previous_saved_paths' = [previous_saved_paths EXCEPT ![p] = paths]
            /\ complete' = complete
        BY <1>6, <3>2 DEF RegisterPart, p, s
      <4> HIDE DEF paths
      <4> QED
        BY <1>e, <3>0, <4>1 DEF TypeOK
    <3> QED
      BY <3>1, <3>2
  <2>2. TypeOK'
    BY <1>c, <1>d, <2>0, <2>1 DEF TypeOK
  <2>3. ProgressInv'
    BY <1>d, <2>0 DEF ProgressInv, Alive, Saving
  <2> QED
    BY <2>2, <2>3
<1>7. CASE OpenTracker
  <2>0. /\ pc = "open_tracker" /\ pc' = "write_tracker" /\ tracker' = Torn
        /\ UNCHANGED <<part, version, last_ckpt_version, previous_saved_paths, complete, partial,
                       newest, crashes>>
    BY <1>7 DEF OpenTracker, trainer
  <2> QED
    BY <1>b, <1>d, <2>0 DEF TypeOK, ProgressInv, Alive, Saving
<1>8. CASE WriteTracker
  <2>0. /\ pc = "write_tracker" /\ pc' = "train" /\ tracker' = version
        /\ last_ckpt_version' = version /\ newest' = version
        /\ UNCHANGED <<part, version, previous_saved_paths, complete, partial, crashes>>
    BY <1>8 DEF WriteTracker
  <2>1. version \in Versions
    BY <1>f, <2>0 DEF Saving
  <2>2. TypeOK'
    BY <1>d, <2>0, <2>1 DEF TypeOK
  <2>3. ProgressInv'
    BY <1>b, <1>d, <2>0, <2>1 DEF ProgressInv, Alive, Saving
  <2> QED
    BY <2>2, <2>3
<1>9. CASE Crash
  <2>0. /\ Alive /\ pc' = "down" /\ crashes' = crashes + 1
        /\ UNCHANGED <<part, version, last_ckpt_version, previous_saved_paths, complete, partial,
                       tracker, newest>>
    BY <1>9 DEF Crash, trainer, disk, Alive
  <2> QED
    BY <1>d, <2>0 DEF TypeOK, ProgressInv, Alive, Saving
<1>10. CASE LoadCheckpoint
  <2>0. /\ pc = "down"
        /\ UNCHANGED <<part, complete, partial, tracker, newest, crashes>>
        /\ \/ /\ pc' = "load_failed"
              /\ UNCHANGED <<version, last_ckpt_version, previous_saved_paths>>
           \/ Start(newest) /\ tracker # Torn
    BY <1>b, <1>c, <1>d, <1>10 DEF LoadCheckpoint, ProgressInv, disk, trainer
  <2>1. CASE Start(newest) /\ tracker # Torn
    BY <1>c, <1>d, <2>0, <2>1 DEF TypeOK, ProgressInv, Alive, Saving, Start
  <2>2. CASE /\ pc' = "load_failed"
             /\ UNCHANGED <<version, last_ckpt_version, previous_saved_paths>>
    BY <1>d, <2>0, <2>2 DEF TypeOK, ProgressInv, Alive, Saving
  <2> QED
    BY <2>0, <2>1, <2>2
<1>11. CASE UNCHANGED vars
  BY <1>11 DEF vars, trainer, disk, TypeOK, ProgressInv, Alive
<1> QED
  BY <1>1, <1>2, <1>3, <1>4, <1>5, <1>6, <1>7, <1>8, <1>9, <1>10, <1>11 DEF Next, LoadFailsAgain


(* The store begins empty.                                                 *)
LEMMA StoreInit == Init => StoreInv
<1> SUFFICES ASSUME Init PROVE StoreInv
  OBVIOUS
<1>1. /\ NoTracker \notin Versions /\ Torn \notin Versions /\ NoTracker # Torn
      /\ Len(Parts) \in Nat /\ Len(Parts) > 0
  BY StoreAssumption, LenProperties, EmptySeq DEF Versions
<1>2. TypeOK
  BY <1>1, StoreAssumption DEF Init, TypeOK
<1>3. ProgressInv
  BY <1>1 DEF Init, ProgressInv, Alive, Saving
<1>4. \A p \in PartNames : ~Written(p) /\ ~Saved(p)
  BY DEF Init, Written, Saved, Saving, Closing
<1>5. PathsInv
  <2>1. Earlier(<<>>)
    BY DEF Earlier, Ascending
  <2> QED
    BY <1>4, <2>1 DEF Init, PathsInv
<1>6. TrackedCheckpointComplete
  BY <1>1 DEF Init, TrackedCheckpointComplete
<1> QED
  BY <1>2, <1>3, <1>4, <1>5, <1>6 DEF StoreInv, WrittenInv

(* A part keeps no limit or several checkpoints.                           *)
KeepsSeveral == \A p \in PartNames : Keep[p] # 1

(* What a rotation of part p may do: only old versions of p go.            *)
Rotated(p) ==
  /\ previous_saved_paths' \in [PartNames -> Seq(Versions)]
  /\ complete' \in [PartNames -> SUBSET Versions]
  /\ \A q \in PartNames \ {p} : /\ previous_saved_paths'[q] = previous_saved_paths[q]
                                /\ complete'[q] = complete[q]
  /\ \A v \in {last_ckpt_version, version} : v \in complete[p] => v \in complete'[p]

(* A part that keeps at least two directories keeps the newest complete one. *)
LEMMA RetainRotates ==
  ASSUME TypeOK, NEW p \in PartNames, NEW s \in Seq(Versions), NEW n \in Nat \ {0},
         n <= Len(s), version > last_ckpt_version,
         Earlier(s) \/ (WithNew(s) /\ n > 1),
         Retain(p, s, n)
  PROVE  /\ Rotated(p)
         /\ Earlier(s) => Earlier(previous_saved_paths'[p])
         /\ WithNew(s) => WithNew(previous_saved_paths'[p])
<1> DEFINE kept == SubSeq(s, Len(s) - n + 1, Len(s))
           gone == {s[k] : k \in 1 .. (Len(s) - n)}
<1>1. /\ kept \in Seq(Versions)
      /\ Earlier(s) => Earlier(kept)
      /\ WithNew(s) => WithNew(kept)
      /\ \A k \in 1 .. (Len(s) - n) : s[k] # last_ckpt_version /\ s[k] # version
  <2>1. last_ckpt_version \in Nat /\ version \in Nat
    <3>1. last_ckpt_version \in 0 .. MaxVersion /\ version \in 0 .. MaxVersion
      BY DEF TypeOK
    <3> QED
      BY <3>1
  <2> QED
    BY <2>1, RetainKeeps
<1>2. /\ previous_saved_paths' = [previous_saved_paths EXCEPT ![p] = kept]
      /\ complete' = [complete EXCEPT ![p] = @ \ gone]
  BY DEF Retain
<1>3. last_ckpt_version \notin gone /\ version \notin gone
  BY <1>1
<1> HIDE DEF kept, gone
<1>4. Rotated(p)
  BY <1>1, <1>2, <1>3 DEF TypeOK, Rotated
<1>5. previous_saved_paths'[p] = kept
  BY <1>2 DEF TypeOK
<1> QED
  BY <1>1, <1>4, <1>5

(* ensure_checkpoint_capacity makes room for the running save.             *)
LEMMA CapacityRotates ==
  ASSUME StoreInv, KeepsSeveral, BeginPart
  PROVE  Rotated(SavingPart) /\ Earlier(previous_saved_paths'[SavingPart])
<1> DEFINE p == SavingPart
           s == previous_saved_paths[p]
<1>1. /\ p \in PartNames /\ ~Saved(p) /\ version > last_ckpt_version
      /\ s \in Seq(Versions) /\ Earlier(s) /\ Len(s) \in Nat /\ Keep[p] \in Nat
  <2>1. pc = "begin"
    BY DEF BeginPart
  <2>2. p \in PartNames /\ ~Saved(p)
    BY <2>1, SavingPartFacts DEF StoreInv, Closing
  <2>3. s \in Seq(Versions) /\ Len(s) \in Nat
    BY <2>2, LenProperties DEF StoreInv, TypeOK
  <2>4. Earlier(s)
    BY <2>1, <2>2 DEF StoreInv, PathsInv, Alive
  <2>5. version > last_ckpt_version
    BY <2>1 DEF StoreInv, ProgressInv, Saving
  <2> QED
    BY <2>2, <2>3, <2>4, <2>5, StoreAssumption
<1>2. CASE Keep[p] > 1 /\ Len(s) >= Keep[p]
  <2>1. Retain(p, s, Keep[p] - 1)
    BY <1>2 DEF BeginPart, EnsureCapacity
  <2>2. Keep[p] - 1 \in Nat \ {0} /\ Keep[p] - 1 <= Len(s)
    BY <1>1, <1>2
  <2> HIDE DEF s, p
  <2>3. Rotated(p) /\ Earlier(previous_saved_paths'[p])
    BY <1>1, <2>1, <2>2, RetainRotates DEF StoreInv
  <2> QED
    BY <2>3 DEF p
<1>3. CASE ~(Keep[p] > 1 /\ Len(s) >= Keep[p])
  <2>1. UNCHANGED <<previous_saved_paths, complete>>
    BY <1>3 DEF BeginPart, EnsureCapacity
  <2> QED
    BY <1>1, <2>1 DEF StoreInv, TypeOK, Rotated
<1> QED
  BY <1>2, <1>3

(* register_checkpoint adds the running save, and still removes neither it *)
(* nor the last complete one.                                              *)
LEMMA RegisterRotates ==
  ASSUME StoreInv, KeepsSeveral, RegisterPart
  PROVE  Rotated(SavingPart) /\ WithNew(previous_saved_paths'[SavingPart])
<1> DEFINE p == SavingPart
           s == previous_saved_paths[p]
           paths == Append(s, version)
<1>1. /\ p \in PartNames /\ version > last_ckpt_version /\ version \in Versions
      /\ last_ckpt_version \in Nat
      /\ s \in Seq(Versions) /\ Earlier(s) /\ Keep[p] \in Nat /\ Keep[p] # 1
  <2>1. pc = "register"
    BY DEF RegisterPart
  <2>2. p \in PartNames /\ ~Saved(p)
    BY <2>1, SavingPartFacts DEF StoreInv, Closing
  <2>3. s \in Seq(Versions)
    BY <2>2 DEF StoreInv, TypeOK
  <2>4. Earlier(s)
    BY <2>1, <2>2 DEF StoreInv, PathsInv, Alive
  <2>5. version > last_ckpt_version /\ version \in 0 .. MaxVersion /\ last_ckpt_version \in Nat
    BY <2>1, StoreAssumption DEF StoreInv, TypeOK, ProgressInv, Saving
  <2>6. version \in Versions
    BY <2>5, StoreAssumption DEF Versions
  <2> QED
    BY <2>2, <2>3, <2>4, <2>5, <2>6, StoreAssumption DEF KeepsSeveral
<1>2. /\ paths \in Seq(Versions) /\ WithNew(paths) /\ Len(paths) \in Nat
  <2> HIDE DEF s
  <2> QED
    BY <1>1, AppendedPath, LenProperties
<1>3. CASE Keep[p] > 0 /\ Len(paths) > Keep[p]
  <2>1. Retain(p, paths, Keep[p])
    BY <1>3 DEF RegisterPart
  <2>2. Keep[p] \in Nat \ {0} /\ Keep[p] <= Len(paths) /\ Keep[p] > 1
    <3> HIDE DEF paths, p
    <3> QED
      BY <1>1, <1>2, <1>3
  <2> HIDE DEF paths, p
  <2>3. Rotated(p) /\ WithNew(previous_saved_paths'[p])
    BY <1>1, <1>2, <2>1, <2>2, RetainRotates DEF StoreInv
  <2> QED
    BY <2>3 DEF p
<1>4. CASE ~(Keep[p] > 0 /\ Len(paths) > Keep[p])
  <2>1. /\ previous_saved_paths' = [previous_saved_paths EXCEPT ![p] = paths]
        /\ complete' = complete
    BY <1>4 DEF RegisterPart
  <2> HIDE DEF paths, p
  <2>2. Rotated(p) /\ WithNew(previous_saved_paths'[p])
    BY <1>1, <1>2, <2>1 DEF StoreInv, TypeOK, Rotated
  <2> QED
    BY <2>2 DEF p
<1> QED
  BY <1>3, <1>4

(* Every step keeps the invariant: the steps of a save rotate the paths of *)
(* the part being saved only, and between saves all paths are earlier.     *)
LEMMA StoreNext ==
  ASSUME StoreInv, KeepsSeveral, [Next]_vars
  PROVE  StoreInv'
<1> DEFINE p == SavingPart
<1>a. TypeOK /\ ProgressInv /\ WrittenInv /\ PathsInv /\ TrackedCheckpointComplete
  BY DEF StoreInv
<1>b. NoTracker \notin Versions /\ Torn \notin Versions /\ NoTracker # Torn
  BY StoreAssumption DEF Versions
<1>c. MaxVersion \in Nat /\ Len(Parts) \in Nat
  BY StoreAssumption, LenProperties
<1>d. /\ part \in 1 .. Len(Parts)
      /\ version \in 0 .. MaxVersion /\ last_ckpt_version \in 0 .. MaxVersion
      /\ newest \in 0 .. MaxVersion
  BY <1>a DEF TypeOK
<1>t. TypeOK' /\ ProgressInv'
  BY BasicNext DEF StoreInv
<1>0. /\ p \in PartNames
      /\ TypeOK /\ ProgressInv /\ WrittenInv /\ PathsInv /\ TrackedCheckpointComplete
  BY <1>a, SavingPartFacts
<1> HIDE DEF p
<1>1. CASE Train
  <2>0. /\ pc = "train" /\ pc' = "check" /\ version' \in 0 .. MaxVersion
        /\ version' >= version
        /\ UNCHANGED <<part, last_ckpt_version, previous_saved_paths, complete, partial, tracker,
                       newest, crashes>>
    BY <1>1, <1>c, <1>d DEF Train, disk
  <2>3. \A q \in PartNames : ~Saved(q) /\ ~Saved(q)' /\ ~Written(q)'
    BY <2>0 DEF Saved, Written, Saving, Closing
  <2>4. PathsInv'
    BY <1>0, <2>0, <2>3 DEF PathsInv, Earlier, Alive
  <2>5. TrackedCheckpointComplete'
    BY <1>0, <1>b, <1>d, <2>0 DEF TrackedCheckpointComplete, Loadable
  <2> QED
    BY <1>t, <2>3, <2>4, <2>5 DEF StoreInv, WrittenInv
<1>2. CASE CheckSaveCheckpoint
  <2>0. /\ pc = "check" /\ part' = 1
        /\ pc' \in {"train", "begin"} /\ (pc' = "begin" => version # last_ckpt_version)
        /\ UNCHANGED <<version, last_ckpt_version, previous_saved_paths, complete, partial, tracker,
                       newest, crashes>>
    BY <1>2 DEF CheckSaveCheckpoint, SaveWanted, disk, trainer
  <2>3. \A q \in PartNames : ~Saved(q) /\ ~Saved(q)' /\ ~Written(q)'
    BY <2>0 DEF Saved, Written, Saving, Closing
  <2>4. PathsInv'
    BY <1>0, <2>0, <2>3 DEF PathsInv, Earlier, Alive
  <2>5. TrackedCheckpointComplete'
    BY <1>0, <1>b, <1>d, <2>0 DEF TrackedCheckpointComplete, Loadable
  <2> QED
    BY <1>t, <2>3, <2>4, <2>5 DEF StoreInv, WrittenInv
<1>3. CASE BeginPart
  <2>0. /\ pc = "begin" /\ pc' = "write"
        /\ UNCHANGED <<part, version, last_ckpt_version, partial, tracker, newest, crashes>>
    BY <1>3 DEF BeginPart
  <2>a. Rotated(p) /\ Earlier(previous_saved_paths'[p])
    BY <1>3, CapacityRotates DEF p
  <2>3. ~Saved(p)
    BY <2>0, SavingPartFacts DEF StoreInv, Closing, p
  <2>4. \A q \in PartNames : /\ Saved(q)' <=> Saved(q)
                             /\ Written(q)' <=> Saved(q)
                             /\ Saved(q) => Written(q)
    BY <2>0 DEF Saved, Written, Saving, Closing
  <2>5. WrittenInv'
    BY <1>0, <2>0, <2>a, <2>3, <2>4 DEF WrittenInv, Rotated, Written
  <2>6. PathsInv'
    <3> SUFFICES ASSUME NEW q \in PartNames
                 PROVE  IF Saved(q)' THEN WithNew(previous_saved_paths[q])'
                                     ELSE Earlier(previous_saved_paths[q])'
      BY DEF PathsInv
    <3>1. /\ Saved(q) => WithNew(previous_saved_paths[q])
          /\ ~Saved(q) => Earlier(previous_saved_paths[q])
      BY <1>0, <2>0 DEF PathsInv, Alive
    <3> QED
      BY <2>a, <2>3, <2>0, <2>4, <3>1 DEF Earlier, WithNew, Rotated
  <2>7. TrackedCheckpointComplete'
    BY <1>0, <1>b, <1>d, <2>0, <2>a DEF TrackedCheckpointComplete, Loadable, Rotated, ProgressInv, Alive
  <2> QED
    BY <1>t, <2>5, <2>6, <2>7 DEF StoreInv
<1>4. CASE WritePart
  <2>0. /\ pc = "write" /\ pc' = "written"
        /\ complete' = [complete EXCEPT ![p] = @ \ {version}]
        /\ partial' = [partial EXCEPT ![p] = @ \cup {version}]
        /\ UNCHANGED <<part, version, last_ckpt_version, previous_saved_paths, tracker, newest,
                       crashes>>
    BY <1>4 DEF WritePart, trainer, p
  <2>a. version > last_ckpt_version /\ version \in Versions
    BY <1>0, <1>c, <1>d, <2>0 DEF ProgressInv, Saving, Versions
  <2>3. ~Saved(p)
    BY <2>0, SavingPartFacts DEF StoreInv, Closing, p
  <2>4. \A q \in PartNames : /\ Saved(q)' <=> Saved(q)
                             /\ Written(q)' <=> Saved(q)
                             /\ Saved(q) => Written(q)
    BY <2>0 DEF Saved, Written, Saving, Closing
  <2>5. WrittenInv'
    BY <1>0, <2>0, <2>3, <2>4 DEF WrittenInv, TypeOK
  <2>6. PathsInv'
    <3> SUFFICES ASSUME NEW q \in PartNames
                 PROVE  IF Saved(q)' THEN WithNew(previous_saved_paths[q])'
                                     ELSE Earlier(previous_saved_paths[q])'
      BY DEF PathsInv
    <3>1. /\ Saved(q) => WithNew(previous_saved_paths[q])
          /\ ~Saved(q) => Earlier(previous_saved_paths[q])
      BY <1>0, <2>0 DEF PathsInv, Alive
    <3> QED
      BY <2>0, <2>4, <3>1 DEF Earlier, WithNew
  <2>7. TrackedCheckpointComplete'
    BY <1>0, <1>b, <1>d, <2>0, <2>a DEF TrackedCheckpointComplete, Loadable, ProgressInv, Alive, TypeOK
  <2> QED
    BY <1>t, <2>5, <2>6, <2>7 DEF StoreInv
<1>5. CASE PartWritten
  <2>0. /\ pc = "written" /\ pc' = "register"
        /\ complete' = [complete EXCEPT ![p] = @ \cup {version}]
        /\ partial' = [partial EXCEPT ![p] = @ \ {version}]
        /\ UNCHANGED <<part, version, last_ckpt_version, previous_saved_paths, tracker, newest,
                       crashes>>
    BY <1>5 DEF PartWritten, trainer, p
  <2>a. version > last_ckpt_version /\ version \in Versions
    BY <1>0, <1>c, <1>d, <2>0 DEF ProgressInv, Saving, Versions
  <2>4. \A q \in PartNames : /\ Saved(q)' <=> Saved(q)
                             /\ Written(q)' <=> (Saved(q) \/ q = p)
                             /\ Saved(q) => Written(q)
    BY <2>0 DEF Saved, Written, Saving, Closing, SavingPart, p
  <2>5. WrittenInv'
    BY <1>0, <2>0, <2>4 DEF WrittenInv, TypeOK
  <2>6. PathsInv'
    <3> SUFFICES ASSUME NEW q \in PartNames
                 PROVE  IF Saved(q)' THEN WithNew(previous_saved_paths[q])'
                                     ELSE Earlier(previous_saved_paths[q])'
      BY DEF PathsInv
    <3>1. /\ Saved(q) => WithNew(previous_saved_paths[q])
          /\ ~Saved(q) => Earlier(previous_saved_paths[q])
      BY <1>0, <2>0 DEF PathsInv, Alive
    <3> QED
      BY <2>0, <2>4, <3>1 DEF Earlier, WithNew
  <2>7. TrackedCheckpointComplete'
    BY <1>0, <1>b, <1>d, <2>0, <2>a DEF TrackedCheckpointComplete, Loadable, TypeOK
  <2> QED
    BY <1>t, <2>5, <2>6, <2>7 DEF StoreInv
<1>6. CASE RegisterPart
  <2>0. /\ pc = "register"
        /\ \/ part < Len(Parts) /\ pc' = "begin" /\ part' = part + 1
           \/ part = Len(Parts) /\ pc' = "open_tracker" /\ part' = part
        /\ UNCHANGED <<version, last_ckpt_version, partial, tracker, newest, crashes>>
    BY <1>0, <1>b, <1>c, <1>d, <1>6 DEF RegisterPart
  <2>a. Rotated(p) /\ WithNew(previous_saved_paths'[p])
    BY <1>6, RegisterRotates DEF p
  <2>4. \A q \in PartNames : /\ Saved(q)' <=> (Saved(q) \/ q = p)
                             /\ Written(q)' <=> (Saved(q) \/ q = p)
                             /\ Saved(q) => Written(q)
    BY <1>0, <1>b, <1>c, <1>d, <2>0 DEF Saved, Written, Saving, Closing, SavingPart, PartNames, p
  <2>b. Written(p)
    BY <2>0 DEF Written, p
  <2>5. WrittenInv'
    <3> SUFFICES ASSUME NEW q \in PartNames, Saved(q) \/ q = p
                 PROVE  version \in complete'[q]
      BY <2>0, <2>4 DEF WrittenInv
    <3>1. version \in complete[q]
      BY <1>0, <2>b, <2>4 DEF WrittenInv
    <3> QED
      BY <1>0, <1>d, <2>a, <3>1 DEF Rotated, TypeOK, Versions
  <2>6. PathsInv'
    <3> SUFFICES ASSUME NEW q \in PartNames
                 PROVE  IF Saved(q)' THEN WithNew(previous_saved_paths[q])'
                                     ELSE Earlier(previous_saved_paths[q])'
      BY DEF PathsInv
    <3>1. /\ Saved(q) => WithNew(previous_saved_paths[q])
          /\ ~Saved(q) => Earlier(previous_saved_paths[q])
      BY <1>0, <2>0 DEF PathsInv, Alive
    <3> QED
      BY <2>a, <2>0, <2>4, <3>1 DEF Earlier, WithNew, Rotated
  <2>7. TrackedCheckpointComplete'
    BY <1>0, <1>b, <1>d, <2>0, <2>a DEF TrackedCheckpointComplete, Loadable, Rotated, ProgressInv, Alive
  <2> QED
    BY <1>t, <2>5, <2>6, <2>7 DEF StoreInv
<1>7. CASE OpenTracker
  <2>0. /\ pc = "open_tracker" /\ pc' = "write_tracker" /\ tracker' = Torn
        /\ UNCHANGED <<part, version, last_ckpt_version, previous_saved_paths, complete, partial,
                       newest, crashes>>
    BY <1>7 DEF OpenTracker, trainer
  <2>4. \A q \in PartNames : Saved(q) /\ Saved(q)' /\ Written(q)
    BY <2>0 DEF Saved, Written, Saving, Closing
  <2>5. WrittenInv'
    BY <1>0, <2>0, <2>4 DEF WrittenInv
  <2>6. PathsInv'
    BY <1>0, <2>0, <2>4 DEF PathsInv, WithNew, Alive
  <2>7. TrackedCheckpointComplete'
    BY <1>0, <1>b, <1>d, <2>0 DEF TrackedCheckpointComplete
  <2> QED
    BY <1>t, <2>5, <2>6, <2>7 DEF StoreInv
<1>8. CASE WriteTracker
  <2>0. /\ pc = "write_tracker" /\ pc' = "train" /\ tracker' = version
        /\ last_ckpt_version' = version /\ newest' = version
        /\ UNCHANGED <<part, version, previous_saved_paths, complete, partial, crashes>>
    BY <1>8 DEF WriteTracker
  <2>a. version > last_ckpt_version /\ version \in Versions
    BY <1>0, <1>c, <1>d, <2>0 DEF ProgressInv, Saving, Versions
  <2>4. \A q \in PartNames : Saved(q) /\ Written(q) /\ ~Saved(q)' /\ ~Written(q)'
    BY <2>0 DEF Saved, Written, Saving, Closing
  <2>5. \A q \in PartNames : Earlier(previous_saved_paths[q])'
    <3> SUFFICES ASSUME NEW q \in PartNames PROVE Earlier(previous_saved_paths[q])'
      OBVIOUS
    <3> DEFINE s == previous_saved_paths[q]
    <3>1. /\ WithNew(s) /\ s \in Seq(Versions) /\ Len(s) \in Nat
          /\ previous_saved_paths'[q] = s
      BY <1>0, <1>b, <1>c, <1>d, <2>0, <2>4, LenProperties DEF PathsInv, Alive, TypeOK
    <3> HIDE DEF s
    <3>2. \A k \in 1 .. Len(s) : s[k] <= version
      <4>1. \A k \in 1 .. Len(s) : s[k] \in Nat
        BY <1>0, <1>b, <1>c, <1>d, <3>1 DEF Versions
      <4> QED
        BY <1>0, <1>b, <1>c, <1>d, <2>a, <3>1, <4>1 DEF WithNew
    <3> QED
      BY <2>0, <3>1, <3>2 DEF Earlier, WithNew, s
  <2>6. PathsInv'
    BY <2>4, <2>5 DEF PathsInv
  <2>7. TrackedCheckpointComplete'
    BY <1>0, <1>b, <1>d, <2>0, <2>4 DEF TrackedCheckpointComplete, Loadable, WrittenInv
  <2> QED
    BY <1>t, <2>4, <2>6, <2>7 DEF StoreInv, WrittenInv
<1>9. CASE Crash
  <2>0. /\ Alive /\ pc' = "down" /\ crashes' = crashes + 1
        /\ UNCHANGED <<part, version, last_ckpt_version, previous_saved_paths, complete, partial,
                       tracker, newest>>
    BY <1>9 DEF Crash, trainer, disk, Alive
  <2>2. PathsInv'
    BY <2>0 DEF PathsInv, Alive
  <2>4. \A q \in PartNames : ~Written(q)'
    BY <2>0 DEF Saved, Written, Saving, Closing
  <2>7. TrackedCheckpointComplete'
    BY <1>0, <1>b, <1>d, <2>0 DEF TrackedCheckpointComplete, Loadable
  <2> QED
    BY <1>t, <2>2, <2>4, <2>7 DEF StoreInv, WrittenInv
<1>10. CASE LoadCheckpoint
  <2>0. /\ pc = "down"
        /\ UNCHANGED <<part, complete, partial, tracker, newest, crashes>>
        /\ \/ /\ pc' = "load_failed"
              /\ UNCHANGED <<version, last_ckpt_version, previous_saved_paths>>
           \/ Start(newest) /\ tracker # Torn
    BY <1>0, <1>b, <1>c, <1>d, <1>10 DEF LoadCheckpoint, ProgressInv, disk, trainer
  <2>4. \A q \in PartNames : ~Saved(q)' /\ ~Written(q)'
    BY <2>0 DEF Saved, Written, Saving, Closing, Start
  <2>7. TrackedCheckpointComplete'
    BY <1>0, <1>b, <1>d, <2>0 DEF TrackedCheckpointComplete, Loadable
  <2>8. CASE Start(newest)
    <3>1. \A q \in PartNames : previous_saved_paths'[q] = <<>>
      BY <2>8 DEF Start
    <3>2. PathsInv'
      BY <2>4, <3>1 DEF PathsInv, Earlier, Ascending
    <3> QED
      BY <1>t, <2>4, <2>7, <3>2 DEF StoreInv, WrittenInv
  <2>9. CASE /\ pc' = "load_failed"
             /\ UNCHANGED <<version, last_ckpt_version, previous_saved_paths>>
    <3>1. PathsInv'
      BY <2>9 DEF PathsInv, Alive
    <3> QED
      BY <1>t, <2>4, <2>7, <3>1 DEF StoreInv, WrittenInv
  <2> QED
    BY <2>0, <2>8, <2>9
<1>11. CASE UNCHANGED vars
  BY <1>11 DEF vars, trainer, disk, StoreInv, TypeOK, ProgressInv, WrittenInv, PathsInv, Alive,
     Saved, Written, SavingPart, Earlier, WithNew, TrackedCheckpointComplete, Loadable
<1> QED
  BY <1>1, <1>2, <1>3, <1>4, <1>5, <1>6, <1>7, <1>8, <1>9, <1>10, <1>11 DEF Next, LoadFailsAgain
-----------------------------------------------------------------------------
(* Wherever the process dies, the version that the tracker names can be    *)
(* loaded, if no part keeps exactly one checkpoint: for any parts, limits, *)
(* frequencies and crashes (ensure_checkpoint_capacity,                    *)
(* register_checkpoint, _save_checkpoint).                                 *)
THEOREM TrackedCheckpointIsComplete ==
  ASSUME KeepsSeveral
  PROVE  Spec => []TrackedCheckpointComplete
<1>1. Init => StoreInv
  BY StoreInit
<1>2. StoreInv /\ [Next]_vars => StoreInv'
  BY StoreNext
<1>3. StoreInv => TrackedCheckpointComplete
  BY DEF StoreInv
<1> QED
  BY <1>1, <1>2, <1>3, PTL DEF Spec
-----------------------------------------------------------------------------
(* The loss and the disk.                                                  *)

(* The loss: every multiple of SaveFreq that the versions pass is saved,   *)
(* unless it is passed only now.                                           *)
LossInv ==
  /\ pc = "train" => \A m \in Nat : newest < m * SaveFreq => version < m * SaveFreq
  /\ pc \in {"check"} \cup Saving => \A m \in Nat : newest < m * SaveFreq => version <= m * SaveFreq
  /\ pc \in {"down", "load_failed"} => version - newest <= SaveFreq

(* The first multiple above n.                                             *)
LEMMA MultipleAbove ==
  ASSUME NEW n \in Nat, NEW f \in Nat \ {0}
  PROVE  \E m \in Nat : n < m * f /\ m * f <= n + f
<1>1. PICK q \in Nat : q = n \div f
  OBVIOUS
<1>2. PICK r \in Int : r = n % f
  OBVIOUS
<1>3. n = q * f + r /\ r < f /\ r >= 0
  BY <1>1, <1>2
<1>4. PICK y \in Int : y = q * f
  OBVIOUS
<1>5. (q + 1) * f = y + f
  BY <1>4
<1>6. n < y + f /\ y + f <= n + f
  BY <1>3, <1>4
<1>7. q + 1 \in Nat
  OBVIOUS
<1> QED
  BY <1>5, <1>6, <1>7

(* A multiple of f divides by f.                                           *)
LEMMA MultipleDivides ==
  ASSUME NEW m \in Nat, NEW f \in Nat \ {0}
  PROVE  m * f \in Nat /\ (m * f) % f = 0
OBVIOUS

(* Saving every multiple bounds what a crash loses.                        *)
LEMMA LossFollows ==
  ASSUME TypeOK, LossInv
  PROVE  version - newest <= SaveFreq
<1>0. /\ version \in Nat /\ newest \in Nat /\ SaveFreq \in Nat \ {0}
      /\ pc = "train" \/ pc \in {"check"} \cup Saving \/ pc \in {"down", "load_failed"}
  <2>1. version \in 0 .. MaxVersion /\ newest \in 0 .. MaxVersion
    BY DEF TypeOK
  <2>2. version \in Nat /\ newest \in Nat
    BY <2>1, StoreAssumption
  <2>3. pc = "train" \/ pc \in {"check"} \cup Saving \/ pc \in {"down", "load_failed"}
    BY DEF TypeOK, Saving
  <2> QED
    BY <2>2, <2>3, StoreAssumption
<1>1. CASE pc \in {"down", "load_failed"}
  BY <1>1 DEF LossInv
<1>2. CASE pc = "train" \/ pc \in {"check"} \cup Saving
  <2>1. PICK m \in Nat : newest < m * SaveFreq /\ m * SaveFreq <= newest + SaveFreq
    BY <1>0, MultipleAbove
  <2>2. PICK x \in Int : x = m * SaveFreq
    BY <1>0
  <2>3. version <= x
    <3>1. version < x \/ version <= x
      BY <1>2, <2>1, <2>2 DEF LossInv
    <3> QED
      BY <1>0, <3>1
  <2>4. x <= newest + SaveFreq
    BY <2>1, <2>2
  <2> QED
    BY <1>0, <2>3, <2>4
<1> QED
  BY <1>0, <1>1, <1>2

(* What the last save bounds, every step bounds.                           *)
LEMMA LossNext ==
  ASSUME TypeOK, ProgressInv, LossInv, [Next]_vars
  PROVE  LossInv'
<1>d. /\ version \in Nat /\ newest \in Nat /\ last_ckpt_version \in Nat
      /\ SaveFreq \in Nat \ {0}
  <2>1. /\ version \in 0 .. MaxVersion /\ newest \in 0 .. MaxVersion
        /\ last_ckpt_version \in 0 .. MaxVersion
    BY DEF TypeOK
  <2> QED
    BY <2>1, StoreAssumption
<1>e. version - newest <= SaveFreq
  BY LossFollows
<1>m. \A m \in Nat : m * SaveFreq \in Nat
  BY <1>d
<1>1. CASE Train
  <2>0. pc = "train" /\ pc' = "check" /\ newest' = newest /\ version' \in {version, version + 1}
    BY <1>1 DEF Train
  <2>1. ASSUME NEW m \in Nat, newest' < m * SaveFreq
        PROVE  version' <= m * SaveFreq
    <3>1. PICK x \in Nat : x = m * SaveFreq
      BY <1>m
    <3>2. version < x
      BY <2>0, <2>1, <3>1 DEF LossInv
    <3>3. version' <= x
      BY <1>d, <2>0, <3>2
    <3> QED
      BY <3>1, <3>3
  <2> QED
    BY <2>0, <2>1 DEF LossInv, Saving
<1>2. CASE CheckSaveCheckpoint
  <2>0. /\ pc = "check" /\ pc' \in {"train", "begin"}
        /\ UNCHANGED <<version, newest>>
        /\ pc' = "train" => version = last_ckpt_version \/ version % SaveFreq # 0
    BY <1>2 DEF CheckSaveCheckpoint, SaveWanted, trainer
  <2>1. \A m \in Nat : newest < m * SaveFreq => version <= m * SaveFreq
    BY <2>0 DEF LossInv
  <2>2. ASSUME pc' = "train", NEW m \in Nat, newest < m * SaveFreq
        PROVE  version < m * SaveFreq
    <3>1. PICK x \in Nat : x = m * SaveFreq
      BY <1>m
    <3>2. version <= x /\ newest < x
      BY <2>1, <2>2, <3>1
    <3>3. version # x
      <4>1. CASE version = last_ckpt_version
        <5>1. newest = last_ckpt_version
          BY <2>0 DEF ProgressInv, Alive
        <5> QED
          BY <1>d, <3>2, <4>1, <5>1
      <4>2. CASE version % SaveFreq # 0
        <5>1. x % SaveFreq = 0
          BY <1>d, <3>1, MultipleDivides
        <5> QED
          BY <4>2, <5>1
      <4> QED
        BY <2>0, <2>2, <4>1, <4>2
    <3>4. version < x
      BY <1>d, <3>2, <3>3
    <3> QED
      BY <3>1, <3>4
  <2> QED
    BY <2>0, <2>1, <2>2 DEF LossInv, Saving
<1>3. CASE BeginPart \/ WritePart \/ PartWritten \/ RegisterPart \/ OpenTracker
  <2>0. pc \in Saving /\ pc' \in Saving /\ UNCHANGED <<version, newest>>
    BY <1>3 DEF BeginPart, WritePart, PartWritten, RegisterPart, OpenTracker, Saving, trainer
  <2> QED
    BY <2>0 DEF LossInv, Saving
<1>4. CASE WriteTracker
  <2>0. pc' = "train" /\ newest' = version /\ version' = version
    BY <1>4 DEF WriteTracker
  <2> QED
    BY <2>0 DEF LossInv, Saving
<1>5. CASE Crash
  <2>0. pc' = "down" /\ UNCHANGED <<version, newest>> /\ pc # "load_failed"
    BY <1>5 DEF Crash, trainer
  <2> QED
    BY <1>e, <2>0 DEF LossInv, Saving
<1>6. CASE LoadCheckpoint
  <2>1. CASE pc' = "load_failed"
    <3>1. UNCHANGED <<version, newest>>
      BY <1>6, <2>1 DEF LoadCheckpoint, Start, trainer
    <3> QED
      BY <1>e, <2>1, <3>1 DEF LossInv, Saving
  <2>2. CASE pc' # "load_failed"
    <3>1. pc' = "train" /\ newest' = newest /\ version' = newest
      <4>1. NoTracker \notin Versions /\ Torn \notin Versions
        BY StoreAssumption DEF Versions
      <4> QED
        BY <1>6, <2>2, <4>1 DEF LoadCheckpoint, Start, ProgressInv
    <3> QED
      BY <3>1 DEF LossInv, Saving
  <2> QED
    BY <2>1, <2>2
<1>7. CASE LoadFailsAgain \/ UNCHANGED vars
  <2>1. UNCHANGED <<pc, version, newest>>
    BY <1>7 DEF LoadFailsAgain, vars, trainer
  <2> QED
    BY <2>1 DEF LossInv
<1> QED
  BY <1>1, <1>2, <1>3, <1>4, <1>5, <1>6, <1>7 DEF Next

(* The disk: what part p has there is what earlier processes left (left),  *)
(* what the manager still names, and the directory being written.          *)
Elements(s) == {s[k] : k \in 1 .. Len(s)}
Unfinished(p) == IF pc = "written" /\ p = SavingPart THEN {version} ELSE {}
Unnamed(p) == IF pc \in {"written", "register"} /\ p = SavingPart THEN {version} ELSE {}

HeldBy(p, left) ==
  /\ Len(previous_saved_paths[p]) <= Keep[p]
  /\ pc \in {"write", "written", "register"} /\ p = SavingPart
       => Len(previous_saved_paths[p]) < Keep[p]
  /\ partial[p] \subseteq left \cup Unfinished(p)
  /\ complete[p] \subseteq left \cup Elements(previous_saved_paths[p]) \cup Unnamed(p)

LeftBound(p, left) == left \in SUBSET Versions /\ Cardinality(left) <= Keep[p] * crashes

DiskInv(p) ==
  IF Alive THEN \E left : LeftBound(p, left) /\ HeldBy(p, left)
           ELSE LeftBound(p, complete[p] \cup partial[p])

(* Each process adds at most as many directories as its manager keeps.     *)
LEMMA HeldIsBounded ==
  ASSUME TypeOK, NEW p \in PartNames, Keep[p] > 1,
         NEW left, LeftBound(p, left), HeldBy(p, left)
  PROVE  LET held == complete[p] \cup partial[p] IN
         /\ held \in SUBSET Versions
         /\ Cardinality(held) <= Keep[p] * (crashes + 1)
<1> DEFINE s == previous_saved_paths[p]
           held == complete[p] \cup partial[p]
           own == Elements(s) \cup Unnamed(p)
<1>1. /\ s \in Seq(Versions) /\ Len(s) \in Nat /\ Keep[p] \in Nat /\ crashes \in Nat
      /\ held \in SUBSET Versions
  BY StoreAssumption, LenProperties DEF TypeOK
<1>2. IsFiniteSet(Versions)
  <2>1. 1 \in Int /\ MaxVersion \in Int
    BY StoreAssumption
  <2> QED
    BY <2>1, FS_Interval, Zenon DEF Versions
<1>3. IsFiniteSet(left) /\ Cardinality(left) \in Nat /\ Cardinality(left) <= Keep[p] * crashes
  <2>1. IsFiniteSet(left)
    BY <1>2, FS_Subset DEF LeftBound
  <2>2. Cardinality(left) \in Nat
    BY <2>1, FS_CardinalityType
  <2> QED
    BY <2>1, <2>2 DEF LeftBound
<1>4. /\ IsFiniteSet(Elements(s)) /\ Cardinality(Elements(s)) \in Nat
      /\ Cardinality(Elements(s)) <= Len(s)
  <2>1. IsFiniteSet(1 .. Len(s)) /\ Cardinality(1 .. Len(s)) = Len(s)
    <3>1. 1 \in Int /\ Len(s) \in Int
      BY <1>1
    <3>2. /\ IsFiniteSet(1 .. Len(s))
          /\ Cardinality(1 .. Len(s)) = IF 1 > Len(s) THEN 0 ELSE Len(s) - 1 + 1
      BY <3>1, FS_Interval, Zenon
    <3> QED
      BY <1>1, <3>2
  <2> DEFINE at == [k \in 1 .. Len(s) |-> s[k]]
  <2>2. at \in Surjection(1 .. Len(s), Elements(s))
    BY DEF Surjection, Elements
  <2>3. /\ IsFiniteSet(Elements(s))
        /\ Cardinality(Elements(s)) <= Cardinality(1 .. Len(s))
    BY <2>1, <2>2, FS_Surjection
  <2>4. Cardinality(Elements(s)) \in Nat
    BY <2>3, FS_CardinalityType
  <2> QED
    BY <2>1, <2>3, <2>4
<1>5. /\ IsFiniteSet(own) /\ Cardinality(own) \in Nat /\ Cardinality(own) <= Keep[p]
  <2>1. CASE pc \in {"written", "register"} /\ p = SavingPart
    <3>1. Len(s) < Keep[p]
      BY <2>1 DEF HeldBy
    <3>2. own = Elements(s) \cup {version}
      BY <2>1 DEF Unnamed
    <3>3. IsFiniteSet(own) /\ Cardinality(own) \in Nat
          /\ Cardinality(own) <= Cardinality(Elements(s)) + 1
      <4>1. IsFiniteSet({version}) /\ Cardinality({version}) = 1
        BY FS_Singleton, Zenon
      <4>2. /\ IsFiniteSet(own)
            /\ Cardinality(own) = Cardinality(Elements(s)) + 1
                                    - Cardinality(Elements(s) \cap {version})
        BY <1>4, <3>2, <4>1, FS_Union
      <4>3. Cardinality(Elements(s) \cap {version}) \in Nat
        <5>1. IsFiniteSet(Elements(s) \cap {version})
          BY <1>4, FS_Subset
        <5> QED
          BY <5>1, FS_CardinalityType
      <4>4. Cardinality(own) \in Nat
        BY <4>2, FS_CardinalityType
      <4> QED
        BY <1>4, <4>2, <4>3, <4>4
    <3> HIDE DEF s, own
    <3> QED
      BY <1>1, <1>4, <3>1, <3>3
  <2>2. CASE ~(pc \in {"written", "register"} /\ p = SavingPart)
    <3>1. own = Elements(s)
      BY <2>2 DEF Unnamed
    <3>2. Len(s) <= Keep[p]
      BY DEF HeldBy
    <3> HIDE DEF s, own
    <3> QED
      BY <1>1, <1>4, <3>1, <3>2
  <2> QED
    BY <2>1, <2>2
<1>6. held \subseteq left \cup own
  BY DEF HeldBy, Unfinished, Unnamed
<1> HIDE DEF s, own
<1>7. /\ IsFiniteSet(left \cup own) /\ Cardinality(left \cup own) \in Nat
      /\ Cardinality(left \cup own) <= Cardinality(left) + Cardinality(own)
  <2>1. /\ IsFiniteSet(left \cup own)
        /\ Cardinality(left \cup own) = Cardinality(left) + Cardinality(own)
                                          - Cardinality(left \cap own)
    BY <1>3, <1>5, FS_Union
  <2>2. Cardinality(left \cap own) \in Nat
    <3>1. IsFiniteSet(left \cap own)
      BY <1>3, FS_Subset
    <3> QED
      BY <3>1, FS_CardinalityType
  <2>3. Cardinality(left \cup own) \in Nat
    BY <2>1, FS_CardinalityType
  <2> QED
    BY <1>3, <1>5, <2>1, <2>2, <2>3
<1>8. Cardinality(held) \in Nat /\ Cardinality(held) <= Cardinality(left \cup own)
  <2>1. IsFiniteSet(held) /\ Cardinality(held) <= Cardinality(left \cup own)
    BY <1>6, <1>7, FS_Subset
  <2> QED
    BY <2>1, FS_CardinalityType
<1>9. Keep[p] * (crashes + 1) = Keep[p] * crashes + Keep[p] /\ Keep[p] * crashes \in Nat
  BY <1>1
<1> HIDE DEF held
<1>10. PICK product \in Nat : product = Keep[p] * crashes
  BY <1>9
<1>11. Cardinality(held) <= product + Keep[p]
  BY <1>1, <1>3, <1>5, <1>7, <1>8, <1>10
<1>12. held \in SUBSET Versions
  BY <1>1
<1> QED
  BY <1>9, <1>10, <1>11, <1>12 DEF held

(* What is kept and what is gone are all the paths.                        *)
LEMMA KeptAndGone ==
  ASSUME NEW s \in Seq(Versions), NEW n \in Nat, n <= Len(s)
  PROVE  LET kept == SubSeq(s, Len(s) - n + 1, Len(s)) IN
         /\ Len(kept) = n
         /\ Elements(s) \ {s[k] : k \in 1 .. (Len(s) - n)} \subseteq Elements(kept)
<1> DEFINE kept == SubSeq(s, Len(s) - n + 1, Len(s))
<1>1. Len(s) \in Nat
  BY LenProperties
<1>2. Len(s) - n + 1 \in Nat \ {0}
  BY <1>1
<1>3. PICK m \in Nat \ {0} : m = Len(s) - n + 1
  BY <1>2
<1>4. /\ kept \in Seq(Versions)
      /\ Len(kept) = IF m <= Len(s) THEN Len(s) - m + 1 ELSE 0
      /\ \A i \in 1 .. (Len(s) - m + 1) : kept[i] = s[m + i - 1]
  <2>1. \A i \in m .. Len(s) : s[i] \in Versions
    BY <1>1
  <2>2. kept = SubSeq(s, m, Len(s))
    BY <1>3
  <2> HIDE DEF kept
  <2> QED
    BY <1>1, <2>1, <2>2, SubSeqProperties
<1>5. Len(kept) = n
  <2> HIDE DEF kept
  <2> QED
    BY <1>1, <1>3, <1>4
<1>6. ASSUME NEW j \in 1 .. Len(s), j \notin 1 .. (Len(s) - n)
      PROVE  s[j] \in Elements(kept)
  <2> HIDE DEF kept
  <2>1. PICK i \in Int : i = j - m + 1
    BY <1>1
  <2>2. i \in 1 .. n /\ i \in 1 .. (Len(s) - m + 1) /\ m + i - 1 = j
    BY <1>1, <1>3, <1>6, <2>1
  <2>3. kept[i] = s[j]
    BY <1>4, <2>2
  <2> QED
    BY <1>5, <2>2, <2>3 DEF Elements
<1>7. Elements(s) \ {s[k] : k \in 1 .. (Len(s) - n)} \subseteq Elements(kept)
  <2> HIDE DEF kept
  <2> QED
    BY <1>6 DEF Elements
<1> QED
  BY <1>5, <1>7

(* Every step keeps a part within its bound.                               *)
LEMMA DiskNext ==
  ASSUME TypeOK, TypeOK', ProgressInv, [Next]_vars,
         NEW p \in PartNames, Keep[p] > 1, DiskInv(p)
  PROVE  DiskInv(p)'
<1> DEFINE s == previous_saved_paths[p]
<1>a. /\ SavingPart \in PartNames /\ s \in Seq(Versions) /\ Len(s) \in Nat /\ Keep[p] \in Nat
  <2>1. SavingPart \in PartNames
    BY SavingPartFacts
  <2> QED
    BY <2>1, StoreAssumption, LenProperties DEF TypeOK
<1>b. ASSUME Alive, Alive', crashes' = crashes,
             \A left : HeldBy(p, left) => HeldBy(p, left)'
      PROVE  DiskInv(p)'
  BY <1>b DEF DiskInv, LeftBound
<1>1. CASE Train \/ CheckSaveCheckpoint \/ OpenTracker \/ WriteTracker
  <2>1. /\ pc \notin {"write", "written", "register", "down", "load_failed"}
        /\ pc' \notin {"write", "written", "register", "down", "load_failed"}
        /\ UNCHANGED <<previous_saved_paths, complete, partial, crashes>>
    BY <1>1 DEF Train, CheckSaveCheckpoint, OpenTracker, WriteTracker, trainer, disk
  <2>2. \A left : HeldBy(p, left) => HeldBy(p, left)'
    BY <2>1 DEF HeldBy, Unfinished, Unnamed
  <2> QED
    BY <1>b, <2>1, <2>2 DEF Alive
<1>2. CASE BeginPart
  <2>1. /\ pc = "begin" /\ pc' = "write"
        /\ UNCHANGED <<part, version, partial, crashes>>
        /\ EnsureCapacity(SavingPart)
    BY <1>2 DEF BeginPart
  <2>2. ASSUME NEW left, HeldBy(p, left)
        PROVE  HeldBy(p, left)'
    <3>1. /\ Len(s) <= Keep[p] /\ partial'[p] \subseteq left
          /\ complete[p] \subseteq left \cup Elements(s)
      BY <2>1, <2>2 DEF HeldBy, Unfinished, Unnamed
    <3>2. CASE p = SavingPart /\ Len(s) >= Keep[p]
      <4> DEFINE n == Keep[p] - 1
                 kept == SubSeq(s, Len(s) - n + 1, Len(s))
                 gone == {s[k] : k \in 1 .. (Len(s) - n)}
      <4>1. n \in Nat /\ n <= Len(s)
        BY <1>a, <3>2
      <4>2. Len(kept) = n /\ Elements(s) \ gone \subseteq Elements(kept)
        <5> HIDE DEF n, s
        <5> QED
          BY <1>a, <4>1, KeptAndGone
      <4>3. /\ previous_saved_paths' = [previous_saved_paths EXCEPT ![p] = kept]
            /\ complete' = [complete EXCEPT ![p] = @ \ gone]
        BY <2>1, <3>2 DEF EnsureCapacity, Retain
      <4>4. previous_saved_paths'[p] = kept /\ complete'[p] = complete[p] \ gone
        <5> HIDE DEF kept, gone
        <5> QED
          BY <4>3 DEF TypeOK
      <4>5. n < Keep[p]
        BY <1>a
      <4> HIDE DEF kept, gone, n, s
      <4>6. complete'[p] \subseteq left \cup Elements(kept)
        BY <3>1, <4>2, <4>4
      <4>7. Len(kept) < Keep[p] /\ Len(kept) <= Keep[p]
        BY <1>a, <4>1, <4>2, <4>5
      <4> QED
        BY <2>1, <3>1, <4>4, <4>6, <4>7 DEF HeldBy, Unfinished, Unnamed
    <3>3. CASE ~(p = SavingPart /\ Len(s) >= Keep[p])
      <4>1. previous_saved_paths'[p] = s /\ complete'[p] = complete[p]
        BY <1>a, <2>1, <3>3 DEF EnsureCapacity, Retain, TypeOK
      <4>2. p = SavingPart => Len(s) < Keep[p]
        BY <1>a, <3>1, <3>3
      <4> QED
        BY <2>1, <3>1, <4>1, <4>2 DEF HeldBy, Unfinished, Unnamed, SavingPart
    <3> QED
      BY <3>2, <3>3
  <2> QED
    BY <1>b, <2>1, <2>2 DEF Alive
<1>3. CASE WritePart
  <2>1. /\ pc = "write" /\ pc' = "written"
        /\ UNCHANGED <<part, version, previous_saved_paths, crashes>>
        /\ complete'[p] \subseteq complete[p]
        /\ p = SavingPart => partial'[p] = partial[p] \cup {version}
        /\ p # SavingPart => partial'[p] = partial[p]
    BY <1>3 DEF WritePart, trainer, TypeOK
  <2>2. \A left : HeldBy(p, left) => HeldBy(p, left)'
    BY <2>1 DEF HeldBy, Unfinished, Unnamed, SavingPart
  <2> QED
    BY <1>b, <2>1, <2>2 DEF Alive
<1>4. CASE PartWritten
  <2>1. /\ pc = "written" /\ pc' = "register"
        /\ UNCHANGED <<part, version, previous_saved_paths, crashes>>
        /\ p = SavingPart => /\ complete'[p] = complete[p] \cup {version}
                             /\ partial'[p] = partial[p] \ {version}
        /\ p # SavingPart => partial'[p] = partial[p] /\ complete'[p] = complete[p]
    BY <1>4 DEF PartWritten, trainer, TypeOK
  <2>2. \A left : HeldBy(p, left) => HeldBy(p, left)'
    BY <2>1 DEF HeldBy, Unfinished, Unnamed, SavingPart
  <2> QED
    BY <1>b, <2>1, <2>2 DEF Alive
<1>5. CASE RegisterPart
  <2>1. /\ pc = "register" /\ pc' \in {"begin", "open_tracker"}
        /\ UNCHANGED <<version, partial, crashes>>
    BY <1>5 DEF RegisterPart
  <2>2. ASSUME NEW left, HeldBy(p, left)
        PROVE  HeldBy(p, left)'
    <3>1. partial'[p] \subseteq left
      BY <2>1, <2>2 DEF HeldBy, Unfinished
    <3>2. CASE p = SavingPart
      <4> DEFINE paths == Append(s, version)
      <4>0. version \in Versions
        <5>1. version > last_ckpt_version /\ version \in 0 .. MaxVersion
              /\ last_ckpt_version \in 0 .. MaxVersion
          BY <2>1 DEF ProgressInv, Saving, TypeOK
        <5> QED
          BY <5>1, StoreAssumption DEF Versions
      <4>1. /\ Len(s) < Keep[p]
            /\ complete[p] \subseteq left \cup Elements(s) \cup {version}
        BY <2>1, <2>2, <3>2 DEF HeldBy, Unnamed
      <4>2. /\ Len(paths) = Len(s) + 1
            /\ \A k \in 1 .. Len(s) : paths[k] = s[k]
            /\ paths[Len(s) + 1] = version
        <5> HIDE DEF s
        <5> QED
          BY <1>a, <4>0, AppendProperties
      <4>3. previous_saved_paths'[p] = paths /\ complete'[p] = complete[p]
        <5>1. ~(Len(paths) > Keep[p])
          <6> HIDE DEF paths, s
          <6> QED
            BY <1>a, <4>1, <4>2
        <5>2. /\ previous_saved_paths' = [previous_saved_paths EXCEPT ![p] = paths]
              /\ complete' = complete
          BY <1>5, <3>2, <5>1 DEF RegisterPart
        <5> HIDE DEF paths
        <5> QED
          BY <5>2 DEF TypeOK
      <4> HIDE DEF paths, s
      <4>4. Elements(s) \cup {version} \subseteq Elements(paths)
        <5>1. \A k \in 1 .. Len(s) : k \in 1 .. Len(paths)
          BY <1>a, <4>2
        <5>2. Len(s) + 1 \in 1 .. Len(paths)
          BY <1>a, <4>2
        <5> QED
          BY <4>2, <5>1, <5>2 DEF Elements
      <4>5. Len(paths) <= Keep[p]
        BY <1>a, <4>1, <4>2
      <4> QED
        BY <2>1, <3>1, <4>1, <4>3, <4>4, <4>5 DEF HeldBy
    <3>3. CASE p # SavingPart
      <4>1. previous_saved_paths'[p] = s /\ complete'[p] = complete[p]
        BY <1>5, <1>a, <3>3 DEF RegisterPart, Retain, TypeOK
      <4> QED
        BY <2>1, <2>2, <3>1, <3>3, <4>1 DEF HeldBy, Unnamed
    <3> QED
      BY <3>2, <3>3
  <2> QED
    BY <1>b, <2>1, <2>2 DEF Alive
<1>6. CASE Crash
  <2>1. /\ Alive /\ ~Alive' /\ crashes' = crashes + 1 /\ UNCHANGED <<complete, partial>>
    BY <1>6 DEF Crash, Alive, disk
  <2>2. PICK left : LeftBound(p, left) /\ HeldBy(p, left)
    BY <2>1 DEF DiskInv
  <2>3. LeftBound(p, complete[p] \cup partial[p])'
    BY <2>1, <2>2, HeldIsBounded DEF LeftBound
  <2> QED
    BY <2>1, <2>3 DEF DiskInv
<1>7. CASE LoadCheckpoint
  <2>1. /\ ~Alive /\ UNCHANGED <<complete, partial, crashes>>
        /\ \/ ~Alive'
           \/ pc' = "train" /\ previous_saved_paths'[p] = <<>>
    BY <1>7 DEF LoadCheckpoint, Start, Alive, disk
  <2>2. LeftBound(p, complete[p] \cup partial[p])'
    BY <2>1 DEF DiskInv, LeftBound
  <2>3. CASE ~Alive'
    BY <2>2, <2>3 DEF DiskInv
  <2>4. CASE pc' = "train" /\ previous_saved_paths'[p] = <<>>
    <3>1. PICK left : left = complete'[p] \cup partial'[p]
      OBVIOUS
    <3>2. Len(<<>>) = 0 /\ 0 <= Keep[p]
      BY <1>a
    <3>3. HeldBy(p, left)'
      BY <2>4, <3>1, <3>2 DEF HeldBy, Unfinished, Unnamed
    <3>4. LeftBound(p, left)'
      BY <2>2, <3>1 DEF LeftBound
    <3>5. Alive'
      BY <2>4 DEF Alive
    <3> QED
      BY <3>3, <3>4, <3>5 DEF DiskInv
  <2> QED
    BY <2>1, <2>3, <2>4
<1>8. CASE LoadFailsAgain \/ UNCHANGED vars
  <2>1. UNCHANGED vars
    BY <1>8 DEF LoadFailsAgain
  <2> QED
    BY <2>1 DEF vars, trainer, disk, DiskInv, Alive, LeftBound, HeldBy, Unfinished, Unnamed,
       SavingPart
<1> QED
  BY <1>1, <1>2, <1>3, <1>4, <1>5, <1>6, <1>7, <1>8 DEF Next
-----------------------------------------------------------------------------
(* What holds whatever the parts keep.                                     *)

CheckpointInv ==
  /\ TypeOK /\ ProgressInv /\ LossInv
  /\ \A p \in PartNames : Keep[p] > 1 => DiskInv(p)

(* An empty store satisfies them.                                          *)
LEMMA CheckpointInit == Init => CheckpointInv
<1> SUFFICES ASSUME Init PROVE CheckpointInv
  OBVIOUS
<1>1. TypeOK /\ ProgressInv
  BY StoreInit DEF StoreInv
<1>2. LossInv
  BY DEF Init, LossInv, Saving
<1>3. ASSUME NEW p \in PartNames, Keep[p] > 1
      PROVE  DiskInv(p)
  <2>1. Cardinality({}) = 0 /\ Keep[p] \in Nat
    BY StoreAssumption, FS_EmptySet
  <2>2. LeftBound(p, {})
    BY <2>1 DEF Init, LeftBound
  <2>3. HeldBy(p, {})
    BY <1>3, <2>1 DEF Init, HeldBy, Unfinished, Unnamed
  <2>4. Alive
    BY DEF Init, Alive
  <2> QED
    BY <2>2, <2>3, <2>4 DEF DiskInv
<1> QED
  BY <1>1, <1>2, <1>3 DEF CheckpointInv

(* Every step keeps them.                                                  *)
LEMMA CheckpointNext == CheckpointInv /\ [Next]_vars => CheckpointInv'
<1> SUFFICES ASSUME CheckpointInv, [Next]_vars PROVE CheckpointInv'
  OBVIOUS
<1>1. TypeOK' /\ ProgressInv'
  BY BasicNext DEF CheckpointInv
<1>2. LossInv'
  BY LossNext DEF CheckpointInv
<1>3. \A p \in PartNames : Keep[p] > 1 => DiskInv(p)'
  BY <1>1, DiskNext DEF CheckpointInv
<1> QED
  BY <1>1, <1>2, <1>3 DEF CheckpointInv

(* A part within its invariant is within its bound.                        *)
LEMMA DiskFollows == CheckpointInv => DiskBounded
<1> SUFFICES ASSUME CheckpointInv, NEW p \in PartNames, Keep[p] > 1
             PROVE  Cardinality(complete[p] \cup partial[p]) <= Keep[p] * (crashes + 1)
  BY DEF DiskBounded
<1> DEFINE held == complete[p] \cup partial[p]
<1>1. TypeOK /\ DiskInv(p)
  BY DEF CheckpointInv
<1>2. CASE Alive
  <2>1. PICK left : LeftBound(p, left) /\ HeldBy(p, left)
    BY <1>1, <1>2 DEF DiskInv
  <2> QED
    BY <1>1, <2>1, HeldIsBounded
<1>3. CASE ~Alive
  <2>1. held \in SUBSET Versions /\ Cardinality(held) <= Keep[p] * crashes
    BY <1>1, <1>3 DEF DiskInv, LeftBound
  <2>2. Cardinality(held) \in Nat
    <3>1. 1 \in Int /\ MaxVersion \in Int
      BY StoreAssumption
    <3>2. IsFiniteSet(Versions)
      BY <3>1, FS_Interval, Zenon DEF Versions
    <3>3. IsFiniteSet(held)
      BY <2>1, <3>2, FS_Subset
    <3> QED
      BY <3>3, FS_CardinalityType
  <2>3. Keep[p] \in Nat /\ crashes \in Nat
    BY <1>1, StoreAssumption DEF TypeOK
  <2>4. Keep[p] * (crashes + 1) = Keep[p] * crashes + Keep[p] /\ Keep[p] * crashes \in Nat
    BY <2>3
  <2>5. PICK product \in Nat : product = Keep[p] * crashes
    BY <2>4
  <2> HIDE DEF held
  <2>6. Cardinality(held) <= product + Keep[p]
    BY <2>1, <2>2, <2>3, <2>5
  <2> QED
    BY <2>4, <2>5, <2>6 DEF held
<1> QED
  BY <1>2, <1>3

(* The state has the types and ranges that its parts are used with,        *)
(* whatever the limits are.                                                *)
THEOREM StoreTypes == Spec => []TypeOK
<1>1. CheckpointInv => TypeOK
  BY DEF CheckpointInv
<1> QED
  BY <1>1, CheckpointInit, CheckpointNext, PTL DEF Spec

(* While the tracker is torn, the version being saved is complete.         *)
TornInv == tracker = Torn => Loadable(version)

(* The tracker is truncated only when all parts are written, and stays so  *)
(* only while nothing is written any more.                                 *)
LEMMA TornNext ==
  ASSUME StoreInv, TornInv, [Next]_vars
  PROVE  TornInv'
<1> SUFFICES ASSUME tracker' = Torn PROVE Loadable(version)'
  BY DEF TornInv
<1>0. Torn \notin Versions /\ Torn # NoTracker /\ (tracker = Torn => pc = "write_tracker" \/ ~Alive)
  BY StoreAssumption DEF Versions, StoreInv, ProgressInv
<1>1. CASE tracker # Torn
  <2>1. OpenTracker
    <3>1. WriteTracker => version \in Versions
      <4>1. pc = "write_tracker" => version > last_ckpt_version
        BY DEF StoreInv, ProgressInv, Saving
      <4>2. version \in 0 .. MaxVersion /\ last_ckpt_version \in 0 .. MaxVersion
        BY DEF StoreInv, TypeOK
      <4> QED
        BY <4>1, <4>2, StoreAssumption DEF WriteTracker, Versions
    <3> QED
      BY <1>0, <1>1, <3>1 DEF Next, Train, CheckSaveCheckpoint, BeginPart, WritePart, PartWritten,
         RegisterPart, WriteTracker, Crash, LoadCheckpoint, LoadFailsAgain, vars, disk
  <2>2. \A p \in PartNames : version \in complete[p]
    BY <2>1 DEF OpenTracker, StoreInv, WrittenInv, Written, Saved, Closing
  <2> QED
    BY <2>1, <2>2 DEF OpenTracker, Loadable, trainer
<1>2. CASE tracker = Torn
  <2>1. UNCHANGED <<version, complete>>
    <3>1. CASE Next
      <4>1. ~WriteTracker
        <5>1. pc = "write_tracker" => version > last_ckpt_version
          BY DEF StoreInv, ProgressInv, Saving
        <5>2. version \in 0 .. MaxVersion /\ last_ckpt_version \in 0 .. MaxVersion
          BY DEF StoreInv, TypeOK
        <5>3. pc = "write_tracker" => version \in Versions
          BY <5>1, <5>2, StoreAssumption DEF Versions
        <5> QED
          BY <1>0, <5>3 DEF WriteTracker
      <4>2. Crash \/ LoadCheckpoint \/ LoadFailsAgain
        BY <1>0, <1>2, <3>1, <4>1 DEF Next, Train, CheckSaveCheckpoint, BeginPart, WritePart,
           PartWritten, RegisterPart, OpenTracker, Alive
      <4> QED
        BY <1>0, <1>2, <4>2 DEF Crash, LoadCheckpoint, LoadFailsAgain, vars, trainer, disk
    <3>2. CASE UNCHANGED vars
      BY <3>2 DEF vars, trainer, disk
    <3> QED
      BY <3>1, <3>2
  <2> QED
    BY <1>2, <2>1 DEF TornInv, Loadable
<1> QED
  BY <1>1, <1>2

(* What the disk holds bounds the loss of a crash.                         *)
LEMMA LossBoundedFollows ==
  ASSUME StoreInv, TornInv, LossInv
  PROVE  LossBounded
<1>1. version - newest <= SaveFreq
  BY LossFollows DEF StoreInv
<1>2. tracker # Torn => Tracked = newest
  BY DEF Tracked, StoreInv, TypeOK, ProgressInv
<1>3. tracker \in Versions => Loadable(tracker)
  BY DEF StoreInv, TrackedCheckpointComplete
<1> QED
  BY <1>1, <1>2, <1>3 DEF LossBounded, TornInv

(* If no part keeps exactly one checkpoint, then wherever the process dies *)
(* the tracker names a loadable version at most save_freq versions old, or *)
(* it is torn and the version being saved is complete on the disk: every   *)
(* multiple of save_freq that the versions reach is saved before the next  *)
(* training step (_check_save_checkpoint), and the tracker is opened only  *)
(* when all parts are written (_save_checkpoint).                          *)
THEOREM LossIsBounded ==
  ASSUME KeepsSeveral
  PROVE  Spec => []LossBounded
<1> DEFINE I == StoreInv /\ TornInv /\ LossInv
<1>1. Init => I
  <2>1. Init => TornInv
    BY StoreAssumption DEF Init, TornInv
  <2> QED
    BY <2>1, StoreInit, CheckpointInit DEF CheckpointInv
<1>2. I /\ [Next]_vars => I'
  BY StoreNext, TornNext, LossNext DEF StoreInv
<1>3. I => LossBounded
  BY LossBoundedFollows
<1> QED
  BY <1>1, <1>2, <1>3, PTL DEF Spec

(* Each process leaves at most max_ckpt_to_keep directories of a part that *)
(* keeps several: what is on the disk grows with the crashes and with      *)
(* nothing else (ensure_checkpoint_capacity, register_checkpoint).         *)
THEOREM DiskIsBounded == Spec => []DiskBounded
<1>1. CheckpointInv => DiskBounded
  BY DiskFollows
<1> QED
  BY <1>1, CheckpointInit, CheckpointNext, PTL DEF Spec

(* A restart resumes from the last version whose save went to its end      *)
(* whatever the parts keep (load_checkpoint, find_latest_ckpt_path).       *)
THEOREM RestartResumesFromNewest == Spec => ResumesFromNewest
<1>1. CheckpointInv /\ [Next]_vars => [pc = "down" /\ pc' = "train" => version' = newest]_vars
  <2> SUFFICES ASSUME CheckpointInv, Next, pc = "down", pc' = "train"
               PROVE  version' = newest
    OBVIOUS
  <2>1. LoadCheckpoint
    BY DEF Next, Train, CheckSaveCheckpoint, BeginPart, WritePart, PartWritten, RegisterPart,
       OpenTracker, WriteTracker, Crash, LoadFailsAgain
  <2> QED
    BY <2>1 DEF LoadCheckpoint, Start, CheckpointInv, ProgressInv
<1> QED
  BY <1>1, CheckpointInit, CheckpointNext, PTL DEF Spec, ResumesFromNewest
=============================================================================
