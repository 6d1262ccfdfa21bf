------------------------- MODULE MCCheckpointStore -------------------------
(***************************************************************************)
(* Checkpoints of an actor, a critic and the dataloader; the limits of     *)
(* actor and critic differ, the dataloader's data.pt is never rotated.     *)
(***************************************************************************)
EXTENDS CheckpointStore, TLC

MCParts == <<"actor", "critic", "data">>
MCKeep == [p \in PartNames |-> CASE p = "actor" -> 2 [] p = "critic" -> 3 [] OTHER -> 0]
=============================================================================
