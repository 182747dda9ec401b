-------------------------- MODULE MCCheckpointFile --------------------------
(* Instances of CheckpointFile. *)
EXTENDS CheckpointFile, TLC

(* A thread in the old and one in the new instance. *)
CONSTANTS s, t, old, new
MCInstanceOf == s :> old @@ t :> new

(* Files are alike, and so are the checkpoints that are not empty. *)
Symmetry == Permutations(Files) \cup Permutations(Versions \ {EmptyCheckpoint})
=============================================================================
