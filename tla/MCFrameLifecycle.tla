-------------------------- MODULE MCFrameLifecycle ---------------------------
(* Instances of FrameLifecycle for TLC. Frames, ids and inodes are only ever  *)
(* compared, so their permutations are symmetries; so are the operators' when *)
(* all of them are the console's, or none is.                                 *)
EXTENDS FrameLifecycle, TLC

Symmetry == Permutations(Frames) \cup Permutations(Operators)
            \cup Permutations(Ids) \cup Permutations(Inodes)
=============================================================================
