--------------------------- MODULE MCMediaPipeline ---------------------------
(* Instances of MediaPipeline for TLC. *)
EXTENDS MediaPipeline, TLC

Interchangeable == Permutations(Assets) \cup Permutations(Workers)
=============================================================================
