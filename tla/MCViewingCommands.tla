------------------------- MODULE MCViewingCommands -------------------------
(* Instances of ViewingCommands for TLC.                                     *)
EXTENDS ViewingCommands, TLC

Interchangeable == Permutations(Episodes) \cup Permutations(Keys)
=============================================================================
