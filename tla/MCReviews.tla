------------------------------ MODULE MCReviews ------------------------------
(* Model checking of reviews together with moderation.  The runs of the      *)
(* worker, and the ratings, differ in nothing but their names.               *)
EXTENDS ReviewModeration, TLC

Alike == Permutations(Runs) \cup Permutations(Ratings)
==============================================================================
