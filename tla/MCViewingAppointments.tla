----------------------- MODULE MCViewingAppointments -----------------------
(* Instances of ViewingAppointments for TLC.                                 *)
EXTENDS ViewingAppointments, TLC

Interchangeable == Permutations(Workers)
=============================================================================
