---------------------------- MODULE MCAttendance ----------------------------
(* Model checking of AttendanceAdjudication, and of ViewingAttendance below  *)
(* it.  The viewings of the Interaction differ in nothing but their names.   *)
EXTENDS AttendanceAdjudication, TLC
Interchangeable == Permutations(Viewings)
=============================================================================
