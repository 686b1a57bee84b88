------------------------- MODULE MCAttendanceTimers -------------------------
(* Model checking of ViewingAttendance by itself; no symmetry: liveness.     *)
EXTENDS ViewingAttendance
=============================================================================
