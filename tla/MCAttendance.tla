----------------------------- MODULE MCAttendance -----------------------------
(***************************************************************************)
(* Attendance on small instances.                                          *)
(***************************************************************************)
EXTENDS Attendance, TLC

Symmetry == Permutations(Session) \cup Permutations(Student)
==============================================================================
