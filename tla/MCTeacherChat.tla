--------------------------- MODULE MCTeacherChat ----------------------------
(* Instances of TeacherChat for TLC: one child, two handlers that do not   *)
(* differ, one request of the web application.                             *)
EXTENDS TeacherChat, TLC

Symmetry == Permutations(Handlers)
=============================================================================
