--------------------------- MODULE MCCourseAccess ---------------------------
(* A small instance of CourseAccess; nothing tells handlers or documents apart. *)
EXTENDS CourseAccess, TLC

Symmetry == Permutations(Handlers) \cup Permutations(Purchases)
=============================================================================
