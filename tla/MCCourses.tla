------------------------------ MODULE MCCourses ------------------------------
EXTENDS Courses, TLC
CONSTANTS c1, f1, h1, h2, k1, k2

(* One cover after another, materials that come and go, a contract that is asked for, *)
(* left as it is and not mentioned.                                                   *)
MCSent == {[cover |-> k1, files |-> {f1}, contract |-> "given"],
           [cover |-> k2, files |-> {f1}, contract |-> "empty"],
           [cover |-> None, files |-> {}, contract |-> "absent"]}

Symmetric == Permutations(Handlers)
=============================================================================
