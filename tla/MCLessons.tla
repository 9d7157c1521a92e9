------------------------------ MODULE MCLessons ------------------------------
EXTENDS Lessons, TLC
CONSTANTS f1, h1, h2, l1, l2

(* A file for the homework or for the bonus: what one request lists in the one, the *)
(* next lists in the other.                                                          *)
MCBodies == {b \in [Lists -> {{}, {f1}}] : \E k \in Lists : b = [Empty EXCEPT ![k] = {f1}]}

Symmetric == Permutations(Handlers) \cup Permutations(LessonIds)
=============================================================================
