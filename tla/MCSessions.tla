----------------------------- MODULE MCSessions -----------------------------
(* Symmetry of the identifiers no property tells apart. *)
EXTENDS Sessions, TLC

Symmetry == Permutations(Sessions) \cup Permutations(Handlers)
=============================================================================
