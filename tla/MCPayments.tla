----------------------------- MODULE MCPayments -----------------------------
(* Small instances of Payments: the kinds of the items, and the symmetry of
   the identifiers that no property tells apart. *)
EXTENDS Payments, TLC

CONSTANTS course, guide

ASSUME ItemsAssumption == Items \subseteq {course, guide}

MCProductTypeOf == [i \in Items |-> IF i = course THEN "course" ELSE "guide"]

Symmetry == Permutations(Uuids) \cup Permutations(Millis) \cup Permutations(Requests)
              \cup Permutations(Callbacks) \cup Permutations(Emails)
              \cup Permutations(Users)
=============================================================================
