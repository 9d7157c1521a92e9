------------------------------ MODULE MCAccounts ------------------------------
(* Accounts, instantiated for TLC. *)
EXTENDS Accounts, TLC

CONSTANTS ann, Ann

MCLower == [e \in Emails |-> ann]

Symmetry == Permutations(Users) \cup Permutations(Handlers) \cup Permutations(Covers)
=============================================================================
