------------------------------ MODULE MCContracts ------------------------------
EXTENDS Contracts, TLC
CONSTANTS h1, h2, h3, u1

Symmetric == Permutations(Handlers)
=============================================================================
