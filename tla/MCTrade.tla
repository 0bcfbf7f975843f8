------------------------------- MODULE MCTrade -------------------------------
EXTENDS Trade, TLC

CONSTANT Places

MCRoom == [p \in Players |-> Places]
Symmetry == Permutations(Players) \union Permutations(Items)
=============================================================================
