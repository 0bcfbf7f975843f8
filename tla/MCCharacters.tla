---------------------------- MODULE MCCharacters ----------------------------
EXTENDS Characters, TLC

CONSTANTS ann, bob, a1, a2

\* The session of ann can have two callbacks pending; bob's asks nothing that waits for
\* an answer.
CallbackOwner == (a1 :> ann) @@ (a2 :> ann)

Symmetry == Permutations({a1, a2}) \union Permutations(Guids) \union Permutations(Names)
=============================================================================
