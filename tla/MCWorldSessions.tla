--------------------------- MODULE MCWorldSessions ---------------------------
(* Account ann connects twice and has a character on the ground and one on  *)
(* a taxi; account bob connects once, and so does gm, a game master's.  The *)
(* sessions MCComesBack are those of one client that connects three times.  *)
EXTENDS WorldSessions, TLC

CONSTANTS ann, bob, gm, a1, a2, a3, b1, g1, walker, flyer

MCAccounts == {ann, bob, gm}
MCSessions == {a1, a2, b1, g1}
MCComesBack == {a1, a2, a3}
MCAccountOf ==
    [s \in MCSessions |-> CASE s = b1 -> bob [] s = g1 -> gm [] OTHER -> ann]
MCComesBackOf == [s \in MCComesBack |-> ann]
MCCharacters == {walker, flyer}
MCOwnerOf == (walker :> ann) @@ (flyer :> ann)
MCGrounded == {walker}
MCExempt == {gm}
=============================================================================
