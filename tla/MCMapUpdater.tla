---------------------------- MODULE MCMapUpdater ----------------------------
(* A continent, a dungeon with two instances, and two update threads. *)
EXTENDS MapUpdater, TLC

CONSTANTS w1, w2, continent, dungeon, inst1, inst2

MCWorkers == {w1, w2}
MCBaseMaps == {continent, dungeon}
MCKind == (continent :> 0) @@ (dungeon :> 2)
MCInstances == {inst1, inst2}
MCBaseOf == [i \in MCInstances |-> dungeon]
=============================================================================
