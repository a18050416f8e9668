---------------------------- MODULE MCLifecycle ----------------------------
(* Small instances of the tunnel life cycle.                                 *)
EXTENDS Lifecycle, TLC

CONSTANTS n1, h1, h2, detector

MCNames == {n1}
MCHandlers == {h1, h2}
MCOneHandler == {h1}
MCCrossing == {"start", "delete"}
MCWatched == {"start", "view", "import", "create", "update"}
(* told is written and never read, so the safety run tells no two states     *)
(* apart by it alone; the handlers are interchangeable.                      *)
MCView == <<store, source, world, memory, mishaps, local, todo>>
MCSymmetry == Permutations(MCHandlers)
=============================================================================
