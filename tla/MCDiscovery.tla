---------------------------- MODULE MCDiscovery ----------------------------
(***************************************************************************)
(* Two sessions, the second started from a terminal of the first, so that  *)
(* the hook of the second has both among its ancestors.                    *)
(***************************************************************************)
EXTENDS Discovery, TLC

CONSTANTS outer, inner

BothSessions == {outer, inner}
Nested == (outer :> <<outer>>) @@ (inner :> <<inner, outer>>)

PidSymmetry == Permutations(Pids)
=============================================================================
