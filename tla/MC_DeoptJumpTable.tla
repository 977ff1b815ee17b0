------------------------- MODULE MC_DeoptJumpTable -------------------------
(***************************************************************************)
(* Compilations of functions and stubs with up to three deoptimization    *)
(* sites over three environments, while the entry tables hold at most two *)
(* entries and start at one: the third environment of a compilation has   *)
(* no entry and aborts it, a second environment doubles the table, and    *)
(* stubs mix sites with and without a built frame.                        *)
(***************************************************************************)
EXTENDS DeoptJumpTable, TLC

CONSTANTS p1, p2, p3

MC_Points == {p1, p2, p3}
MC_Symmetry == Permutations(MC_Points)
=============================================================================
