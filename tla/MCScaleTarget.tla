--------------------------- MODULE MCScaleTarget ---------------------------
(***************************************************************************)
(* ScaleTarget with two controller processes, as when two pods overlap     *)
(* during a rolling update, and one target that has both a workload and an *)
(* HPA.                                                                    *)
(***************************************************************************)
EXTENDS ScaleTarget, TLC

MCSize == 1..3
MCTargeSizes == {0, 2, 3}

(* The processes run the same code. *)
MCSymmetry == Permutations(Controller)
=============================================================================
