--------------------------- MODULE MCViewHandover ---------------------------
(***************************************************************************)
(* Instances of ViewHandover for TLC: four replicas, one of them faulty.   *)
(***************************************************************************)
EXTENDS ViewHandover

CONSTANTS r1, r2, r3, r4, b1, b2
=============================================================================
