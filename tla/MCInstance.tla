----------------------------- MODULE MCInstance -----------------------------
(***************************************************************************)
(* Instances of Instance for TLC: four replicas, one of them faulty.       *)
(***************************************************************************)
EXTENDS Instance, TLC

CONSTANTS r1, r2, r3, r4, b1, b2, b3

MCReplica == {r1, r2, r3, r4}

\* r4 is the faulty leader: the correct replicas are interchangeable, and so
\* are the batches.
MCSymmetry == Permutations({r1, r2, r3}) \cup Permutations({b1, b2})
=============================================================================
