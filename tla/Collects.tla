------------------------------ MODULE Collects ------------------------------
(***************************************************************************)
(* The new leader in phase StoppingData: COLLECTs arrive, one per node, up *)
(* to a quorum, with any contents.  What it then finds, every replica that *)
(* receives them in the SYNC finds again.                                  *)
(***************************************************************************)
EXTENDS Sound

CONSTANTS
  Node,         \* the members of the view
  F,            \* the faults it tolerates
  Collect       \* the contents a COLLECT may have

VARIABLE collects

ASSUME CollectsAssumption ==
  /\ F \in Nat
  /\ \A c \in Collect : /\ {"proof", "executing", "writeSet", "quorumPrepares"} = DOMAIN c
                        /\ c.proof \in Int /\ c.executing \in Int
                        /\ c.quorumPrepares = NoPair \/ c.quorumPrepares.ts \in Nat

CollectInit == collects = {}

StopData(n, c) ==
  /\ Cardinality(collects) < 2 * F + 1
  /\ \A d \in collects : d.from # n
  /\ collects' = collects \cup {[from |-> n, proof |-> c.proof, executing |-> c.executing,
                                 writeSet |-> c.writeSet, quorumPrepares |-> c.quorumPrepares]}

CollectNext == \E n \in Node, c \in Collect : StopData(n, c)

CollectSpec == CollectInit /\ [][CollectNext]_collects

-----------------------------------------------------------------------------
(***************************************************************************)
(* A bound value is the one of the latest view in which any of the         *)
(* COLLECTs has a quorum of PREPAREs for the instance, so no more than one *)
(* is ever bound: the leader, and every replica that repeats what sound()  *)
(* computes, get the same one in whatever order they go through their hash *)
(* sets.  Once a value that was prepared after view 0 is bound the choice  *)
(* is not also free.                                                       *)
(***************************************************************************)
BoundIsLatest ==
  \A v \in BoundValues(collects, F) : \A c \in Normalized(collects) :
    /\ c.quorumPrepares # NoPair
    /\ (\A d \in Normalized(collects) : d.quorumPrepares.ts <= c.quorumPrepares.ts) =>
         c.quorumPrepares.value = v
    /\ c.quorumPrepares.ts > 0 => ~ Unbound(collects, F)
=============================================================================
