-------------------------- MODULE MCStateTransfer ---------------------------
(***************************************************************************)
(* Instances of StateTransfer for TLC.                                     *)
(***************************************************************************)
EXTENDS StateTransfer

CONSTANTS d1, d2, d3

\* The states at sequence numbers 1 and 2; no correct replica has state d3.
States == [s \in 1..MaxSeq |-> IF s = 1 THEN d1 ELSE d2]

Asks(first, second) ==
  [r \in Correct |-> CASE r = 1 -> first [] r = 2 -> second [] OTHER -> 0]

\* Replica 1 asks repeatedly.
OneAsks == [asks |-> Asks(3, 0), checkpoints |-> 2, digests |-> Digest, faultyAsks |-> {}]

\* Replica 2 asks as well.
TwoAsk == [asks |-> Asks(2, 1), checkpoints |-> 1, digests |-> {d1, d3}, faultyAsks |-> {}]

\* The faulty replica asks replica 2, before and while it asks itself.
FaultyAsk ==
  [asks |-> Asks(0, 2), checkpoints |-> 2, digests |-> {d1},
   faultyAsks |-> [from : Faulty, to : {2}, cst : {1, 2}]]

ThreeBounds == {OneAsks, TwoAsk, FaultyAsk}
=============================================================================
