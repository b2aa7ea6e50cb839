----------------------------- MODULE MCCollects -----------------------------
(***************************************************************************)
(* Instances for TLC of the two modules on what becomes of the log of an   *)
(* instance: Collects (two views and two values), and Batches (three       *)
(* leaders, six digests).  They share nothing, so a behaviour is one of    *)
(* either.                                                                 *)
(***************************************************************************)
EXTENDS Collects, Batches

CONSTANTS v1, v2

Pairs == [ts : {0, 1}, value : {v1, v2}]

\* What is said of instance 1, and a COLLECT of a replica still at instance 0.
MCCollect ==
  [proof : {0}, executing : {1},
   writeSet : {<< >>} \cup {<<p>> : p \in Pairs} \cup {<<p, p>> : p \in Pairs},
   quorumPrepares : Pairs \cup {NoPair}]
    \cup [proof : {NoProof}, executing : {0}, writeSet : {<< >>}, quorumPrepares : {NoPair}]

MCLeaders == <<1, 2, 3>>

\* Batches of one and two requests in and outside the slices, and the empty one.
MCBatch == {<< >>, <<1, 0>>, <<2>>, <<2, 1>>, <<3, 2>>, <<5, 4>>}

MCVotes == {[kind |-> "Prepare"], [kind |-> "Commit"]}

MCInit == CollectInit /\ BatchInit

MCNext ==
  \/ BatchInit /\ CollectNext /\ UNCHANGED batchVars
  \/ CollectInit /\ BatchNext /\ UNCHANGED collects

MCSpec == MCInit /\ [][MCNext]_<<collects, log, received, proof, executed, copy>>
=============================================================================
