---------------------------- MODULE MCViewChange ----------------------------
(***************************************************************************)
(* Instances of ViewChange for TLC.                                        *)
(***************************************************************************)
EXTENDS ViewChange

FourMembers == <<0, 1, 2, 3>>

FreshLog == [r \in Correct |-> 0]

\* Replica 3 is several decisions behind the others.
LaggingLog == [r \in Correct |-> IF r = 3 THEN 0 ELSE 3]

\* The state transfer a view change asks for brings the view of its leader.
TransferInstalls == [phase : {"SyncingState"}, seq : {1}]

SoundBatch == {[sound |-> TRUE, empty |-> FALSE]}

\* Messages of the other nodes.
StopFrom(n, to, view, rqs) == [kind |-> "Stop", from |-> n, to |-> to, view |-> view, rqs |-> rqs]

JoinFrom(n, to, view, node) ==
  [kind |-> "StopQuorumJoin", from |-> n, to |-> to, view |-> view, node |-> node]

DataFrom(n, to, view, proof) ==
  [kind |-> "StopData", from |-> n, to |-> to, view |-> view, proof |-> proof]

SyncFrom(n, to, view, proof, sound, empty) ==
  [kind |-> "Sync", from |-> n, to |-> to, view |-> view, proof |-> proof,
   sound |-> sound, empty |-> empty]

\* The peers of replica 1, which leads view 1 and follows in view 2: STOPs of
\* both views, one of them twice, STOP-DATA, and a SYNC that is not the leader's.
PeersOfLeader ==
  {StopFrom(0, 1, 1, 1), StopFrom(0, 1, 1, 2), StopFrom(2, 1, 1, 0), StopFrom(3, 1, 1, 0),
   StopFrom(0, 1, 2, 1), StopFrom(3, 1, 2, 0),
   DataFrom(0, 1, 1, 0), DataFrom(2, 1, 1, 1),
   SyncFrom(2, 1, 2, 1, TRUE, FALSE), SyncFrom(3, 1, 2, 1, TRUE, FALSE)}

\* Votes to add node 7, one to add node 8, and STOPs that compete with them.
PeersJoining ==
  {JoinFrom(0, 1, 1, 7), JoinFrom(2, 1, 1, 7), JoinFrom(3, 1, 1, 8),
   StopFrom(0, 1, 1, 1), StopFrom(3, 1, 1, 1),
   DataFrom(0, 1, 1, 0), DataFrom(2, 1, 1, 0)}

\* Either of the two.
PeersOfOne == {PeersOfLeader, PeersJoining}

OneJoins == {[at |-> 1, node |-> 7]}
=============================================================================
