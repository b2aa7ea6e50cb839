---------------------------- MODULE MCConsensus -----------------------------
(***************************************************************************)
(* Instances of Consensus for TLC: this replica and one other member.      *)
(***************************************************************************)
EXTENDS Consensus

CONSTANTS self, peer, b1

\* This replica leads the odd views.
PeerLeads == <<peer, self>>

Sends(kinds, view, seqs) == [kind : kinds, view : {view}, seq : seqs]

Voting == {"Prepare", "Commit"}

\* View 0 led by the other replica, then view 1 led by this one.
MovesSends ==
  Sends({"PrePrepare"}, 0, {1, 2}) \cup Sends(Voting, 0, {1})
    \cup Sends({"Prepare"}, 0, {3}) \cup Sends({"Prepare"}, 1, {2})
=============================================================================
