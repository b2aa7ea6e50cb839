------------------------------ MODULE MCReplica -----------------------------
(***************************************************************************)
(* Instances of Replica for TLC: replica 1 of four, which leads every      *)
(* fourth view from view 1 on.                                             *)
(***************************************************************************)
EXTENDS Replica, TLC

CONSTANT b1

MCMembers == <<0, 1, 2, 3>>

Ballot(kind, p, v, seq) == Vote(kind, p, v, seq, [l \in {LeaderOf(v)} |-> b1])

\* The votes of p for the instances first..last, in order.
Ballots(p, v, first, last) ==
  [i \in 1..(2 * (last - first + 1)) |->
     Ballot(IF i % 2 = 1 THEN "Prepare" ELSE "Commit", p, v, first + (i - 1) \div 2)]

Stop(p, v) == <<[kind |-> "Stop", from |-> p, to |-> Self, view |-> v, rqs |-> 0]>>

StopData(p, v, proof) ==
  <<[kind |-> "StopData", from |-> p, to |-> Self, view |-> v, proof |-> proof]>>

Sync(p, v, proof, seq) ==
  <<[kind |-> "Sync", from |-> p, to |-> Self, view |-> v, proof |-> proof, sound |-> TRUE,
     empty |-> FALSE, forged |-> seq]>>

Chan(c0, c2, c3) == (0 :> c0) @@ (2 :> c2) @@ (3 :> c3)

\* The replica comes to lead view 1; the others have nothing of view 0, have
\* prepared instance 1 in it, or decided it.
LeadsFresh ==
  LET sends(p) == Stop(p, 1) \o StopData(p, 1, 0) \o Ballots(p, 1, 1, 2)
  IN  Chan(<<PrePrepare(0, 1, b1)>>, sends(2), sends(3))

LeadsPrepared ==
  LET sends(p) == <<Ballot("Prepare", p, 0, 1)>> \o Stop(p, 1) \o StopData(p, 1, 0)
                    \o Ballots(p, 1, 1, 1)
  IN  Chan(<<PrePrepare(0, 1, b1)>>, sends(2), sends(3))

LeadsDecided ==
  LET sends(p) == Ballots(p, 0, 1, 1) \o Stop(p, 1) \o StopData(p, 1, 1) \o Ballots(p, 1, 2, 2)
  IN  Chan(<<PrePrepare(0, 1, b1)>>, sends(2), sends(3))

\* It leads view 5, and replica 2 comes to lead view 6, with nothing of view 5,
\* with instance 1 prepared, with it decided, or with instance 2 decided too.
FollowsFresh ==
  Chan(Stop(0, 6) \o Ballots(0, 6, 1, 2),
       Stop(2, 6) \o Sync(2, 6, 0, 1) \o Ballots(2, 6, 1, 1) \o <<PrePrepare(6, 2, b1)>>
         \o Ballots(2, 6, 2, 2),
       << >>)

FollowsPrepared ==
  Chan(<<Ballot("Prepare", 0, 5, 1)>> \o Stop(0, 6) \o Ballots(0, 6, 1, 1),
       Stop(2, 6) \o Sync(2, 6, 0, 1) \o Ballots(2, 6, 1, 1),
       << >>)

FollowsDecided ==
  Chan(Ballots(0, 5, 1, 1) \o Stop(0, 6), Ballots(2, 5, 1, 1) \o Stop(2, 6) \o Sync(2, 6, 1, 2),
       << >>)

FollowsFar ==
  Chan(Stop(0, 6) \o Ballots(0, 6, 3, 3), Stop(2, 6) \o Sync(2, 6, 2, 3) \o Ballots(2, 6, 3, 3),
       << >>)

\* The same with the protocol suspended once, at any time.
FollowsSuspended ==
  Chan(Stop(0, 6) \o Ballots(0, 6, 2, 2), Stop(2, 6) \o Sync(2, 6, 1, 2) \o Ballots(2, 6, 2, 2),
       << >>)

\* It follows in view 8, and the others are ahead of its window.
Orders ==
  Chan([seq \in 1..3 |-> PrePrepare(8, seq, b1)], Ballots(2, 8, 1, 3), Ballots(3, 8, 1, 3))

From(view, chans, last, times) ==
  [view : {view}, chan : chans, upto : {last}, suspensions : {times}]

MCStart ==
  UNION {From(0, {LeadsFresh, LeadsDecided}, 2, 0),
         From(0, {LeadsPrepared}, 1, 0),
         From(5, {FollowsFresh}, 2, 0),
         From(5, {FollowsPrepared, FollowsDecided}, 1, 0),
         From(5, {FollowsFar}, 3, 0),
         From(5, {FollowsSuspended}, 2, 1),
         From(8, {Orders}, 3, 0)}
=============================================================================
