------------------------------- MODULE Guard --------------------------------
(***************************************************************************)
(* The ProposerConsensusGuard: what the replica thread and the proposer    *)
(* thread of one replica share.  The module has no variables; it defines   *)
(* the operations of the guard on a record g with fields                   *)
(*                                                                         *)
(*   seqs        the sequence numbers waiting for a proposal (a min-heap)  *)
(*   view        the view in which they are to be proposed                 *)
(*   canPropose  is the proposer allowed to propose?                       *)
(*                                                                         *)
(* The heap is a set: that make_seq_available never pushes a number that   *)
(* is already in it is an invariant of module Consensus.                   *)
(***************************************************************************)
EXTENDS Integers

InitGuard(view) == [seqs |-> {}, view |-> view, canPropose |-> FALSE]

MakeSeqAvailable(g, seq) == [g EXCEPT !.seqs = @ \cup {seq}]

\* Sequence numbers before the installed one are dropped.
InstallSeqNo(g, seq) == [g EXCEPT !.seqs = {s \in @ : s >= seq}]

\* Mutant of InstallViewInGuard: the numbers of the view before stay available.
InstallViewInGuardOnly(g, view) == [g EXCEPT !.view = view]

InstallViewInGuard(g, view) == [g EXCEPT !.seqs = {}, !.view = view]

ClearGuard(g) == [g EXCEPT !.seqs = {}]

LockConsensus(g) == [g EXCEPT !.canPropose = FALSE]

UnlockConsensus(g) == [g EXCEPT !.canPropose = TRUE]

\* s is what next_seq_no() returns: the smallest available number.
IsNextSeqNo(g, s) == s \in g.seqs /\ \A t \in g.seqs : s <= t

\* Mutant of TakeSeqNo: the number is peeked at, not popped.
PeekSeqNo(g, s) == g

TakeSeqNo(g, s) == [g EXCEPT !.seqs = @ \ {s}]
=============================================================================
