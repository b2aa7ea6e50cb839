------------------------------ MODULE ViewInfo ------------------------------
(***************************************************************************)
(* Views: the ViewInfo struct.  A view is a record with its sequence       *)
(* number and its quorum members, in the order that makes each of them     *)
(* leader in turn.  Nodes are natural numbers, as NodeId is in the code.   *)
(***************************************************************************)
EXTENDS Integers, Sequences

\* ViewInfo::new: the members are the first n nodes.
NewViewInfo(seq, n) == [seq |-> seq, members |-> [i \in 1..n |-> i - 1]]

FromQuorum(seq, members) == [seq |-> seq, members |-> members]

\* The parameters of a view: the faults tolerated and the size of a quorum.
NumFaulty(v) == (Len(v.members) - 1) \div 3

QuorumSize(v) == 2 * NumFaulty(v) + 1

Leader(v) == v.members[(v.seq % Len(v.members)) + 1]

IsMember(v, node) == \E i \in DOMAIN v.members : v.members[i] = node

Peek(v, seq) == NewViewInfo(seq, Len(v.members))

NextView(v) == Peek(v, v.seq + 1)

PreviousView(v) == Peek(v, v.seq - 1)

NextViewWithNewNode(v, node) == FromQuorum(v.seq + 1, Append(v.members, node))
=============================================================================
