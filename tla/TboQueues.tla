----------------------------- MODULE TboQueues ------------------------------
(***************************************************************************)
(* Queues of messages that are to be ordered: a sequence of queues, the    *)
(* first for the number that comes next, the second for the one after it,  *)
(* and so on.  Both the consensus and the synchronizer keep such queues.   *)
(***************************************************************************)
EXTENDS Integers, Sequences

Larger(a, b) == IF a < b THEN b ELSE a

\* Message m added to the i-th of a sequence of queues, which grows as needed.
Put(queues, i, m) ==
  LET old(j) == IF j <= Len(queues) THEN queues[j] ELSE << >>
  IN  [j \in 1..Larger(Len(queues), i) |-> IF j = i THEN Append(old(j), m) ELSE old(j)]

\* The queues after the first n have been dropped.
DropQueues(queues, n) == SubSeq(queues, n + 1, Len(queues))
=============================================================================
