----------------------------- MODULE MCProposer -----------------------------
(***************************************************************************)
(* Instances of Proposer for TLC: two clients and three requests.          *)
(***************************************************************************)
EXTENDS Proposer

CONSTANTS a, b

Rq(c, s) == [client |-> c, seq |-> s]

\* Client a has two requests, the second of which arrives with b's.
TwoBatches == << <<Rq(a, 1)>>, <<Rq(a, 2), Rq(b, 1)>> >>

\* What the leader of the next view knows of, besides requests of its own.
SomeRequests == {{Rq(a, 1)}, {Rq(a, 1), Rq(b, 1)}, {}}
=============================================================================
