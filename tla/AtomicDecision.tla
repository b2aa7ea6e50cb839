--------------------------- MODULE AtomicDecision ---------------------------
(***************************************************************************)
(* What a consensus instance promises its users: every correct replica     *)
(* decides at most once, never changes its mind, and all those that decide *)
(* decide the same digest.  The module says nothing of how; Instance is    *)
(* shown to implement it.                                                  *)
(***************************************************************************)
CONSTANTS Participant, Digest, Undecided

VARIABLE outcome    \* outcome[r]: what r decided, or Undecided

Init == outcome = [r \in Participant |-> Undecided]

Decide(r, v) ==
  /\ outcome[r] = Undecided
  /\ \A s \in Participant : outcome[s] \in {Undecided, v}
  /\ outcome' = [outcome EXCEPT ![r] = v]

Next == \E r \in Participant, v \in Digest : Decide(r, v)

Spec == Init /\ [][Next]_outcome
=============================================================================
