------------------------------- MODULE Sound --------------------------------
(***************************************************************************)
(* What a new leader may propose: the predicates that decide whether the   *)
(* COLLECTs of a view change bind a value or leave the choice free.  They  *)
(* are the functions at the end of the synchronizer, here on a set of      *)
(* COLLECTs                                                                *)
(*   [from, proof, executing, writeSet, quorumPrepares]                    *)
(* one of each node.  A ViewDecisionPair is a pair [ts, value] of the view *)
(* in which a value was written and its digest.  f is the number of faults *)
(* the view tolerates.                                                     *)
(***************************************************************************)
EXTENDS Integers, FiniteSets, Sequences

NoPair == [ts |-> -1]

NoProof == -1

\* The instance the view change is about: the one after the last proof.
CurrentCid(collects) ==
  LET proofs == {c.proof : c \in collects}
      last   == CHOOSE p \in proofs : \A q \in proofs : q <= p
  IN  last + 1

\* The COLLECTs that are about it.  The others count as COLLECTs of nothing.
Normalized(collects) == {c \in collects : c.executing = CurrentCid(collects)}

Written(c) == {c.writeSet[i] : i \in DOMAIN c.writeSet}

SeqNumbers(collects) ==
  LET wrote(c) == IF c.quorumPrepares = NoPair THEN 0 ELSE c.quorumPrepares.ts
  IN  {wrote(c) : c \in Normalized(collects)}
        \cup {0 : c \in collects \ Normalized(collects)}
        \cup UNION {{p.ts : p \in Written(c)} : c \in Normalized(collects)}

Values(collects) == UNION {{p.value : p \in Written(c)} : c \in Normalized(collects)}

\* The COLLECTs whose last quorum of PREPAREs does not speak against the pair.
NotHigher(collects, ts, value) ==
  {c \in Normalized(collects) :
     /\ c.quorumPrepares # NoPair
     /\ \/ c.quorumPrepares.ts < ts
        \/ c.quorumPrepares.ts = ts /\ c.quorumPrepares.value = value}

\* Mutant of QuorumHighest: a COLLECT that is not higher is not asked for by all.
QuorumHighestOfFew(collects, ts, value, f) ==
  /\ \E c \in Normalized(collects) : c.quorumPrepares = [ts |-> ts, value |-> value]
  /\ Cardinality(NotHigher(collects, ts, value)) > f

QuorumHighest(collects, ts, value, f) ==
  /\ \E c \in Normalized(collects) : c.quorumPrepares = [ts |-> ts, value |-> value]
  /\ Cardinality(NotHigher(collects, ts, value)) >= 2 * f + 1

\* The entries of the write sets that certify the value.
Certificates(collects, ts, value) ==
  UNION {{<<c.from, i>> : i \in {j \in DOMAIN c.writeSet :
            c.writeSet[j].ts >= ts /\ c.writeSet[j].value = value}} : c \in Normalized(collects)}

CertifiedValue(collects, ts, value, f) ==
  Cardinality(Certificates(collects, ts, value)) > f

Binds(collects, ts, value, f) ==
  /\ Cardinality(collects) >= 2 * f + 1
  /\ QuorumHighest(collects, ts, value, f)
  /\ CertifiedValue(collects, ts, value, f)

\* A COLLECT without a quorum of PREPAREs is taken for one of view 0.
Unbound(collects, f) ==
  /\ Cardinality(collects) >= 2 * f + 1
  /\ Cardinality({c \in collects : c \in Normalized(collects) =>
                    c.quorumPrepares = NoPair \/ c.quorumPrepares.ts = 0}) >= 2 * f + 1

\* The values sound() may return as bound: it tries them in the order of a hash set.
BoundValues(collects, f) ==
  {v \in Values(collects) : \E ts \in SeqNumbers(collects) : Binds(collects, ts, v, f)}

\* Sound::test()
IsSound(collects, f) == BoundValues(collects, f) # {} \/ Unbound(collects, f)
=============================================================================
