--------------------------- MODULE ProposalProofs ---------------------------
(***************************************************************************)
(* What is proposed, and what becomes of it.  Each part is about a module  *)
(* of its own.                                                             *)
(*                                                                         *)
(* Batches: for any number of leaders and any digest length, the slices of *)
(* the hash space are a partition of it, no request is twice in the        *)
(* batches of an instance, and the order of arrival of the batches does    *)
(* not show in what is decided.                                            *)
(*                                                                         *)
(* Collects: for any number of nodes, views and values, what sound() binds *)
(* is the latest.                                                          *)
(*                                                                         *)
(* Proposer: for any requests, any number of views, view changes and       *)
(* suspensions, and any way in which the steps of the two threads          *)
(* interleave.  The thread never looks at the view and at the sequence     *)
(* numbers together.  That it still proposes only where it leads rests on  *)
(* the guard: the numbers in it are those of a view the replica leads      *)
(* (Led).  That it stops rests on there being two checks of the lock:      *)
(* while the view changes the lock is closed, and only a thread that is    *)
(* past the second check has a proposal left to begin (Stopped).           *)
(***************************************************************************)
EXTENDS Collects, Batches, Proposer, FiniteSetTheorems, TLAPS

USE SMTT(120)

LEMMA IncrementNat ==
  ASSUME NEW e \in Nat, NEW n \in Nat \ {0}
  PROVE  /\ Increment(e, n) \in Nat
         /\ n * Increment(e, n) <= e
         /\ e < n * Increment(e, n) + n
BY SMT DEF Increment

\* The slices of two leaders of divide_hash_space() have no digest in common.
THEOREM SlicesDisjoint ==
  ASSUME NEW e \in Nat, NEW n \in Nat \ {0}, NEW i \in 1..n, NEW j \in 1..n, i < j,
         NEW d \in Nat, IsRequestInHashSpace(d, Slice(e, n, i))
  PROVE  ~ IsRequestInHashSpace(d, Slice(e, n, j))
<1> DEFINE w == Increment(e, n) + 1
<1>1. w \in Nat
  <2>1. Increment(e, n) \in Nat
    BY IncrementNat
  <2> QED
    BY <2>1
<1>2. d <= (i - 1) * w + (w - 1)
  <2>1. i # n
    OBVIOUS
  <2>2. Slice(e, n, i).end = (i - 1) * w + Increment(e, n)
    BY <2>1 DEF Slice, SliceStart
  <2> QED
    BY <2>2, IncrementNat DEF IsRequestInHashSpace
<1>3. (j - 1) * w >= i * w
  <2>1. PICK k \in Nat : j - 1 = i + k
    <3>1. j - 1 - i \in Nat
      OBVIOUS
    <3> QED
      BY <3>1
  <2>2. (j - 1) * w = i * w + k * w
    BY <1>1, <2>1
  <2>3. k * w \in Nat
    BY <1>1, <2>1
  <2> QED
    BY <1>1, <2>2, <2>3
<1>4. i * w = (i - 1) * w + w
  BY <1>1
<1>5. Slice(e, n, j).start = (j - 1) * w
  BY DEF Slice, SliceStart
<1>6. d < (j - 1) * w
  <2> HIDE DEF w
  <2>1. (i - 1) * w \in Int /\ i * w \in Int /\ (j - 1) * w \in Int
    BY <1>1
  <2> QED
    BY <1>1, <1>2, <1>3, <1>4, <2>1
<1>7. (j - 1) * w \in Int
  <2> HIDE DEF w
  <2> QED
    BY <1>1
<1> HIDE DEF w
<1> QED
  BY <1>5, <1>6, <1>7 DEF IsRequestInHashSpace

\* Every digest lies in the slice of a leader, so no request is left that no
\* leader may propose.
THEOREM SlicesCover ==
  ASSUME NEW e \in Nat, NEW n \in Nat \ {0}, NEW d \in 0..e
  PROVE  \E i \in 1..n : IsRequestInHashSpace(d, Slice(e, n, i))
<1> DEFINE w == Increment(e, n) + 1
           k == d \div w
<1>1. w \in Nat \ {0}
  <2>1. Increment(e, n) \in Nat
    BY IncrementNat
  <2> QED
    BY <2>1
<1>2. k \in Nat /\ k * w <= d /\ d < k * w + w
  <2> HIDE DEF w
  <2> QED
    BY <1>1
<1>3. CASE k < n - 1
  <2>1. k + 1 \in 1..n /\ k + 1 # n
    BY <1>2, <1>3
  <2>2. /\ Slice(e, n, k + 1).start = k * w
        /\ Slice(e, n, k + 1).end = k * w + (w - 1)
    <3> HIDE DEF k
    <3> QED
      BY <1>2, <2>1, IncrementNat DEF Slice, SliceStart
  <2>3. IsRequestInHashSpace(d, Slice(e, n, k + 1))
    <3> HIDE DEF w, k
    <3>1. k * w \in Nat
      BY <1>1, <1>2
    <3> QED
      BY <1>1, <1>2, <2>2, <3>1 DEF IsRequestInHashSpace
  <2> QED
    BY <2>1, <2>3
<1>4. CASE k >= n - 1
  <2>1. Slice(e, n, n).start = (n - 1) * w /\ Slice(e, n, n).end = e
    BY DEF Slice, SliceStart
  <2>2. (n - 1) * w <= k * w
    <3> HIDE DEF w, k
    <3>1. PICK m \in Nat : k = (n - 1) + m
      <4>1. k - (n - 1) \in Nat
        BY <1>2, <1>4
      <4> QED
        BY <4>1, <1>2
    <3>2. k * w = (n - 1) * w + m * w
      BY <1>1, <3>1
    <3>3. m * w \in Nat
      BY <1>1, <3>1
    <3> QED
      BY <1>1, <3>2, <3>3
  <2>3. IsRequestInHashSpace(d, Slice(e, n, n))
    <3> HIDE DEF w, k
    <3>1. k * w \in Int /\ (n - 1) * w \in Int
      BY <1>1, <1>2
    <3> QED
      BY <1>2, <2>1, <2>2, <3>1 DEF IsRequestInHashSpace
  <2> QED
    BY <2>3
<1> QED
  BY <1>2, <1>3, <1>4

-----------------------------------------------------------------------------
\* What a log holds of a leader lies in the slice of that leader.
HeldInSlice ==
  \A r \in Replica, i \in Position :
    log[r].batches[i] # NoBatch =>
      log[r].batches[i] \in Batch /\ InSlice(i, log[r].batches[i])

LogType ==
  log \in [Replica -> [batches : [Position -> Batch \cup {NoBatch}], clientRqs : Seq(0..MaxDigest)]]

BatchesInv == LogType /\ HeldInSlice

LEMMA BatchesInitInv == BatchInit => BatchesInv
BY DEF BatchInit, BatchesInv, LogType, HeldInSlice

LEMMA BatchesNextInv == BatchesInv /\ [BatchNext]_batchVars => BatchesInv'
<1> SUFFICES ASSUME BatchesInv, [BatchNext]_batchVars PROVE BatchesInv'
  OBVIOUS
<1>1. ASSUME NEW r \in Replica, NEW i \in Position, NEW batch \in Batch,
             ProcessPrePrepare(r, i, batch)
      PROVE  BatchesInv'
  <2>1. log' = [log EXCEPT ![r] = [batches |-> [log[r].batches EXCEPT ![i] = batch],
                                   clientRqs |-> log[r].clientRqs \o batch]]
    BY <1>1 DEF ProcessPrePrepare, BatchesInv, LogType
  <2>2. batch \in Seq(0..MaxDigest) /\ log[r].clientRqs \o batch \in Seq(0..MaxDigest)
    BY BatchesAssumption DEF BatchesInv, LogType
  <2>3. LogType'
    BY <2>1, <2>2 DEF BatchesInv, LogType
  <2>4. HeldInSlice'
    <3> SUFFICES ASSUME NEW s \in Replica, NEW j \in Position,
                        log'[s].batches[j] # NoBatch
                 PROVE  log'[s].batches[j] \in Batch /\ InSlice(j, log'[s].batches[j])
      BY DEF HeldInSlice, InSlice, Requests, SliceOf
    <3>1. CASE s = r /\ j = i
      BY <1>1, <2>1, <3>1 DEF ProcessPrePrepare, BatchesInv, LogType
    <3>2. CASE ~ (s = r /\ j = i)
      <4>1. log'[s].batches[j] = log[s].batches[j]
        BY <2>1, <3>2 DEF BatchesInv, LogType
      <4> QED
        BY <4>1 DEF BatchesInv, HeldInSlice
    <3> QED
      BY <3>1, <3>2
  <2> QED
    BY <2>3, <2>4 DEF BatchesInv
<1>2. CASE log' = log
  BY <1>2 DEF BatchesInv, LogType, HeldInSlice, InSlice, Requests, SliceOf
<1>3. ASSUME NEW r \in Replica, \/ Finish(r)
                               \/ \E order \in Orders : Rebuild(r, order) \/ Reorder(r, order)
      PROVE  log' = log
  BY ZenonT(60), <1>3 DEF Finish, Rebuild, Reorder
<1> QED
  BY <1>1, <1>2, <1>3 DEF BatchNext, batchVars

LEMMA BatchesInvImplies == BatchesInv => NoRequestTwice
<1> SUFFICES ASSUME BatchesInv, NEW r \in Replica, NEW i \in Position, NEW j \in Position, i # j,
                    log[r].batches[i] # NoBatch, log[r].batches[j] # NoBatch,
                    NEW d, d \in Requests(log[r].batches[i]), d \in Requests(log[r].batches[j])
             PROVE  FALSE
  BY DEF NoRequestTwice
<1>1. /\ IsRequestInHashSpace(d, SliceOf(i))
      /\ IsRequestInHashSpace(d, SliceOf(j))
  BY DEF BatchesInv, HeldInSlice, InSlice
<1>2. d \in Nat
  <2>1. log[r].batches[i] \in Seq(0..MaxDigest)
    BY BatchesAssumption DEF BatchesInv, HeldInSlice
  <2> QED
    BY <2>1, BatchesAssumption DEF Requests
<1>3. Len(LeaderSet) \in Nat \ {0} /\ MaxDigest \in Nat
  BY BatchesAssumption
<1>4. i \in 1..Len(LeaderSet) /\ j \in 1..Len(LeaderSet)
  BY DEF Position
<1>5. i < j \/ j < i
  BY <1>3, <1>4
<1> QED
  BY <1>1, <1>2, <1>3, <1>4, <1>5, SlicesDisjoint DEF SliceOf

(***************************************************************************)
(* However many leaders propose to an instance and in whatever order their *)
(* PRE-PREPAREs come, no request is in the batches of two of them.         *)
(***************************************************************************)
THEOREM NoRequestTwiceHolds == BatchSpec => []NoRequestTwice
<1>1. BatchInit => BatchesInv
  BY BatchesInitInv
<1>2. BatchesInv /\ [BatchNext]_batchVars => BatchesInv'
  BY BatchesNextInv
<1>3. BatchesInv => NoRequestTwice
  BY BatchesInvImplies
<1> QED
  BY <1>1, <1>2, <1>3, PTL DEF BatchSpec
-----------------------------------------------------------------------------
\* The log holds what was received, and a finished one what is decided.
ArrivalInv ==
  /\ DOMAIN log = Replica /\ DOMAIN received = Replica
  /\ DOMAIN proof = Replica /\ DOMAIN executed = Replica
  /\ \A r \in Replica :
       /\ received[r] = [i \in Position |-> received[r][i]]
       /\ log[r].batches = received[r]
       /\ DOMAIN log[r] = {"batches", "clientRqs"}
       /\ proof[r] # Unfinished =>
            /\ \A i \in Position : received[r][i] # NoBatch
            /\ proof[r].ordering = received[r]
            /\ executed[r] = FlattenSeq(received[r])

LEMMA ArrivalInit == BatchInit => ArrivalInv
BY DEF BatchInit, ArrivalInv

LEMMA ArrivalNext == ArrivalInv /\ [BatchNext]_batchVars => ArrivalInv'
<1> SUFFICES ASSUME ArrivalInv, [BatchNext]_batchVars PROVE ArrivalInv'
  OBVIOUS
<1>1. ASSUME NEW r \in Replica, NEW i \in Position, NEW batch \in Batch,
             ProcessPrePrepare(r, i, batch)
      PROVE  ArrivalInv'
  <2>1. proof[r] = Unfinished
    BY <1>1 DEF ProcessPrePrepare, ArrivalInv, HasAll
  <2>2. /\ log' = [log EXCEPT ![r] = [batches |-> [log[r].batches EXCEPT ![i] = batch],
                                      clientRqs |-> log[r].clientRqs \o batch]]
        /\ received' = [received EXCEPT ![r] = [received[r] EXCEPT ![i] = batch]]
        /\ UNCHANGED <<proof, executed>>
    BY <1>1 DEF ProcessPrePrepare, ArrivalInv
  <2>3. /\ log'[r].batches = received'[r]
        /\ received'[r] = [j \in Position |-> received'[r][j]]
        /\ DOMAIN log'[r] = {"batches", "clientRqs"}
        /\ DOMAIN log' = Replica /\ DOMAIN received' = Replica
    <3> DEFINE old == received[r]
               new == [old EXCEPT ![i] = batch]
    <3>1. /\ old = [j \in Position |-> old[j]] /\ log[r].batches = old
          /\ DOMAIN log = Replica /\ DOMAIN received = Replica
      BY DEF ArrivalInv
    <3> HIDE DEF old
    <3>2. new = [j \in Position |-> new[j]]
      BY <3>1
    <3> HIDE DEF new
    <3>3. /\ log' = [log EXCEPT ![r] = [batches |-> new, clientRqs |-> log[r].clientRqs \o batch]]
          /\ received' = [received EXCEPT ![r] = new]
      BY ZenonT(60), <2>2, <3>1 DEF old, new
    <3>4. log'[r].batches = new /\ received'[r] = new /\ DOMAIN log'[r] = {"batches", "clientRqs"}
      BY <3>1, <3>3
    <3> QED
      BY ZenonT(60), <3>1, <3>2, <3>3, <3>4
  <2>4. \A s \in Replica \ {r} : log'[s] = log[s] /\ received'[s] = received[s]
    BY <2>2 DEF ArrivalInv
  <2> QED
    BY ZenonT(60), <2>1, <2>2, <2>3, <2>4 DEF ArrivalInv
<1>2. ASSUME NEW r \in Replica, Finish(r)
      PROVE  ArrivalInv'
  <2>1. /\ proof' = [proof EXCEPT ![r] = Proof(log[r].batches, Len(FlattenSeq(log[r].batches)),
                                               CompletedBatch(log[r]).prePrepares, Votes)]
        /\ executed' = [executed EXCEPT ![r] = FlattenSeq(log[r].batches)]
        /\ HasAll(log[r]) /\ UNCHANGED <<log, received>>
    BY <1>2 DEF Finish, CompletedBatch
  <2>2. proof'[r].ordering = log[r].batches /\ executed'[r] = FlattenSeq(log[r].batches)
    BY <2>1 DEF Proof, ArrivalInv
  <2>3. \A s \in Replica \ {r} : proof'[s] = proof[s] /\ executed'[s] = executed[s]
    BY <2>1 DEF ArrivalInv
  <2>4. DOMAIN proof' = Replica /\ DOMAIN executed' = Replica
    BY <2>1 DEF ArrivalInv
  <2>5. \A i \in Position : received[r][i] # NoBatch
    BY <2>1 DEF HasAll, ArrivalInv
  <2> QED
    BY ZenonT(60), <2>1, <2>2, <2>3, <2>4, <2>5 DEF ArrivalInv
<1>3. ASSUME NEW r \in Replica, \E order \in Orders : Rebuild(r, order) \/ Reorder(r, order)
      PROVE  UNCHANGED <<log, received, proof, executed>>
  BY ZenonT(60), <1>3 DEF Rebuild, Reorder
<1>4. CASE UNCHANGED <<log, received, proof, executed>>
  BY ZenonT(60), <1>4 DEF ArrivalInv
<1> QED
  BY <1>1, <1>2, <1>3, <1>4 DEF BatchNext, batchVars

(***************************************************************************)
(* Replicas that have been sent the same batches vote for the same digest  *)
(* and execute the same requests in the same order: process_message() puts *)
(* each batch in the place of its leader, so that what finalize_batch()    *)
(* makes of the log does not depend on the order of arrival.               *)
(***************************************************************************)
THEOREM SameBatchesSameOrderHolds == BatchSpec => []SameBatchesSameOrder
<1>1. BatchInit => ArrivalInv
  BY ArrivalInit
<1>2. ArrivalInv /\ [BatchNext]_batchVars => ArrivalInv'
  BY ArrivalNext
<1>3. ArrivalInv => SameBatchesSameOrder
  BY ZenonT(60) DEF ArrivalInv, SameBatchesSameOrder
<1> QED
  BY <1>1, <1>2, <1>3, PTL DEF BatchSpec
-----------------------------------------------------------------------------
\* The leader waits for a quorum of COLLECTs and takes no more, and the last
\* quorum of PREPAREs of each has a view.
CollectsInv ==
  /\ IsFiniteSet(collects) /\ Cardinality(collects) <= 2 * F + 1
  /\ \A c \in collects : c.quorumPrepares = NoPair \/ c.quorumPrepares.ts \in Nat

\* Of at most 2f + 1 COLLECTs, 2f + 1 are all.
LEMMA QuorumIsAll ==
  ASSUME CollectsInv, NEW C \in SUBSET collects, Cardinality(C) >= 2 * F + 1
  PROVE  C = collects
<1>1. IsFiniteSet(collects) /\ IsFiniteSet(C)
  BY FS_Subset DEF CollectsInv
<1>2. Cardinality(C) \in Nat /\ Cardinality(collects) \in Nat
  BY <1>1, FS_CardinalityType
<1>3. F \in Nat
  BY CollectsAssumption
<1>4. Cardinality(C) = Cardinality(collects) \/ Cardinality(C) > Cardinality(collects)
  BY <1>2, <1>3 DEF CollectsInv
<1> QED
  BY <1>1, <1>2, <1>4, FS_Subset

LEMMA CollectsInvInductive ==
  ASSUME CollectsInv, [CollectNext]_collects
  PROVE  CollectsInv'
<1>1. ASSUME NEW n \in Node, NEW c \in Collect, StopData(n, c)
      PROVE  CollectsInv'
  <2> DEFINE d == [from |-> n, proof |-> c.proof, executing |-> c.executing,
                   writeSet |-> c.writeSet, quorumPrepares |-> c.quorumPrepares]
  <2>1. collects' = collects \cup {d}
    BY <1>1 DEF StopData
  <2>2. d.quorumPrepares = NoPair \/ d.quorumPrepares.ts \in Nat
    BY CollectsAssumption
  <2>3. Cardinality(collects) \in Nat
    BY FS_CardinalityType DEF CollectsInv
  <2> HIDE DEF d
  <2>4. /\ IsFiniteSet(collects')
        /\ Cardinality(collects') \in {Cardinality(collects), Cardinality(collects) + 1}
    BY <2>1, FS_AddElement DEF CollectsInv
  <2>5. F \in Nat
    BY CollectsAssumption
  <2>6. Cardinality(collects') <= 2 * F + 1
    BY <1>1, <2>3, <2>4, <2>5 DEF StopData
  <2> QED
    BY <2>1, <2>2, <2>4, <2>6 DEF CollectsInv
<1>2. CASE UNCHANGED collects
  BY <1>2 DEF CollectsInv
<1> QED
  BY <1>1, <1>2 DEF CollectNext

LEMMA InitCollects == CollectInit => CollectsInv
<1>1. SUFFICES ASSUME CollectInit PROVE CollectsInv
  OBVIOUS
<1>2. IsFiniteSet(collects) /\ Cardinality(collects) = 0
  BY <1>1, FS_EmptySet DEF CollectInit
<1> QED
  BY <1>1, <1>2, CollectsAssumption DEF CollectInit, CollectsInv

\* A bound value has a view in which it was prepared, and no COLLECT speaks
\* against it.
LEMMA BoundIsNotContradicted ==
  ASSUME CollectsInv, NEW v \in BoundValues(collects, F)
  PROVE  \E ts \in Nat :
           /\ \E c \in Normalized(collects) : c.quorumPrepares = [ts |-> ts, value |-> v]
           /\ NotHigher(collects, ts, v) = collects
<1>1. PICK ts \in SeqNumbers(collects) : QuorumHighest(collects, ts, v, F)
  BY DEF BoundValues, Binds
<1>2. PICK c \in Normalized(collects) : c.quorumPrepares = [ts |-> ts, value |-> v]
  BY <1>1 DEF QuorumHighest
<1>3. NotHigher(collects, ts, v) \in SUBSET collects
  BY DEF NotHigher, Normalized
<1>4. NotHigher(collects, ts, v) = collects
  BY <1>1, <1>3, QuorumIsAll DEF QuorumHighest
<1>5. c.quorumPrepares # NoPair
  BY <1>2, <1>4 DEF Normalized, NotHigher
<1>6. ts \in Nat
  <2>1. c.quorumPrepares.ts \in Nat
    BY <1>2, <1>5 DEF CollectsInv, Normalized
  <2> QED
    BY <1>2, <2>1
<1> QED
  BY <1>2, <1>4, <1>6

LEMMA BoundIsLatestInductive == CollectsInv => BoundIsLatest
<1>1. SUFFICES ASSUME CollectsInv, NEW v \in BoundValues(collects, F),
                      NEW c \in Normalized(collects)
               PROVE  /\ c.quorumPrepares # NoPair
                      /\ (\A d \in Normalized(collects) :
                             d.quorumPrepares.ts <= c.quorumPrepares.ts) =>
                           c.quorumPrepares.value = v
                      /\ c.quorumPrepares.ts > 0 => ~ Unbound(collects, F)
  BY DEF BoundIsLatest
<1>2. PICK ts \in Nat :
        /\ \E d \in Normalized(collects) : d.quorumPrepares = [ts |-> ts, value |-> v]
        /\ NotHigher(collects, ts, v) = collects
  BY ZenonT(60), <1>1, BoundIsNotContradicted
<1>3. /\ c.quorumPrepares # NoPair
      /\ \/ c.quorumPrepares.ts < ts
         \/ c.quorumPrepares.ts = ts /\ c.quorumPrepares.value = v
  BY <1>2 DEF NotHigher, Normalized
<1>4. c.quorumPrepares.ts \in Nat
  BY <1>1, <1>3 DEF CollectsInv, Normalized
<1>5. ASSUME \A d \in Normalized(collects) : d.quorumPrepares.ts <= c.quorumPrepares.ts
      PROVE  c.quorumPrepares.value = v
  <2>1. ts <= c.quorumPrepares.ts
    BY <1>2, <1>5
  <2> QED
    BY <1>3, <1>4, <2>1
<1>6. ASSUME c.quorumPrepares.ts > 0, Unbound(collects, F)
      PROVE  FALSE
  <2> DEFINE free == {d \in collects : d \in Normalized(collects) =>
                        d.quorumPrepares = NoPair \/ d.quorumPrepares.ts = 0}
  <2>1. free \in SUBSET collects /\ Cardinality(free) >= 2 * F + 1
    BY <1>6 DEF Unbound
  <2>2. free = collects
    <3> HIDE DEF free
    <3> QED
      BY <1>1, <2>1, QuorumIsAll
  <2>3. c \in free
    BY <2>2 DEF Normalized
  <2> QED
    BY <1>3, <1>4, <1>6, <2>3
<1> QED
  BY <1>3, <1>5, <1>6

(***************************************************************************)
(* A value that sound() binds is the one prepared in the latest view any   *)
(* of the COLLECTs reports, so the leader and the replicas that repeat its *)
(* computation on the COLLECTs of the SYNC bind the same one.  It holds    *)
(* because process_message() stops at a quorum of COLLECTs: then           *)
(* quorum_highest() asks all of them.                                      *)
(***************************************************************************)
THEOREM BoundIsLatestHolds == CollectSpec => []BoundIsLatest
<1>1. CollectInit => CollectsInv
  BY InitCollects
<1>2. CollectsInv /\ [CollectNext]_collects => CollectsInv'
  BY CollectsInvInductive
<1>3. CollectsInv => BoundIsLatest
  BY BoundIsLatestInductive
<1> QED
  BY <1>1, <1>2, <1>3, PTL DEF CollectSpec

-----------------------------------------------------------------------------
Shape ==
  /\ guard \in [seqs : SUBSET Nat, view : Nat, canPropose : BOOLEAN]
  /\ view \in Nat /\ nextSeq \in Nat /\ sinceStop \in Nat
  /\ proposal = [view |-> proposal.view, seq |-> proposal.seq, batch |-> proposal.batch]

Led == guard.seqs # {} => guard.view \in leads

Stopped ==
  /\ mode = "Normal" => sinceStop = 0
  /\ mode # "Normal" => ~ guard.canPropose
  /\ sinceStop # 0 => pc # "nextSeq"
  /\ sinceStop <= 1

ProposerInv == Shape /\ Led /\ Stopped /\ LeadsWhatItProposes

-----------------------------------------------------------------------------
LEMMA InitInv ==
  ASSUME Init
  PROVE  ProposerInv
BY DEF Init, InitGuard, NoProposal, ProposerInv, Shape, Led, Stopped, LeadsWhatItProposes

\* The replica thread.  The lock is opened only where the view is not changing.
LEMMA ReplicaThreadInv ==
  ASSUME ProposerInv, ReplicaThread
  PROVE  ProposerInv'
<1> USE DEF ProposerInv, Shape, Led, Stopped, LeadsWhatItProposes, threadVars
<1>1. CASE ExecutionSuspended
  BY ZenonT(60), <1>1 DEF ExecutionSuspended, LockConsensus
<1>2. CASE ExecutionResumed
  BY ZenonT(60), <1>2 DEF ExecutionResumed, Unlock, UnlockConsensus
<1>3. CASE MakeAvailable
  BY <1>3 DEF MakeAvailable, MakeSeqAvailable
<1>4. CASE SwitchToSync
  BY ZenonT(60), <1>4 DEF SwitchToSync, LockConsensus
<1>5. CASE AdvanceView
  BY <1>5 DEF AdvanceView
<1>6. CASE InstallView
  BY ZenonT(60), <1>6 DEF InstallView, InstallViewInGuard
<1>7. ASSUME NEW rqs \in SyncBatches, InstallSyncMessageRequests(rqs)
      PROVE  ProposerInv'
  BY <1>7 DEF InstallSyncMessageRequests
<1>8. CASE FinishViewChange
  <2>1. /\ guard' \in [seqs : SUBSET Nat, view : Nat, canPropose : BOOLEAN]
        /\ guard'.seqs = guard.seqs /\ guard'.view = guard.view
    BY ZenonT(60), <1>8 DEF FinishViewChange, Unlock, UnlockConsensus
  <2> QED
    BY <1>8, <2>1 DEF FinishViewChange, Unlock
<1> QED
  BY ZenonT(60), <1>1, <1>2, <1>3, <1>4, <1>5, <1>6, <1>7, <1>8 DEF ReplicaThread, FinalizeViewChange

\* The steps of the proposer thread that take no sequence number.
LEMMA ProposerThreadInv ==
  ASSUME ProposerInv, ProposerThread \/ TimePasses,
         \A s \in guard.seqs : ~ NextSeqNo(s)
  PROVE  ProposerInv'
<1> USE DEF ProposerInv, Shape, Led, Stopped, LeadsWhatItProposes, shared, threadVars,
            replicaVars, Goto
<1>1. CASE Check
  BY <1>1 DEF Check
<1>2. CASE BlockUntilReady
  BY <1>2 DEF BlockUntilReady
<1>3. CASE ReadView
  BY <1>3 DEF ReadView
<1>4. CASE Receive
  BY <1>4 DEF Receive
<1>5. CASE ReceiveTimesOut
  BY <1>5 DEF ReceiveTimesOut
<1>6. CASE ProcessReceived
  BY <1>6 DEF ProcessReceived
<1>7. CASE CheckAgain
  BY <1>7 DEF CheckAgain
<1>8. CASE NoSeqNo
  BY <1>8 DEF NoSeqNo
<1>9. CASE LoadPending
  BY <1>9 DEF LoadPending
<1>10. CASE Retain
  <2>1. proposal' = [view |-> proposal'.view, seq |-> proposal'.seq, batch |-> proposal'.batch] /\ proposal'.view = proposal.view
    BY <1>10 DEF Retain
  <2> QED
    BY <1>10, <2>1 DEF Retain
<1>11. CASE SyncMessagesClear
  BY <1>11 DEF SyncMessagesClear
<1>12. CASE Broadcast
  BY <1>12 DEF Broadcast, NoProposal
<1>13. CASE TimePasses
  BY <1>13 DEF TimePasses
<1> QED
  BY ZenonT(60), <1>1, <1>2, <1>3, <1>4, <1>5, <1>6, <1>7, <1>8, <1>9, <1>10, <1>11, <1>12, <1>13
     DEF ProposerThread

LEMMA NextSeqNoInv ==
  ASSUME ProposerInv, NEW s \in guard.seqs, NextSeqNo(s)
  PROVE  ProposerInv'
<1>1. guard.view \in leads
  BY DEF ProposerInv, Led
<1>2. proposal' = [view |-> proposal'.view, seq |-> proposal'.seq, batch |-> proposal'.batch] /\ proposal'.view = guard.view
  BY DEF NextSeqNo
<1>3. guard' \in [seqs : SUBSET Nat, view : Nat, canPropose : BOOLEAN]
  BY DEF NextSeqNo, TakeSeqNo, ProposerInv, Shape
<1>4. /\ guard'.view = guard.view /\ guard'.canPropose = guard.canPropose
      /\ UNCHANGED <<view, mode, nextSeq, leads>> /\ pc = "nextSeq" /\ pc' = "loadPending"
  BY DEF NextSeqNo, TakeSeqNo, ProposerInv, Shape, replicaVars, Goto
<1>5. sinceStop' \in Nat /\ sinceStop' <= 1 /\ (mode = "Normal" => sinceStop' = 0)
  BY <1>4 DEF NextSeqNo, ProposerInv, Shape, Stopped
<1> QED
  BY <1>1, <1>2, <1>3, <1>4, <1>5 DEF ProposerInv, Shape, Led, Stopped, LeadsWhatItProposes

LEMMA ProposerInvHolds == Spec => []ProposerInv
<1>1. Init => ProposerInv
  BY InitInv
<1>2. ProposerInv /\ [Next]_vars => ProposerInv'
  <2>1. CASE UNCHANGED vars
    BY <2>1 DEF vars, replicaVars, threadVars, ProposerInv, Shape, Led, Stopped, LeadsWhatItProposes
  <2> QED
    BY <2>1, ReplicaThreadInv, ProposerThreadInv, NextSeqNoInv DEF Next
<1> QED
  BY <1>1, <1>2, PTL DEF Spec

(***************************************************************************)
(* The proposer thread of a replica proposes only in views the replica     *)
(* leads, whatever has happened to the view since it looked at it.         *)
(***************************************************************************)
THEOREM LeadsWhatItProposesHolds == Spec => []LeadsWhatItProposes
<1>1. ProposerInv => LeadsWhatItProposes
  BY DEF ProposerInv
<1> QED
  BY <1>1, ProposerInvHolds, PTL

(***************************************************************************)
(* Once the replica has left its normal phase and locked the guard, the    *)
(* proposer thread begins at most one more proposal.                       *)
(***************************************************************************)
THEOREM StopsProposingHolds == Spec => []StopsProposing
<1>1. ProposerInv => StopsProposing
  BY DEF ProposerInv, Stopped, StopsProposing
<1> QED
  BY <1>1, ProposerInvHolds, PTL
=============================================================================
