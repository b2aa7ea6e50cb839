--------------------------- MODULE InstanceProofs ---------------------------
(***************************************************************************)
(* Proofs about Instance, for any number of replicas, leaders, batches and *)
(* messages of faulty replicas: the type invariant, agreement, validity,   *)
(* the absence of lost wakeups, and that Instance implements               *)
(* AtomicDecision.                                                         *)
(***************************************************************************)
EXTENDS Instance, FiniteSetTheorems, TLAPS

USE SMTT(120)

\* A sequence over a set is one over any larger set.
LEMMA SeqGrows ==
  ASSUME NEW S, NEW T, S \subseteq T
  PROVE  Seq(S) \subseteq Seq(T)
OBVIOUS

(***************************************************************************)
(* Two quorums of replicas have a correct replica in common.               *)
(***************************************************************************)
LEMMA QuorumsMeet ==
  ASSUME NEW P \in SUBSET Replica, NEW Q \in SUBSET Replica,
         Cardinality(P) >= Quorum, Cardinality(Q) >= Quorum
  PROVE  \E q \in P \cap Q : q \in Correct
<1>1. /\ IsFiniteSet(P) /\ Cardinality(P) \in Nat
      /\ IsFiniteSet(Q) /\ Cardinality(Q) \in Nat
      /\ IsFiniteSet(Replica) /\ Cardinality(Replica) \in Nat
      /\ IsFiniteSet(Faulty) /\ Cardinality(Faulty) \in Nat
  BY FS_Subset, FS_CardinalityType, ReplicaAssumption
<1>2. /\ IsFiniteSet(P \cap Q) /\ Cardinality(P \cap Q) \in Nat
      /\ Cardinality(P \cup Q) = Cardinality(P) + Cardinality(Q) - Cardinality(P \cap Q)
  <2>1. P \cap Q \in SUBSET P
    OBVIOUS
  <2>2. QED
    BY <1>1, <2>1, FS_Subset, FS_CardinalityType, FS_Union
<1>3. Cardinality(P \cup Q) \in Nat /\ Cardinality(P \cup Q) <= Cardinality(Replica)
  <2>1. P \cup Q \in SUBSET Replica
    OBVIOUS
  <2>2. QED
    BY <1>1, <2>1, FS_Subset, FS_CardinalityType
<1>4. Cardinality(P \cap Q) > Cardinality(Faulty)
  BY <1>1, <1>2, <1>3, ReplicaAssumption
<1>5. ~ (P \cap Q \subseteq Faulty)
  BY <1>1, <1>2, <1>4, FS_Subset
<1>6. QED
  BY <1>5 DEF Correct

(***************************************************************************)
(* The shape of the messages of an instance.                               *)
(***************************************************************************)
LEMMA MessageShape ==
  ASSUME NEW S \in SUBSET Replica, NEW m \in MessagesFrom(S)
  PROVE  /\ m.kind \in Kinds /\ m.from \in S
         /\ m.view = ViewSeq /\ m.seq = InstanceSeq
         /\ m.kind = "PrePrepare" => m.value \in Batch
         /\ m.kind # "PrePrepare" => m.value \in Digest
         /\ m \in Message
<1>1. CASE m \in {Msg("PrePrepare", s, b) : s \in S, b \in Batch}
  BY <1>1 DEF MessagesFrom, Message, Msg, Kinds
<1>2. CASE m \in {Msg(k, s, v) : k \in {"Prepare", "Commit"}, s \in S, v \in Digest}
  BY <1>2 DEF MessagesFrom, Message, Msg, Kinds
<1>3. QED
  BY <1>1, <1>2 DEF MessagesFrom

-----------------------------------------------------------------------------
(***************************************************************************)
(* The inductive invariant.                                                *)
(***************************************************************************)

\* The leaders whose batch decision d has.
LeadersIn(d) == {l \in Leaders : d.batches[l] # NoBatch}

\* d has sent its PREPARE; from then on its digest is fixed.
HasVoted(d) == d.phase \in {"Preparing", "Committing", "Decided"}

HasPrepared(d) == d.phase \in {"Committing", "Decided"}

\* The counter of each phase counts different senders.
CountsSenders(d) ==
  /\ ~ HasVoted(d) => /\ d.received = Cardinality(LeadersIn(d))
                      /\ d.prepares = {}
  /\ ~ HasPrepared(d) => d.commits = {}
  /\ HasVoted(d) => d.batches \in Digest
  /\ d.phase = "Preparing" => d.received = Cardinality(d.prepares)
  /\ d.phase = "Committing" => d.received = Cardinality(d.commits)
  /\ HasPrepared(d) => Cardinality(d.prepares) >= Quorum
  /\ d.phase = "Decided" => Cardinality(d.commits) >= Quorum

\* A message that claims to be from a correct replica says what its state says.
Vouched(m) ==
  m.from \in Correct =>
    /\ m.kind = "PrePrepare" => m.from \in Leaders /\ m.value = proposed[m.from]
    /\ m.kind = "Prepare" => HasVoted(decision[m.from])
    /\ m.kind = "Commit" => HasPrepared(decision[m.from])
    /\ m.kind # "PrePrepare" => m.value = decision[m.from].batches

VouchedMessage == {m \in Message : Vouched(m)}

MessagesVouched ==
  /\ \A p \in net : p.msg \in VouchedMessage
  /\ \A r \in Correct : decision[r].queue \in [Kinds -> Seq(VouchedMessage)]

\* The correct replicas whose votes r counted have the digest of r.
VotersAgree ==
  \A r, s \in Correct :
    /\ s \in decision[r].prepares =>
         HasVoted(decision[s]) /\ decision[s].batches = decision[r].batches
    /\ s \in decision[r].commits =>
         HasPrepared(decision[s]) /\ decision[s].batches = decision[r].batches

Counters == \A r \in Correct : CountsSenders(decision[r])

\* A leader proposes at most once, after its first poll of the instance.
ProposesOnce ==
  \A l \in Leaders \ Faulty :
    /\ l \in available => proposed[l] = NoBatch
    /\ l \in available \/ proposed[l] # NoBatch => decision[l].phase # "Initialize"

\* Nothing waits in the queue that poll() would serve.
Drained(d) ==
  d.phase \in WorkingPhases => d.queue[AwaitedKind(d.phase)] = << >>

\* While getQueue is down the queue of the current phase is empty, and that of
\* the first phase before it starts.
FlagOK(d) ==
  d.getQueue = FALSE =>
    Drained(d) /\ (d.phase = "Initialize" => d.queue["PrePrepare"] = << >>)

QueueFlag == \A r \in Correct : FlagOK(decision[r])

SafetyInv ==
  TypeOK /\ Counters /\ MessagesVouched /\ VotersAgree /\ ProposesOnce /\ Validity

-----------------------------------------------------------------------------
(***************************************************************************)
(* The operations of Decision.                                             *)
(***************************************************************************)
\* queue() keeps a decision well formed, adds one message, and raises the flag.
LEMMA EnqueueEffect ==
  ASSUME NEW d \in DecisionType, NEW m \in Message
  PROVE  /\ Enqueue(d, m) \in DecisionType
         /\ Enqueue(d, m) = [d EXCEPT !.queue = Enqueue(d, m).queue, !.getQueue = TRUE]
         /\ \A S : d.queue \in [Kinds -> Seq(S)] /\ m \in S =>
                     Enqueue(d, m).queue \in [Kinds -> Seq(S)]
<1> DEFINE q == [d.queue EXCEPT ![m.kind] = Append(@, m)]
<1>1. m.kind \in Kinds
  BY MessageShape DEF Message
<1>2. \A S : d.queue \in [Kinds -> Seq(S)] /\ m \in S => q \in [Kinds -> Seq(S)]
  BY <1>1
<1>3. q \in [Kinds -> Seq(Message)]
  BY <1>2 DEF DecisionType
<1>4. Enqueue(d, m) = [d EXCEPT !.queue = q, !.getQueue = TRUE]
  BY <1>1 DEF Enqueue, DecisionType
<1> HIDE DEF q
<1>5. QED
  BY ZenonT(60), <1>2, <1>3, <1>4, Zenon DEF DecisionType

\* What poll() hands out is a queued message, and the rest stays queued.
LEMMA NextMessageEffect ==
  ASSUME NEW d \in DecisionType, PollFindsMessage(d)
  PROVE  /\ AfterNextMessage(d) \in DecisionType
         /\ AfterNextMessage(d) = [d EXCEPT !.queue = AfterNextMessage(d).queue]
         /\ NextMessage(d) \in Message
         /\ \A S : d.queue \in [Kinds -> Seq(S)] =>
              NextMessage(d) \in S /\ AfterNextMessage(d).queue \in [Kinds -> Seq(S)]
<1>1. AwaitedKind(d.phase) \in Kinds
  BY DEF PollFindsMessage, WorkingPhases, AwaitedKind, Kinds
<1> DEFINE q == [d.queue EXCEPT ![AwaitedKind(d.phase)] = Tail(@)]
<1>2. \A S : d.queue \in [Kinds -> Seq(S)] => NextMessage(d) \in S /\ q \in [Kinds -> Seq(S)]
  BY <1>1 DEF PollFindsMessage, NextMessage
<1>3. q \in [Kinds -> Seq(Message)] /\ NextMessage(d) \in Message
  BY <1>2 DEF DecisionType
<1>4. AfterNextMessage(d) = [d EXCEPT !.queue = q]
  BY <1>1 DEF AfterNextMessage, DecisionType
<1> HIDE DEF q
<1>5. QED
  BY ZenonT(60), <1>2, <1>3, <1>4, Zenon DEF DecisionType

\* d with everything but its queue replaced.
Updated(d, p, n, b, P, C, g) ==
  [d EXCEPT !.phase = p, !.received = n, !.batches = b,
            !.prepares = P, !.commits = C, !.getQueue = g]

\* The fields of an updated decision are what they were set to.
LEMMA UpdatedShape ==
  ASSUME NEW d \in DecisionType, NEW p \in Phases, NEW n \in Nat,
         NEW b \in [Leaders -> Batch \cup {NoBatch}],
         NEW P \in SUBSET Replica, NEW C \in SUBSET Replica, NEW g \in BOOLEAN,
         NEW a, a = Updated(d, p, n, b, P, C, g)
  PROVE  /\ a \in DecisionType
         /\ a.seq = d.seq /\ a.phase = p /\ a.received = n /\ a.batches = b
         /\ a.prepares = P /\ a.commits = C /\ a.getQueue = g /\ a.queue = d.queue
BY ZenonT(60), Zenon DEF DecisionType, Updated

\* The three ways in which a message is accepted.
AcceptsBatch(d, m) ==
  /\ d.phase = "PrePreparing" /\ m.kind = "PrePrepare"
  /\ m.from \in Leaders /\ d.batches[m.from] = NoBatch

AcceptsPrepare(d, m) ==
  /\ d.phase = "Preparing" /\ m.kind = "Prepare"
  /\ m.value = d.batches /\ m.from \notin d.prepares

AcceptsCommit(d, m) ==
  /\ d.phase = "Committing" /\ m.kind = "Commit"
  /\ m.value = d.batches /\ m.from \notin d.commits

\* process_message() accepts a message in one of the three ways above.
LEMMA AcceptCases ==
  ASSUME NEW d \in DecisionType, NEW m \in Message, NEW r, Accepts(d, m, View, r)
  PROVE  AcceptsBatch(d, m) \/ AcceptsPrepare(d, m) \/ AcceptsCommit(d, m)
<1>1. m.kind \in Kinds
  BY MessageShape DEF Message
<1>2. d.phase \in Phases
  BY DEF DecisionType
<1>3. QED
  BY <1>1, <1>2
     DEF Accepts, Considers, Queues, Ignores, Rejects, IgnoresPrePrepare, IgnoresVote,
         InstanceDigest, View, Kinds, Phases, AcceptsBatch, AcceptsPrepare, AcceptsCommit

\* a is d after r accepted the PRE-PREPARE m.
BatchEffect(d, m, r, a) ==
  /\ a \in DecisionType /\ CountsSenders(a)
  /\ a.phase \in {"PrePreparing", "Preparing"}
  /\ a.queue = d.queue
  /\ a.phase = "PrePreparing" => a.getQueue = d.getQueue
  /\ a.phase = "Preparing" => a.getQueue = TRUE
  /\ a.batches = [d.batches EXCEPT ![m.from] = m.value]
  /\ a.prepares = {} /\ a.commits = {}
  /\ VotesSent(d, m, View, r) =
       IF a.phase = "Preparing" THEN {Msg("Prepare", r, a.batches)} ELSE {}

\* Accepting a PRE-PREPARE has the effect BatchEffect.
LEMMA AcceptBatchEffect ==
  ASSUME NEW d \in DecisionType, NEW m \in Message, NEW r \in Correct,
         CountsSenders(d), AcceptsBatch(d, m),
         NEW a, a = AfterAccept(d, m, View)
  PROVE  BatchEffect(d, m, r, a)
<1> DEFINE b == [d.batches EXCEPT ![m.from] = m.value]
<1>1. m.value \in Batch /\ m.value # NoBatch /\ m.from \in Replica
  BY MessageShape, BatchAssumption DEF Message, AcceptsBatch
<1>2. b \in [Leaders -> Batch \cup {NoBatch}]
  BY ZenonT(60), <1>1, Zenon DEF DecisionType
<1>3. /\ IsFiniteSet(Leaders) /\ IsFiniteSet(LeadersIn(d))
      /\ Cardinality(Leaders) \in Nat /\ Cardinality(LeadersIn(d)) \in Nat
  BY FS_Subset, FS_CardinalityType, ReplicaAssumption DEF LeadersIn
<1>4. /\ Accept(d, m) = [d EXCEPT !.batches = b]
      /\ Accept(d, m) \in DecisionType
  BY ZenonT(60), <1>2, Zenon DEF Accept, AcceptsBatch, DecisionType
<1>5. \A e : e.batches = b =>
        /\ LeadersIn(e) = LeadersIn(d) \cup {m.from}
        /\ Cardinality(LeadersIn(e)) = d.received + 1
  <2>1. m.from \notin LeadersIn(d)
    BY DEF AcceptsBatch, LeadersIn
  <2>2. Cardinality(LeadersIn(d) \cup {m.from}) = Cardinality(LeadersIn(d)) + 1
    BY ZenonT(60), <1>3, <2>1, FS_AddElement, Zenon
  <2>3. d.received = Cardinality(LeadersIn(d))
    BY DEF CountsSenders, AcceptsBatch, HasVoted
  <2>4. \A e : e.batches = b => LeadersIn(e) = LeadersIn(d) \cup {m.from}
    BY <1>1 DEF LeadersIn, AcceptsBatch, DecisionType
  <2>5. QED
    BY ZenonT(60), <2>2, <2>3, <2>4
<1>6. d.prepares = {} /\ d.commits = {} /\ d.received \in Nat
  BY DEF CountsSenders, AcceptsBatch, HasVoted, HasPrepared, DecisionType
<1> HIDE DEF b
<1>7. CASE CompletesPhase(d, m, View)
  <2>1. a = Updated(d, "Preparing", 0, b, d.prepares, d.commits, TRUE)
    BY ZenonT(60), <1>4, <1>7, Zenon DEF AfterAccept, FollowingPhase, AcceptsBatch, DecisionType, Updated
  <2>2. /\ a \in DecisionType
        /\ a.phase = "Preparing" /\ a.received = 0 /\ a.batches = b
        /\ a.prepares = {} /\ a.commits = {} /\ a.getQueue = TRUE /\ a.queue = d.queue
    <3> DEFINE g == TRUE
    <3>1. g \in BOOLEAN /\ "Preparing" \in Phases /\ 0 \in Nat
      BY DEF Phases
    <3>2. a = Updated(d, "Preparing", 0, b, d.prepares, d.commits, g)
      BY <2>1
    <3> HIDE DEF g
    <3>3. /\ a \in DecisionType
          /\ a.phase = "Preparing" /\ a.received = 0 /\ a.batches = b
          /\ a.prepares = {} /\ a.commits = {} /\ a.getQueue = g /\ a.queue = d.queue
      BY <1>2, <1>6, <3>1, <3>2, UpdatedShape
    <3>4. QED
      BY <3>3 DEF g
  <2>3. b \in Digest
    <3>1. d.received + 1 = Cardinality(Leaders)
      BY <1>7 DEF CompletesPhase, AcceptsBatch, View
    <3>2. LeadersIn(a) \in SUBSET Leaders
      BY DEF LeadersIn
    <3>3. LeadersIn(a) = Leaders
      BY <1>3, <1>5, <2>2, <3>1, <3>2, FS_Subset
    <3>4. QED
      BY <1>2, <2>2, <3>3 DEF LeadersIn, Digest
  <2>4. VotesSent(d, m, View, r) = {Msg("Prepare", r, b)}
    BY <1>4, <1>7 DEF VotesSent, AcceptsBatch, InstanceDigest, Msg, View, DecisionType
  <2>5. CountsSenders(a)
    BY <2>2, <2>3, FS_EmptySet DEF CountsSenders, HasVoted, HasPrepared
  <2>6. QED
    BY <2>2, <2>4, <2>5 DEF b, BatchEffect
<1>8. CASE ~ CompletesPhase(d, m, View)
  <2>1. a = Updated(d, d.phase, d.received + 1, b, d.prepares, d.commits, d.getQueue)
    BY ZenonT(60), <1>4, <1>8, Zenon DEF AfterAccept, DecisionType, Updated
  <2>2. /\ a \in DecisionType
        /\ a.phase = "PrePreparing" /\ a.received = d.received + 1 /\ a.batches = b
        /\ a.prepares = {} /\ a.commits = {}
        /\ a.getQueue = d.getQueue /\ a.queue = d.queue
    <3>1. d.getQueue \in BOOLEAN /\ d.phase = "PrePreparing" /\ d.received + 1 \in Nat
      BY <1>6 DEF DecisionType, AcceptsBatch
    <3>2. QED
      BY <1>2, <1>6, <2>1, <3>1, UpdatedShape DEF Phases
  <2>3. VotesSent(d, m, View, r) = {}
    BY <1>8 DEF VotesSent
  <2>4. CountsSenders(a)
    BY <1>5, <2>2 DEF CountsSenders, HasVoted, HasPrepared
  <2>5. QED
    BY <2>2, <2>3, <2>4 DEF b, BatchEffect
<1>9. QED
  BY <1>7, <1>8

\* a is d after r accepted the PREPARE or COMMIT m.
VoteEffect(d, m, r, a) ==
  /\ a \in DecisionType /\ CountsSenders(a)
  /\ a.phase \in {d.phase, FollowingPhase(d.phase)}
  /\ a.batches = d.batches /\ a.queue = d.queue
  /\ a.phase = d.phase => a.getQueue = d.getQueue
  /\ a.phase = "Committing" /\ d.phase = "Preparing" => a.getQueue = TRUE
  /\ a.prepares = IF m.kind = "Prepare" THEN d.prepares \cup {m.from} ELSE d.prepares
  /\ a.commits = IF m.kind = "Commit" THEN d.commits \cup {m.from} ELSE d.commits
  /\ VotesSent(d, m, View, r) =
       IF a.phase = "Committing" /\ d.phase = "Preparing"
         THEN {Msg("Commit", r, a.batches)} ELSE {}

\* Accepting a PREPARE or COMMIT has the effect VoteEffect.
LEMMA AcceptVoteEffect ==
  ASSUME NEW d \in DecisionType, NEW m \in Message, NEW r \in Correct,
         CountsSenders(d), AcceptsPrepare(d, m) \/ AcceptsCommit(d, m),
         NEW a, a = AfterAccept(d, m, View)
  PROVE  VoteEffect(d, m, r, a)
<1> DEFINE P == IF m.kind = "Prepare" THEN d.prepares \cup {m.from} ELSE d.prepares
           C == IF m.kind = "Commit" THEN d.commits \cup {m.from} ELSE d.commits
           done == CompletesPhase(d, m, View)
           p == IF done THEN FollowingPhase(d.phase) ELSE d.phase
           n == IF done THEN 0 ELSE d.received + 1
           g == IF done /\ d.phase = "Preparing" THEN TRUE ELSE d.getQueue
<1>1. /\ m.from \in Replica /\ d.prepares \in SUBSET Replica /\ d.commits \in SUBSET Replica
      /\ d.received \in Nat /\ d.getQueue \in BOOLEAN
      /\ d.batches \in [Leaders -> Batch \cup {NoBatch}]
      /\ d.phase \in {"Preparing", "Committing"}
  BY MessageShape DEF Message, DecisionType, AcceptsPrepare, AcceptsCommit
<1>2. P \in SUBSET Replica /\ C \in SUBSET Replica /\ p \in Phases /\ n \in Nat
  <2>1. p \in Phases
    BY <1>1 DEF FollowingPhase, Phases
  <2>2. QED
    BY <1>1, <2>1
<1>2a. g \in BOOLEAN
  BY ZenonT(60), <1>1, Zenon
<1>3. /\ IsFiniteSet(d.prepares) /\ Cardinality(d.prepares) \in Nat
      /\ IsFiniteSet(d.commits) /\ Cardinality(d.commits) \in Nat
  BY <1>1, FS_Subset, FS_CardinalityType, ReplicaAssumption
<1>4. /\ d.phase = "Preparing" => Cardinality(P) = d.received + 1 /\ C = d.commits
      /\ d.phase = "Committing" => Cardinality(C) = d.received + 1 /\ P = d.prepares
  <2>1. CASE AcceptsPrepare(d, m)
    <3>1. Cardinality(d.prepares \cup {m.from}) = Cardinality(d.prepares) + 1
      BY ZenonT(60), <1>3, <2>1, FS_AddElement, Zenon DEF AcceptsPrepare
    <3>2. d.received = Cardinality(d.prepares) /\ P = d.prepares \cup {m.from} /\ C = d.commits
      BY <2>1 DEF CountsSenders, AcceptsPrepare
    <3>3. QED
      BY <2>1, <3>1, <3>2 DEF AcceptsPrepare
  <2>2. CASE AcceptsCommit(d, m)
    <3>1. Cardinality(d.commits \cup {m.from}) = Cardinality(d.commits) + 1
      BY ZenonT(60), <1>3, <2>2, FS_AddElement, Zenon DEF AcceptsCommit
    <3>2. d.received = Cardinality(d.commits) /\ C = d.commits \cup {m.from} /\ P = d.prepares
      BY <2>2 DEF CountsSenders, AcceptsCommit
    <3>3. QED
      BY <2>2, <3>1, <3>2 DEF AcceptsCommit
  <2>3. QED
    BY <2>1, <2>2
<1>5. Accept(d, m) = [d EXCEPT !.prepares = P, !.commits = C]
  BY ZenonT(60), Zenon DEF Accept, AcceptsPrepare, AcceptsCommit, DecisionType
<1>6. a = Updated(d, p, n, d.batches, P, C, g)
  BY ZenonT(60), <1>1, <1>5, Zenon DEF AfterAccept, Updated, DecisionType
<1>7. done => d.received + 1 = Quorum
  BY <1>1 DEF CompletesPhase
<1>8. /\ d.phase = "Preparing" => p \in {"Preparing", "Committing"}
      /\ d.phase = "Committing" => p \in {"Committing", "Decided"}
      /\ p = d.phase => n = d.received + 1 /\ g = d.getQueue
      /\ p # d.phase => n = 0 /\ done /\ p = FollowingPhase(d.phase)
      /\ p = "Committing" /\ d.phase = "Preparing" => g = TRUE
  BY ZenonT(60), <1>1, Zenon DEF FollowingPhase
<1>9. VotesSent(d, m, View, r) =
        IF p = "Committing" /\ d.phase = "Preparing" THEN {Msg("Commit", r, d.batches)} ELSE {}
  BY ZenonT(60), <1>1, <1>5, Zenon
     DEF VotesSent, FollowingPhase, InstanceDigest, Msg, View, DecisionType
<1> HIDE DEF P, C, done, p, n, g
<1>10. /\ a \in DecisionType
       /\ a.phase = p /\ a.received = n /\ a.batches = d.batches
       /\ a.prepares = P /\ a.commits = C /\ a.getQueue = g /\ a.queue = d.queue
  BY <1>1, <1>2, <1>2a, <1>6, UpdatedShape
<1>11. CountsSenders(a)
  <2>1. CASE d.phase = "Preparing"
    BY <1>1, <1>3, <1>4, <1>7, <1>8, <1>10, <2>1, FS_EmptySet, ReplicaAssumption
       DEF CountsSenders, HasVoted, HasPrepared
  <2>2. CASE d.phase = "Committing"
    BY <1>1, <1>3, <1>4, <1>7, <1>8, <1>10, <2>2, FS_EmptySet, ReplicaAssumption
       DEF CountsSenders, HasVoted, HasPrepared
  <2>3. QED
    BY <1>1, <2>1, <2>2
<1>12. QED
  BY <1>8, <1>9, <1>10, <1>11 DEF P, C, VoteEffect

-----------------------------------------------------------------------------
(***************************************************************************)
(* What a step may do to the decision of one replica and to the network.   *)
(***************************************************************************)

\* e is what decision d may become: votes are not taken back.
Follows(d, e) ==
  /\ HasVoted(d) => HasVoted(e) /\ e.batches = d.batches
  /\ HasPrepared(d) => HasPrepared(e)
  /\ e.phase = "Initialize" => d.phase = "Initialize"

\* The votes counted in e are those of replicas that cast them.
VotesCast(e) ==
  \A s \in Correct :
    /\ s \in e.prepares => HasVoted(decision[s]) /\ decision[s].batches = e.batches
    /\ s \in e.commits => HasPrepared(decision[s]) /\ decision[s].batches = e.batches

BatchesProposed(e) ==
  \A l \in Leaders \ Faulty : e.batches[l] \in {NoBatch, proposed[l]}

\* The decision of r becomes e.
Becomes(r, e) ==
  /\ e \in DecisionType
  /\ CountsSenders(e)
  /\ Follows(decision[r], e)
  /\ VotesCast(e)
  /\ BatchesProposed(e)
  /\ e.queue \in [Kinds -> Seq(VouchedMessage)]
  /\ decision' = [decision EXCEPT ![r] = e]

DataInv == Counters /\ MessagesVouched /\ VotersAgree /\ Validity

\* A message that is vouched for stays so when a decision goes forward.
LEMMA VouchedStays ==
  ASSUME TypeOK, NEW r \in Correct, NEW e, Becomes(r, e), UNCHANGED proposed,
         NEW m \in VouchedMessage
  PROVE  m \in VouchedMessage'
<1>1. m.from \in Correct => decision'[m.from] = IF m.from = r THEN e ELSE decision[m.from]
  BY DEF TypeOK, Becomes
<1>2. m.kind \in {"PrePrepare", "Prepare", "Commit"}
  BY MessageShape DEF VouchedMessage, Message, Kinds
<1>2a. Vouched(m)'
  BY <1>1, <1>2 DEF Becomes, Follows, Vouched, VouchedMessage, HasVoted, HasPrepared
<1>3. QED
  BY <1>2a DEF VouchedMessage, Message

\* A decision that goes forward on votes that were cast keeps the invariant.
LEMMA BecomesPreserves ==
  ASSUME TypeOK, DataInv, NEW r \in Correct, NEW e, Becomes(r, e), UNCHANGED proposed,
         \A p \in net' : p \in net \/ p.msg \in VouchedMessage'
  PROVE  DataInv' /\ decision' \in [Correct -> DecisionType]
<1>1. decision' \in [Correct -> DecisionType]
  BY DEF TypeOK, Becomes
<1>2. decision'[r] = e /\ \A s \in Correct : s # r => decision'[s] = decision[s]
  BY DEF TypeOK, Becomes
<1>3. Counters'
  BY <1>2 DEF Counters, DataInv, Becomes
<1>4. Validity'
  BY <1>2 DEF Validity, DataInv, Becomes, BatchesProposed
<1>5. VotersAgree'
  <2> SUFFICES ASSUME NEW x \in Correct, NEW s \in Correct
               PROVE  /\ s \in decision'[x].prepares =>
                           HasVoted(decision'[s]) /\ decision'[s].batches = decision'[x].batches
                      /\ s \in decision'[x].commits =>
                           HasPrepared(decision'[s]) /\ decision'[s].batches = decision'[x].batches
    BY DEF VotersAgree, HasVoted, HasPrepared
  <2>1. /\ s \in decision'[x].prepares =>
             HasVoted(decision[s]) /\ decision[s].batches = decision'[x].batches
        /\ s \in decision'[x].commits =>
             HasPrepared(decision[s]) /\ decision[s].batches = decision'[x].batches
    BY <1>2 DEF DataInv, VotersAgree, Becomes, VotesCast
  <2>2. /\ HasVoted(decision[s]) => HasVoted(decision'[s]) /\ decision'[s].batches = decision[s].batches
        /\ HasPrepared(decision[s]) => HasPrepared(decision'[s])
    BY <1>2 DEF Becomes, Follows
  <2>3. HasPrepared(decision[s]) => HasVoted(decision[s])
    BY DEF HasPrepared, HasVoted
  <2>4. QED
    BY <2>1, <2>2, <2>3
<1>6. MessagesVouched'
  <2>1. VouchedMessage \subseteq VouchedMessage'
    BY VouchedStays
  <2>2. \A q : q \in [Kinds -> Seq(VouchedMessage)] => q \in [Kinds -> Seq(VouchedMessage')]
    BY <2>1, SeqGrows
  <2>3. \A s \in Correct : decision'[s].queue \in [Kinds -> Seq(VouchedMessage')]
    BY ZenonT(60), <1>2, <2>2, Zenon DEF DataInv, MessagesVouched, Becomes
  <2>4. \A p \in net' : p.msg \in VouchedMessage'
    BY <2>1 DEF DataInv, MessagesVouched
  <2>5. QED
    BY <2>3, <2>4 DEF MessagesVouched
<1>7. QED
  BY <1>1, <1>3, <1>4, <1>5, <1>6 DEF DataInv

\* A step that touches one decision and sends nothing.
LEMMA PlainStep ==
  ASSUME SafetyInv, NEW r \in Correct, NEW e, Becomes(r, e),
         UNCHANGED <<available, proposed, faultyMsgs>>, net' \subseteq net,
         signalled' \in [Correct -> BOOLEAN], offContext' \in 0..MaxOffContext
  PROVE  SafetyInv'
<1>1. TypeOK /\ DataInv
  BY DEF SafetyInv, DataInv
<1>2. DataInv' /\ decision' \in [Correct -> DecisionType]
  BY <1>1, BecomesPreserves
<1>3. ProposesOnce'
  BY DEF SafetyInv, TypeOK, ProposesOnce, Becomes, Follows, Correct
<1>4. TypeOK'
  BY <1>1, <1>2 DEF TypeOK
<1>5. QED
  BY <1>2, <1>3, <1>4 DEF SafetyInv, DataInv

\* The vote a replica sends for the batches it holds is vouched for.
LEMMA VoteVouched ==
  ASSUME TypeOK, NEW r \in Correct, NEW e, Becomes(r, e), e.batches \in Digest,
         NEW k \in {"Prepare", "Commit"},
         k = "Prepare" => HasVoted(e), k = "Commit" => HasPrepared(e),
         NEW v, v = Msg(k, r, e.batches)
  PROVE  v \in MessagesFrom(Correct) /\ v \in VouchedMessage'
<1>1. v \in MessagesFrom(Correct)
  BY DEF MessagesFrom
<1>2. v \in Message
  BY <1>1, MessageShape DEF Correct
<1>3. v.from = r /\ v.kind = k /\ v.value = e.batches
  BY DEF Msg
<1>4. decision'[r] = e
  BY DEF TypeOK, Becomes
<1>5. Vouched(v)'
  BY <1>3, <1>4 DEF Vouched
<1>6. QED
  BY <1>1, <1>2, <1>5 DEF VouchedMessage, Message

\* process_message() on a vouched message preserves the invariant.
LEMMA ProcessStep ==
  ASSUME SafetyInv, NEW r \in Correct, NEW d \in DecisionType, NEW m \in VouchedMessage,
         NEW rest \in SUBSET net,
         d = [decision[r] EXCEPT !.queue = d.queue],
         d.queue \in [Kinds -> Seq(VouchedMessage)],
         Process(r, d, m, rest), UNCHANGED <<proposed, available>>,
         faultyMsgs' \in 0..MaxFaulty, offContext' \in 0..MaxOffContext
  PROVE  SafetyInv'
<1>1. m \in Message /\ Vouched(m)
  BY DEF VouchedMessage
<1>2. /\ d.phase = decision[r].phase /\ d.received = decision[r].received
      /\ d.batches = decision[r].batches
      /\ d.prepares = decision[r].prepares /\ d.commits = decision[r].commits
  BY DEF SafetyInv, TypeOK, DecisionType
<1>3. CountsSenders(d) /\ VotesCast(d) /\ BatchesProposed(d)
  <2>1. CountsSenders(d)
    <3>1. LeadersIn(d) = LeadersIn(decision[r])
      BY <1>2 DEF LeadersIn
    <3>2. (HasVoted(d) <=> HasVoted(decision[r])) /\ (HasPrepared(d) <=> HasPrepared(decision[r]))
      BY <1>2 DEF HasVoted, HasPrepared
    <3>3. QED
      BY <1>2, <3>1, <3>2 DEF SafetyInv, Counters, CountsSenders
  <2>2. VotesCast(d)
    BY <1>2 DEF SafetyInv, VotersAgree, VotesCast
  <2>3. BatchesProposed(d)
    BY <1>2 DEF SafetyInv, Validity, BatchesProposed
  <2>4. QED
    BY <2>1, <2>2, <2>3
<1>4. ASSUME NEW e, Becomes(r, e), net' \subseteq Packet, signalled' \in [Correct -> BOOLEAN],
             \A p \in net' : p \in net \/ p.msg \in VouchedMessage'
      PROVE  SafetyInv'
  <2>1. DataInv' /\ decision' \in [Correct -> DecisionType]
    BY <1>4, BecomesPreserves DEF SafetyInv, DataInv
  <2>2. ProposesOnce'
    BY <1>4 DEF SafetyInv, TypeOK, ProposesOnce, Becomes, Follows, Correct
  <2>3. TypeOK'
    BY <1>4, <2>1 DEF SafetyInv, TypeOK
  <2>4. QED
    BY <2>1, <2>2, <2>3 DEF SafetyInv, DataInv
<1>5. net \subseteq Packet /\ signalled \in [Correct -> BOOLEAN]
  BY DEF SafetyInv, TypeOK
<1>6. CASE /\ Queues(d, m)
           /\ decision' = [decision EXCEPT ![r] = Enqueue(d, m)]
           /\ signalled' = [signalled EXCEPT ![r] = TRUE]
           /\ net' = rest
  <2> DEFINE e == Enqueue(d, m)
  <2>1. /\ e \in DecisionType
        /\ e = [d EXCEPT !.queue = e.queue, !.getQueue = TRUE]
        /\ e.queue \in [Kinds -> Seq(VouchedMessage)]
    BY ZenonT(60), <1>1, EnqueueEffect, Zenon
  <2> HIDE DEF e
  <2>2. /\ e.phase = d.phase /\ e.received = d.received /\ e.batches = d.batches
        /\ e.prepares = d.prepares /\ e.commits = d.commits
    BY ZenonT(60), <2>1, Zenon DEF DecisionType
  <2>3. CountsSenders(e) /\ VotesCast(e) /\ BatchesProposed(e) /\ Follows(decision[r], e)
    BY <1>2, <1>3, <2>2 DEF CountsSenders, HasVoted, HasPrepared, LeadersIn, VotesCast,
                            BatchesProposed, Follows
  <2>4. Becomes(r, e)
    BY <1>6, <2>1, <2>3 DEF Becomes, e
  <2>5. signalled' \in [Correct -> BOOLEAN]
    BY <1>5, <1>6
  <2>6. QED
    BY <1>4, <1>5, <1>6, <2>4, <2>5
<1>7. CASE /\ decision' = [decision EXCEPT ![r] = d]
           /\ signalled' = signalled
           /\ net' = rest
  <2>1. Follows(decision[r], d)
    BY <1>2 DEF Follows, HasVoted, HasPrepared
  <2>2. QED
    BY ZenonT(60), <1>3, <1>4, <1>5, <1>7, <2>1, Zenon DEF Becomes
<1>8. CASE /\ Accepts(d, m, View, r)
           /\ decision' = [decision EXCEPT ![r] = AfterAccept(d, m, View)]
           /\ signalled' = [signalled EXCEPT ![r] = @ \/ VotesSent(d, m, View, r) # {}]
           /\ net' = rest \cup Packets(VotesSent(d, m, View, r))
  <2> DEFINE e == AfterAccept(d, m, View)
             V == VotesSent(d, m, View, r)
  <2>0. e = AfterAccept(d, m, View) /\ V = VotesSent(d, m, View, r) /\ TypeOK
    BY DEF SafetyInv
  <2> HIDE DEF e, V
  <2>1. signalled' \in [Correct -> BOOLEAN]
    BY ZenonT(60), <1>5, <1>8, Zenon
  <2>2. /\ Becomes(r, e)
        /\ V \subseteq MessagesFrom(Correct)
        /\ \A v \in V : v \in VouchedMessage'
    <3>1. CASE AcceptsBatch(d, m)
      <4>1. /\ e \in DecisionType /\ CountsSenders(e)
            /\ e.phase \in {"PrePreparing", "Preparing"}
            /\ e.queue = d.queue
            /\ e.batches = [d.batches EXCEPT ![m.from] = m.value]
            /\ e.prepares = {} /\ e.commits = {}
            /\ V = IF e.phase = "Preparing" THEN {Msg("Prepare", r, e.batches)} ELSE {}
        <5>1. BatchEffect(d, m, r, e)
          BY <1>1, <1>3, <2>0, <3>1, AcceptBatchEffect
        <5>2. QED
          BY <2>0, <5>1 DEF BatchEffect
      <4>2. Follows(decision[r], e)
        BY <1>2, <3>1, <4>1 DEF Follows, HasVoted, HasPrepared, AcceptsBatch
      <4>3. BatchesProposed(e)
        BY <1>1, <1>3, <3>1, <4>1, ReplicaAssumption
           DEF BatchesProposed, AcceptsBatch, Vouched, Correct, DecisionType
      <4>4. VotesCast(e)
        BY <4>1 DEF VotesCast
      <4>5. Becomes(r, e)
        BY <1>8, <2>0, <4>1, <4>2, <4>3, <4>4 DEF Becomes
      <4>6. CASE e.phase = "Preparing"
        <5>1. HasVoted(e) /\ e.batches \in Digest
          BY <4>1, <4>6 DEF CountsSenders, HasVoted
        <5>2. QED
          BY <2>0, <4>1, <4>5, <4>6, <5>1, VoteVouched
      <4>7. QED
        BY <4>1, <4>5, <4>6
    <3>2. CASE AcceptsPrepare(d, m) \/ AcceptsCommit(d, m)
      <4>1. /\ e \in DecisionType /\ CountsSenders(e)
            /\ e.phase \in {d.phase, FollowingPhase(d.phase)}
            /\ e.batches = d.batches /\ e.queue = d.queue
            /\ e.prepares = IF m.kind = "Prepare" THEN d.prepares \cup {m.from} ELSE d.prepares
            /\ e.commits = IF m.kind = "Commit" THEN d.commits \cup {m.from} ELSE d.commits
            /\ V = IF e.phase = "Committing" /\ d.phase = "Preparing"
                     THEN {Msg("Commit", r, e.batches)} ELSE {}
        <5>1. VoteEffect(d, m, r, e)
          BY <1>1, <1>3, <2>0, <3>2, AcceptVoteEffect
        <5>2. QED
          BY <2>0, <5>1 DEF VoteEffect
      <4>2. Follows(decision[r], e)
        BY <1>2, <3>2, <4>1
           DEF Follows, HasVoted, HasPrepared, AcceptsPrepare, AcceptsCommit, FollowingPhase
      <4>3. BatchesProposed(e)
        BY <1>3, <4>1 DEF BatchesProposed
      <4>4. VotesCast(e)
        BY <1>1, <1>3, <3>2, <4>1 DEF VotesCast, Vouched, AcceptsPrepare, AcceptsCommit
      <4>5. Becomes(r, e)
        BY <1>8, <2>0, <4>1, <4>2, <4>3, <4>4 DEF Becomes
      <4>6. CASE e.phase = "Committing" /\ d.phase = "Preparing"
        <5>1. HasPrepared(e) /\ e.batches \in Digest
          BY <4>1, <4>6 DEF CountsSenders, HasVoted, HasPrepared
        <5>2. QED
          BY <2>0, <4>1, <4>5, <4>6, <5>1, VoteVouched
      <4>7. QED
        BY <4>1, <4>5, <4>6
    <3>3. QED
      BY <1>1, <1>8, <3>1, <3>2, AcceptCases
  <2>3. QED
    BY <1>4, <1>5, <1>8, <2>0, <2>1, <2>2 DEF Packets, Packet
<1>9. QED
  BY <1>6, <1>7, <1>8 DEF Process

-----------------------------------------------------------------------------
\* The invariant holds when the instance is created.
LEMMA SafetyInit == Init => SafetyInv
<1> SUFFICES ASSUME Init PROVE SafetyInv
  OBVIOUS
<1> DEFINE d0 == InitDecision(InstanceSeq, View, EmptyQueue)
<1>1. /\ d0.seq = InstanceSeq /\ d0.phase = "Initialize" /\ d0.received = 0
      /\ d0.batches = [l \in Leaders |-> NoBatch]
      /\ d0.prepares = {} /\ d0.commits = {} /\ d0.queue = EmptyQueue
  BY DEF InitDecision, View
<1>2. \A S : EmptyQueue \in [Kinds -> Seq(S)]
  BY DEF EmptyQueue
<1>3. d0 \in DecisionType
  BY <1>2 DEF InitDecision, DecisionType, View, Phases
<1>4. LeadersIn(d0) = {}
  BY <1>1 DEF LeadersIn
<1>5. CountsSenders(d0)
  BY <1>1, <1>4, FS_EmptySet DEF CountsSenders, HasVoted, HasPrepared
<1> HIDE DEF d0
<1>6. /\ decision = [r \in Correct |-> d0] /\ signalled = [r \in Correct |-> TRUE]
      /\ available = {} /\ proposed = [l \in Leaders \ Faulty |-> NoBatch] /\ net = {}
      /\ faultyMsgs = 0 /\ offContext = 0
  BY DEF Init, d0
<1>7. TypeOK
  BY <1>3, <1>6, BoundAssumption DEF TypeOK
<1>8. Counters /\ VotersAgree
  BY <1>1, <1>5, <1>6 DEF Counters, VotersAgree
<1>9. MessagesVouched
  BY <1>1, <1>2, <1>6 DEF MessagesVouched
<1>10. ProposesOnce /\ Validity
  BY <1>1, <1>6 DEF ProposesOnce, Validity
<1>11. QED
  BY <1>7, <1>8, <1>9, <1>10 DEF SafetyInv

\* Every step of the replica and proposer threads preserves the invariant.
LEMMA SafetyStep == SafetyInv /\ [Next]_vars => SafetyInv'
<1> SUFFICES ASSUME SafetyInv, [Next]_vars PROVE SafetyInv'
  OBVIOUS
<1>0. TypeOK /\ DataInv
  BY DEF SafetyInv, DataInv
<1>1. ASSUME NEW r \in Correct, PollTryPropose(r)
      PROVE  SafetyInv'
  <2> DEFINE e == AfterTryPropose(decision[r])
  <2>1. /\ decision[r] \in DecisionType /\ decision[r].phase = "Initialize"
        /\ decision' = [decision EXCEPT ![r] = e]
    BY <1>1, <1>0 DEF TypeOK, PollTryPropose, PollTriesPropose
  <2>2. /\ e \in DecisionType /\ e.phase = "PrePreparing"
        /\ e.received = decision[r].received /\ e.batches = decision[r].batches
        /\ e.prepares = decision[r].prepares /\ e.commits = decision[r].commits
        /\ e.queue = decision[r].queue
    BY ZenonT(60), <2>1 DEF AfterTryPropose, DecisionType, Phases
  <2> HIDE DEF e
  <2>3. CountsSenders(e)
    BY ZenonT(60), <1>0, <2>1, <2>2, Zenon
       DEF DataInv, Counters, CountsSenders, HasVoted, HasPrepared, LeadersIn
  <2>4. VotesCast(e) /\ BatchesProposed(e) /\ Follows(decision[r], e)
    BY <1>0, <2>1, <2>2 DEF DataInv, VotersAgree, VotesCast, Validity, BatchesProposed,
                            Follows, HasVoted, HasPrepared
  <2>5. Becomes(r, e)
    BY <1>0, <2>1, <2>2, <2>3, <2>4 DEF DataInv, MessagesVouched, Becomes
  <2>6. UNCHANGED <<signalled, proposed, net, faultyMsgs, offContext>>
    BY <1>1 DEF PollTryPropose
  <2>7. DataInv' /\ decision' \in [Correct -> DecisionType]
    BY <1>0, <2>5, <2>6, BecomesPreserves
  <2>8. available' = available \cup ({r} \cap Leaders)
    BY <1>1 DEF PollTryPropose
  <2>9. TypeOK'
    BY <1>0, <2>6, <2>7, <2>8 DEF TypeOK, Correct
  <2>10. ProposesOnce'
    BY <1>0, <2>1, <2>2, <2>6, <2>8 DEF SafetyInv, TypeOK, ProposesOnce, Correct
  <2>11. QED
    BY <2>7, <2>9, <2>10 DEF SafetyInv, DataInv
<1>2. ASSUME NEW r \in Correct, PollNextMessage(r)
      PROVE  SafetyInv'
  <2>1. decision[r] \in DecisionType /\ decision[r].queue \in [Kinds -> Seq(VouchedMessage)]
    BY <1>0 DEF TypeOK, DataInv, MessagesVouched
  <2>2. PollFindsMessage(decision[r])
    BY <1>2 DEF PollNextMessage
  <2>3. /\ AfterNextMessage(decision[r]) \in DecisionType
        /\ AfterNextMessage(decision[r]) =
             [decision[r] EXCEPT !.queue = AfterNextMessage(decision[r]).queue]
        /\ NextMessage(decision[r]) \in VouchedMessage
        /\ AfterNextMessage(decision[r]).queue \in [Kinds -> Seq(VouchedMessage)]
    BY ZenonT(60), <2>1, <2>2, NextMessageEffect, Zenon
  <2>4. Process(r, AfterNextMessage(decision[r]), NextMessage(decision[r]), net)
    BY <1>2 DEF PollNextMessage
  <2>5. /\ UNCHANGED <<proposed, available>>
        /\ faultyMsgs' \in 0..MaxFaulty /\ offContext' \in 0..MaxOffContext
    BY <1>0, <1>2 DEF TypeOK, PollNextMessage
  <2>6. QED
    BY <2>3, <2>4, <2>5, ProcessStep
<1>3. ASSUME NEW r \in Correct, PollRecv(r)
      PROVE  SafetyInv'
  <2> DEFINE e == AfterRecv(decision[r])
  <2>1. decision[r] \in DecisionType /\ decision' = [decision EXCEPT ![r] = e]
    BY <1>0, <1>3 DEF TypeOK, PollRecv
  <2>2. /\ e \in DecisionType /\ e.phase = decision[r].phase
        /\ e.received = decision[r].received /\ e.batches = decision[r].batches
        /\ e.prepares = decision[r].prepares /\ e.commits = decision[r].commits
        /\ e.queue = decision[r].queue
    BY ZenonT(60), <2>1, Zenon DEF AfterRecv, DecisionType
  <2> HIDE DEF e
  <2>3. CountsSenders(e)
    BY <1>0, <2>1, <2>2 DEF DataInv, Counters, CountsSenders, HasVoted, HasPrepared, LeadersIn
  <2>4. VotesCast(e) /\ BatchesProposed(e) /\ Follows(decision[r], e)
    BY <1>0, <2>1, <2>2 DEF DataInv, VotersAgree, VotesCast, Validity, BatchesProposed,
                            Follows, HasVoted, HasPrepared
  <2>5. Becomes(r, e)
    BY <1>0, <2>1, <2>2, <2>3, <2>4 DEF DataInv, MessagesVouched, Becomes
  <2>6. /\ UNCHANGED <<available, proposed, net, faultyMsgs, offContext>>
        /\ signalled' \in [Correct -> BOOLEAN]
    BY <1>0, <1>3 DEF PollRecv, TypeOK
  <2>7. offContext' \in 0..MaxOffContext
    BY <1>0, <2>6 DEF TypeOK
  <2>8. QED
    BY <2>5, <2>6, <2>7, PlainStep
<1>4. ASSUME NEW r \in Correct, Receive(r)
      PROVE  SafetyInv'
  <2>1. PICK p \in net : p.to = r /\ Process(r, decision[r], p.msg, net \ {p})
    BY ZenonT(60), <1>4, Zenon DEF Receive
  <2>2. /\ decision[r] \in DecisionType /\ decision[r].queue \in [Kinds -> Seq(VouchedMessage)]
        /\ p.msg \in VouchedMessage
    BY <1>0 DEF TypeOK, DataInv, MessagesVouched
  <2>3. decision[r] = [decision[r] EXCEPT !.queue = decision[r].queue]
    BY <2>2 DEF DecisionType
  <2>4. /\ UNCHANGED <<proposed, available>>
        /\ faultyMsgs' \in 0..MaxFaulty /\ offContext' \in 0..MaxOffContext
    BY <1>0, <1>4 DEF TypeOK, Receive
  <2>5. net \ {p} \in SUBSET net
    OBVIOUS
  <2>6. QED
    BY <2>1, <2>2, <2>3, <2>4, <2>5, ProcessStep
<1>5. ASSUME NEW r \in Correct, ReceiveFromFaulty(r)
      PROVE  SafetyInv'
  <2>1. PICK m \in FaultyMessage : Process(r, decision[r], m, net)
    BY <1>5 DEF ReceiveFromFaulty
  <2>2. m \in VouchedMessage
    <3>1. m \in Message /\ m.from \in Faulty
      BY MessageShape, ReplicaAssumption DEF FaultyMessage
    <3>2. QED
      BY <3>1 DEF VouchedMessage, Vouched, Correct
  <2>3. decision[r] \in DecisionType /\ decision[r].queue \in [Kinds -> Seq(VouchedMessage)]
    BY <1>0 DEF TypeOK, DataInv, MessagesVouched
  <2>4. decision[r] = [decision[r] EXCEPT !.queue = decision[r].queue]
    BY <2>3 DEF DecisionType
  <2>5. /\ UNCHANGED <<proposed, available>>
        /\ faultyMsgs' \in 0..MaxFaulty /\ offContext' \in 0..MaxOffContext
    BY <1>0, <1>5, BoundAssumption DEF TypeOK, ReceiveFromFaulty
  <2>6. QED
    BY <2>1, <2>2, <2>3, <2>4, <2>5, ProcessStep
<1>6. ASSUME NEW r \in Correct, QueueOffContext(r)
      PROVE  SafetyInv'
  <2>1. PICK p \in net : /\ p.to = r
                         /\ decision' = [decision EXCEPT ![r] = Enqueue(@, p.msg)]
                         /\ net' = net \ {p}
    BY ZenonT(60), <1>6, Zenon DEF QueueOffContext
  <2> DEFINE e == Enqueue(decision[r], p.msg)
  <2>2. /\ decision[r] \in DecisionType /\ decision[r].queue \in [Kinds -> Seq(VouchedMessage)]
        /\ p.msg \in VouchedMessage /\ p.msg \in Message
        /\ decision' = [decision EXCEPT ![r] = e]
    BY <1>0, <2>1 DEF TypeOK, DataInv, MessagesVouched, VouchedMessage
  <2>3. /\ e \in DecisionType
        /\ e = [decision[r] EXCEPT !.queue = e.queue, !.getQueue = TRUE]
        /\ e.queue \in [Kinds -> Seq(VouchedMessage)]
    BY ZenonT(60), <2>2, EnqueueEffect, Zenon
  <2> HIDE DEF e
  <2>4. /\ e.phase = decision[r].phase
        /\ e.received = decision[r].received /\ e.batches = decision[r].batches
        /\ e.prepares = decision[r].prepares /\ e.commits = decision[r].commits
    BY ZenonT(60), <2>2, <2>3, Zenon DEF DecisionType
  <2>5. CountsSenders(e)
    BY <1>0, <2>4 DEF DataInv, Counters, CountsSenders, HasVoted, HasPrepared, LeadersIn
  <2>6. VotesCast(e) /\ BatchesProposed(e) /\ Follows(decision[r], e)
    BY <1>0, <2>4 DEF DataInv, VotersAgree, VotesCast, Validity, BatchesProposed,
                      Follows, HasVoted, HasPrepared
  <2>7. Becomes(r, e)
    BY <2>2, <2>3, <2>5, <2>6 DEF Becomes
  <2>8. /\ UNCHANGED <<available, proposed, faultyMsgs>> /\ net' \subseteq net
        /\ offContext' \in 0..MaxOffContext /\ signalled' \in [Correct -> BOOLEAN]
    BY <1>0, <1>6, <2>1, BoundAssumption DEF QueueOffContext, TypeOK
  <2>9. QED
    BY <2>7, <2>8, PlainStep
<1>7. ASSUME NEW r \in Correct, Propose(r)
      PROVE  SafetyInv'
  <2>1. PICK b \in Batch \ OutOfSlice :
               /\ proposed' = [proposed EXCEPT ![r] = b]
               /\ net' = net \cup Packets({Msg("PrePrepare", r, b)})
    BY ZenonT(60), <1>7, Zenon DEF Propose
  <2>2. /\ r \in available /\ available' = available \ {r}
        /\ UNCHANGED <<decision, signalled, faultyMsgs, offContext>>
    BY <1>7 DEF Propose
  <2>3. /\ r \in Leaders \ Faulty /\ proposed[r] = NoBatch /\ proposed'[r] = b
        /\ \A l \in Leaders \ Faulty : l # r => proposed'[l] = proposed[l]
        /\ proposed' \in [Leaders \ Faulty -> Batch \cup {NoBatch}]
    BY <1>0, <2>1, <2>2 DEF SafetyInv, TypeOK, ProposesOnce
  <2> DEFINE v == Msg("PrePrepare", r, b)
  <2>4. /\ v \in MessagesFrom(Correct) /\ v \in Message
        /\ v.from = r /\ v.kind = "PrePrepare" /\ v.value = b
    BY DEF MessagesFrom, Message, Msg, Correct
  <2> HIDE DEF v
  <2>5. v \in VouchedMessage'
    BY <2>3, <2>4 DEF VouchedMessage, Vouched, Message
  <2>6. VouchedMessage \subseteq VouchedMessage'
    <3> SUFFICES ASSUME NEW m \in VouchedMessage PROVE m \in VouchedMessage'
      OBVIOUS
    <3>1. m \in Message /\ Vouched(m) /\ (m.kind = "PrePrepare" => m.value # NoBatch)
      BY MessageShape, BatchAssumption DEF VouchedMessage, Message
    <3>2. m.kind = "PrePrepare" /\ m.from \in Correct => m.from # r
      BY <2>3, <3>1 DEF Vouched
    <3>3. Vouched(m)'
      BY <2>2, <2>3, <3>1, <3>2 DEF Vouched, Correct
    <3>4. QED
      BY <3>1, <3>3 DEF VouchedMessage, Message
  <2>7. MessagesVouched'
    <3>1. \A q : q \in [Kinds -> Seq(VouchedMessage)] => q \in [Kinds -> Seq(VouchedMessage')]
      BY <2>6, SeqGrows
    <3>2. \A p \in net' : p.msg \in VouchedMessage'
      BY <1>0, <2>1, <2>5, <2>6 DEF DataInv, MessagesVouched, Packets, v
    <3>3. QED
      BY ZenonT(60), <1>0, <2>2, <3>1, <3>2, Zenon DEF DataInv, MessagesVouched
  <2>8. Counters' /\ VotersAgree'
    BY <1>0, <2>2 DEF DataInv, Counters, VotersAgree
  <2>9. Validity'
    BY <1>0, <2>2, <2>3 DEF DataInv, Validity
  <2>10. ProposesOnce'
    BY <1>0, <2>2, <2>3, BatchAssumption DEF SafetyInv, ProposesOnce
  <2>11. TypeOK'
    BY <1>0, <2>1, <2>2, <2>3, <2>4 DEF TypeOK, Packets, Packet, v
  <2>12. QED
    BY <2>7, <2>8, <2>9, <2>10, <2>11 DEF SafetyInv
<1>8. CASE UNCHANGED vars
  BY ZenonT(60), <1>8, Zenon DEF vars, SafetyInv, TypeOK, Counters, MessagesVouched, VouchedMessage, Vouched,
              VotersAgree, ProposesOnce, Validity
<1>9. QED
  BY <1>1, <1>2, <1>3, <1>4, <1>5, <1>6, <1>7, <1>8 DEF Next, Step

\* The invariant always holds.
LEMMA Safety == Spec => []SafetyInv
BY SafetyInit, SafetyStep, PTL DEF Spec

(***************************************************************************)
(* The type invariant of Instance holds for every choice of its constants. *)
(***************************************************************************)
THEOREM TypeCorrect == Spec => []TypeOK
<1>1. SafetyInv => TypeOK
  BY DEF SafetyInv
<1>2. QED
  BY <1>1, Safety, PTL

(***************************************************************************)
(* No two correct replicas complete the prepare phase with different       *)
(* digests, however many replicas there are and whatever the faulty ones   *)
(* send: the quorums of PREPAREs meet in a correct replica, which has one  *)
(* digest.                                                                 *)
(***************************************************************************)
THEOREM PreparedAgreementHolds == Spec => []PreparedAgreement
<1>1. SafetyInv => PreparedAgreement
  <2> SUFFICES ASSUME SafetyInv, NEW r \in Correct, NEW s \in Correct, Prepared(r), Prepared(s)
               PROVE  decision[r].batches = decision[s].batches
    BY DEF PreparedAgreement, InstanceDigest
  <2>1. /\ decision[r].prepares \in SUBSET Replica /\ decision[s].prepares \in SUBSET Replica
        /\ Cardinality(decision[r].prepares) >= Quorum
        /\ Cardinality(decision[s].prepares) >= Quorum
    BY DEF SafetyInv, TypeOK, DecisionType, Counters, CountsSenders, Prepared, HasPrepared
  <2>2. PICK q \in decision[r].prepares \cap decision[s].prepares : q \in Correct
    BY <2>1, QuorumsMeet
  <2>3. QED
    BY <2>2 DEF SafetyInv, VotersAgree
<1>2. QED
  BY <1>1, Safety, PTL

(***************************************************************************)
(* Agreement: correct replicas decide the same digest.                     *)
(***************************************************************************)
THEOREM AgreementHolds == Spec => []Agreement
<1>1. PreparedAgreement => Agreement
  BY DEF PreparedAgreement, Agreement, Prepared, Decided
<1>2. QED
  BY <1>1, PreparedAgreementHolds, PTL

(***************************************************************************)
(* Validity: correct replicas hold only what a correct leader proposed.    *)
(***************************************************************************)
THEOREM ValidityHolds == Spec => []Validity
<1>1. SafetyInv => Validity
  BY DEF SafetyInv
<1>2. QED
  BY <1>1, Safety, PTL

(***************************************************************************)
(* A decided instance carries the batches of all the leaders and a quorum  *)
(* of PREPAREs and COMMITs of different replicas.                          *)
(***************************************************************************)
THEOREM DecidedHasProofHolds == Spec => []DecidedHasProof
<1>1. SafetyInv => DecidedHasProof
  BY DEF SafetyInv, Counters, CountsSenders, DecidedHasProof, Decided, HasVoted, HasPrepared,
         InstanceDigest
<1>2. QED
  BY <1>1, Safety, PTL

-----------------------------------------------------------------------------
(***************************************************************************)
(* The abstract instance is implemented.                                   *)
(***************************************************************************)
Outcome == [r \in Correct |-> IF Decided(r) THEN InstanceDigest(decision[r]) ELSE NoBatch]

\* A step changes the decision of one replica, and not what it has decided.
ChangesOnly(r) ==
  /\ \A s \in Correct : s # r => decision'[s] = decision[s]
  /\ decision[r].phase = "Decided" =>
       decision'[r].phase = "Decided" /\ decision'[r].batches = decision[r].batches

\* process_message() changes one decision and never a decided one.
LEMMA ProcessChanges ==
  ASSUME TypeOK, NEW r \in Correct, NEW d \in DecisionType, NEW m \in Message, NEW rest,
         d.phase = decision[r].phase, d.batches = decision[r].batches,
         Process(r, d, m, rest)
  PROVE  ChangesOnly(r)
<1>1. CASE decision' = [decision EXCEPT ![r] = Enqueue(d, m)]
  <2>1. Enqueue(d, m).phase = d.phase /\ Enqueue(d, m).batches = d.batches
    BY DEF Enqueue, DecisionType
  <2>2. QED
    BY <1>1, <2>1 DEF ChangesOnly, TypeOK
<1>2. CASE decision' = [decision EXCEPT ![r] = d]
  BY <1>2 DEF ChangesOnly, TypeOK
<1>3. CASE /\ Accepts(d, m, View, r)
           /\ decision' = [decision EXCEPT ![r] = AfterAccept(d, m, View)]
  <2>1. d.phase # "Decided"
    BY <1>3, AcceptCases DEF AcceptsBatch, AcceptsPrepare, AcceptsCommit
  <2>2. QED
    BY <1>3, <2>1 DEF ChangesOnly, TypeOK
<1>4. QED
  BY <1>1, <1>2, <1>3 DEF Process

\* No step of a replica changes what it, or another replica, has decided.
LEMMA StepChanges ==
  ASSUME SafetyInv, NEW r \in Correct, Step(r)
  PROVE  ChangesOnly(r)
<1>0. TypeOK /\ decision[r] \in DecisionType /\ decision \in [Correct -> DecisionType]
  BY DEF SafetyInv, TypeOK
<1>1. CASE PollTryPropose(r)
  BY <1>0, <1>1 DEF PollTryPropose, PollTriesPropose, ChangesOnly
<1>2. CASE PollNextMessage(r)
  <2>1. PollFindsMessage(decision[r])
    BY <1>2 DEF PollNextMessage
  <2>2. /\ AfterNextMessage(decision[r]) \in DecisionType
        /\ NextMessage(decision[r]) \in Message
        /\ AfterNextMessage(decision[r]) =
             [decision[r] EXCEPT !.queue = AfterNextMessage(decision[r]).queue]
    BY <1>0, <2>1, NextMessageEffect
  <2>3. /\ AfterNextMessage(decision[r]).phase = decision[r].phase
        /\ AfterNextMessage(decision[r]).batches = decision[r].batches
    BY <1>0, <2>2 DEF DecisionType
  <2>4. Process(r, AfterNextMessage(decision[r]), NextMessage(decision[r]), net)
    BY <1>2 DEF PollNextMessage
  <2>5. QED
    BY <1>0, <2>2, <2>3, <2>4, ProcessChanges
<1>3. CASE PollRecv(r)
  <2>1. /\ AfterRecv(decision[r]).phase = decision[r].phase
        /\ AfterRecv(decision[r]).batches = decision[r].batches
    BY <1>0 DEF AfterRecv, DecisionType
  <2>2. QED
    BY <1>0, <1>3, <2>1 DEF PollRecv, ChangesOnly
<1>4. CASE Receive(r)
  <2>1. PICK p \in net : Process(r, decision[r], p.msg, net \ {p})
    BY <1>4 DEF Receive
  <2>2. p.msg \in Message
    BY DEF SafetyInv, MessagesVouched, VouchedMessage
  <2>3. QED
    BY <1>0, <2>1, <2>2, ProcessChanges
<1>5. CASE ReceiveFromFaulty(r)
  <2>1. PICK m \in FaultyMessage : Process(r, decision[r], m, net)
    BY <1>5 DEF ReceiveFromFaulty
  <2>2. m \in Message
    BY MessageShape, ReplicaAssumption DEF FaultyMessage
  <2>3. QED
    BY <1>0, <2>1, <2>2, ProcessChanges
<1>6. CASE QueueOffContext(r)
  <2>1. PICK m : decision' = [decision EXCEPT ![r] = Enqueue(@, m)]
    BY ZenonT(60), <1>6, Zenon DEF QueueOffContext
  <2>2. /\ Enqueue(decision[r], m).phase = decision[r].phase
        /\ Enqueue(decision[r], m).batches = decision[r].batches
    BY <1>0 DEF Enqueue, DecisionType
  <2>3. QED
    BY <1>0, <2>1, <2>2 DEF ChangesOnly
<1>7. CASE Propose(r)
  BY <1>7 DEF Propose, ChangesOnly
<1>8. QED
  BY <1>1, <1>2, <1>3, <1>4, <1>5, <1>6, <1>7 DEF Step

\* A step of the instance is a step of AtomicDecision or decides nothing.
LEMMA OutcomeStep ==
  SafetyInv /\ SafetyInv' /\ Agreement' /\ [Next]_vars => [Abstract!Next]_Outcome
<1> SUFFICES ASSUME SafetyInv, SafetyInv', Agreement', [Next]_vars
             PROVE  [Abstract!Next]_Outcome
  OBVIOUS
<1>1. CASE UNCHANGED vars
  BY <1>1 DEF vars, Outcome, Decided, InstanceDigest
<1>2. CASE Next
  <2>1. PICK r \in Correct : Step(r)
    BY <1>2 DEF Next
  <2>2. ChangesOnly(r)
    BY <2>1, StepChanges
  <2>3. CASE Decided(r)' /\ ~ Decided(r)
    <3> DEFINE v == decision'[r].batches
    <3>1. v \in Digest
      BY <2>3 DEF SafetyInv, Counters, CountsSenders, HasVoted, Decided
    <3>2. Outcome[r] = NoBatch
      BY <2>3 DEF Outcome
    <3>3. ASSUME NEW s \in Correct PROVE Outcome[s] \in {NoBatch, v}
      <4>1. CASE Decided(s)
        <5>1. s # r /\ decision'[s] = decision[s]
          BY <2>2, <2>3, <4>1 DEF ChangesOnly
        <5>2. decision'[s].batches = v
          BY <2>3, <4>1, <5>1 DEF Agreement, Decided, InstanceDigest
        <5>3. QED
          BY <4>1, <5>1, <5>2 DEF Outcome, InstanceDigest
      <4>2. CASE ~ Decided(s)
        BY <4>2 DEF Outcome
      <4>3. QED
        BY <4>1, <4>2
    <3>4. Outcome' = [Outcome EXCEPT ![r] = v]
      <4>1. \A s \in Correct : s # r => Outcome'[s] = Outcome[s]
        BY <2>2 DEF ChangesOnly, Outcome, Decided, InstanceDigest
      <4>2. Outcome'[r] = v
        BY <2>3 DEF Outcome, InstanceDigest
      <4>3. QED
        BY ZenonT(60), <4>1, <4>2, Zenon DEF Outcome
    <3>5. QED
      BY ZenonT(60), <3>1, <3>2, <3>3, <3>4, Zenon DEF Abstract!Next, Abstract!Decide, Outcome
  <2>4. CASE Decided(r) \/ ~ Decided(r)'
    <3>1. \A s \in Correct : Outcome'[s] = Outcome[s]
      BY <2>2, <2>4 DEF ChangesOnly, Outcome, Decided, InstanceDigest
    <3>2. Outcome' = Outcome
      BY <3>1 DEF Outcome
    <3>3. QED
      BY <3>2
  <2>5. QED
    BY <2>3, <2>4
<1>3. QED
  BY <1>1, <1>2

(***************************************************************************)
(* Every behaviour of the instance is one of AtomicDecision: the replicas  *)
(* decide one by one, all the same digest, and stick to it.                *)
(***************************************************************************)
THEOREM Refinement == Spec => ImplementsAtomicDecision
<1>1. Init => Abstract!Init
  BY DEF Init, Abstract!Init, InitDecision, Decided
<1>2. SafetyInv /\ SafetyInv' /\ Agreement' /\ [Next]_vars
        => [Abstract!Next]_(Outcome)
  BY OutcomeStep
<1>3. QED
  BY <1>1, <1>2, Safety, AgreementHolds, PTL
     DEF Spec, Abstract!Spec, ImplementsAtomicDecision, Outcome

-----------------------------------------------------------------------------
(***************************************************************************)
(* No lost wakeup.  The invariant needs the flag getQueue: a queue that is *)
(* not empty has its flag up, and the flag is lowered only by a poll that  *)
(* finds the queue empty.                                                  *)
(***************************************************************************)
WakeupInv ==
  /\ SafetyInv
  /\ QueueFlag
  /\ \A r \in Correct :
       signalled[r] = FALSE => Drained(decision[r]) /\ decision[r].phase # "Initialize"

\* The decision of r becomes e, and its signal becomes sig.
Rouses(r, e, sig) ==
  /\ decision' = [decision EXCEPT ![r] = e]
  /\ signalled' = [signalled EXCEPT ![r] = sig]
  /\ FlagOK(e)
  /\ sig = FALSE => Drained(e) /\ e.phase # "Initialize"

\* Setting flag and signal together as Rouses does keeps the wakeup invariant.
LEMMA RousesPreserves ==
  ASSUME WakeupInv, SafetyInv', NEW r \in Correct, NEW e, NEW sig, Rouses(r, e, sig)
  PROVE  WakeupInv'
<1>1. /\ decision'[r] = e /\ signalled'[r] = sig
      /\ \A s \in Correct : s # r => decision'[s] = decision[s] /\ signalled'[s] = signalled[s]
  BY DEF WakeupInv, SafetyInv, TypeOK, Rouses
<1>2. QED
  BY <1>1 DEF WakeupInv, QueueFlag, Rouses, FlagOK, Drained

\* process_message() signals an instance for whatever it leaves queued.
LEMMA ProcessRouses ==
  ASSUME WakeupInv, SafetyInv', NEW r \in Correct, NEW d \in DecisionType, NEW m \in Message,
         NEW rest, CountsSenders(d), FlagOK(d), d.phase = decision[r].phase,
         signalled[r] = FALSE => Drained(d),
         Process(r, d, m, rest)
  PROVE  WakeupInv'
<1>1. signalled \in [Correct -> BOOLEAN] /\ signalled = [signalled EXCEPT ![r] = signalled[r]]
  BY DEF WakeupInv, SafetyInv, TypeOK
<1>2. CASE /\ decision' = [decision EXCEPT ![r] = Enqueue(d, m)]
           /\ signalled' = [signalled EXCEPT ![r] = TRUE]
  <2>1. Enqueue(d, m).getQueue = TRUE
    BY DEF Enqueue, DecisionType
  <2>2. Rouses(r, Enqueue(d, m), TRUE)
    BY ZenonT(60), <1>2, <2>1 DEF Rouses, FlagOK
  <2>3. QED
    BY ZenonT(60), <2>2, RousesPreserves, Zenon
<1>3. CASE /\ decision' = [decision EXCEPT ![r] = d]
           /\ signalled' = signalled
  <2>1. Rouses(r, d, signalled[r])
    BY <1>1, <1>3 DEF Rouses, WakeupInv
  <2>2. QED
    BY <2>1, RousesPreserves
<1>4. CASE /\ Accepts(d, m, View, r)
           /\ decision' = [decision EXCEPT ![r] = AfterAccept(d, m, View)]
           /\ signalled' = [signalled EXCEPT ![r] = @ \/ VotesSent(d, m, View, r) # {}]
  <2> DEFINE e == AfterAccept(d, m, View)
             sig == signalled[r] \/ VotesSent(d, m, View, r) # {}
  <2>0. e = AfterAccept(d, m, View)
    OBVIOUS
  <2>1. /\ decision' = [decision EXCEPT ![r] = e]
        /\ signalled' = [signalled EXCEPT ![r] = sig]
    BY <1>4
  <2>2. sig = FALSE => signalled[r] = FALSE /\ VotesSent(d, m, View, r) = {}
    BY <1>1
  <2> HIDE DEF e, sig
  <2>3. CASE AcceptsBatch(d, m)
    <3>1. BatchEffect(d, m, r, e)
      BY ZenonT(60), <2>0, <2>3, AcceptBatchEffect
    <3>2. /\ e.queue = d.queue /\ e.phase \in {"PrePreparing", "Preparing"}
          /\ e.phase = "PrePreparing" => e.getQueue = d.getQueue
          /\ e.phase = "Preparing" => e.getQueue = TRUE /\ VotesSent(d, m, View, r) # {}
      BY ZenonT(60), <3>1 DEF BatchEffect
    <3>3. d.phase = "PrePreparing"
      BY <2>3 DEF AcceptsBatch
    <3>4. FlagOK(e)
      BY ZenonT(60), <3>2, <3>3 DEF FlagOK, Drained
    <3>5. sig = FALSE => Drained(e) /\ e.phase # "Initialize"
      BY <2>2, <3>2, <3>3 DEF Drained
    <3>6. QED
      BY ZenonT(60), <2>1, <3>4, <3>5, RousesPreserves, Zenon DEF Rouses
  <2>4. CASE AcceptsPrepare(d, m) \/ AcceptsCommit(d, m)
    <3>1. VoteEffect(d, m, r, e)
      BY <2>0, <2>4, AcceptVoteEffect
    <3>2. /\ e.queue = d.queue /\ e.phase \in {d.phase, FollowingPhase(d.phase)}
          /\ e.phase = d.phase => e.getQueue = d.getQueue
          /\ e.phase = "Committing" /\ d.phase = "Preparing" =>
               e.getQueue = TRUE /\ VotesSent(d, m, View, r) # {}
      BY ZenonT(60), <3>1 DEF VoteEffect
    <3>3. d.phase \in {"Preparing", "Committing"}
      BY <2>4 DEF AcceptsPrepare, AcceptsCommit
    <3>4. \/ e.phase = d.phase
          \/ e.phase = "Committing" /\ d.phase = "Preparing"
          \/ e.phase = "Decided"
      BY <3>2, <3>3 DEF FollowingPhase
    <3>5. FlagOK(e)
      BY <3>2, <3>3, <3>4 DEF FlagOK, Drained, WorkingPhases
    <3>6. sig = FALSE => Drained(e) /\ e.phase # "Initialize"
      BY <2>2, <3>2, <3>3, <3>4 DEF Drained, WorkingPhases
    <3>7. QED
      BY ZenonT(60), <2>1, <3>5, <3>6, RousesPreserves, Zenon DEF Rouses
  <2>5. QED
    BY ZenonT(60), <1>4, <2>3, <2>4, AcceptCases
<1>5. QED
  BY <1>2, <1>3, <1>4 DEF Process

\* Every step preserves the wakeup invariant.
LEMMA WakeupStep == WakeupInv /\ [Next]_vars => WakeupInv'
<1> SUFFICES ASSUME WakeupInv, [Next]_vars PROVE WakeupInv'
  OBVIOUS
<1>0. SafetyInv /\ SafetyInv'
  BY SafetyStep DEF WakeupInv
<1>a. ASSUME NEW r \in Correct
      PROVE  /\ decision[r] \in DecisionType /\ CountsSenders(decision[r]) /\ FlagOK(decision[r])
             /\ signalled[r] \in BOOLEAN
             /\ signalled[r] = FALSE => Drained(decision[r]) /\ decision[r].phase # "Initialize"
  BY <1>0 DEF WakeupInv, SafetyInv, TypeOK, Counters, QueueFlag
<1>1. ASSUME NEW r \in Correct, PollTryPropose(r)
      PROVE  WakeupInv'
  <2> DEFINE e == AfterTryPropose(decision[r])
  <2>1. decision' = [decision EXCEPT ![r] = e] /\ signalled' = signalled
        /\ signalled[r] = TRUE /\ decision[r].phase = "Initialize"
    BY <1>1, <1>a DEF PollTryPropose, PollTriesPropose
  <2>2. /\ e.phase = "PrePreparing" /\ e.queue = decision[r].queue
        /\ e.getQueue = decision[r].getQueue
    BY <1>a DEF AfterTryPropose, DecisionType
  <2> HIDE DEF e
  <2>3. FlagOK(e)
    BY ZenonT(60), <1>a, <2>1, <2>2, Zenon DEF FlagOK, Drained, AwaitedKind
  <2>4. Rouses(r, e, TRUE)
    BY <1>0, <2>1, <2>3 DEF Rouses, SafetyInv, TypeOK
  <2>5. QED
    BY ZenonT(60), <1>0, <2>4, RousesPreserves, Zenon
<1>2. ASSUME NEW r \in Correct, PollNextMessage(r)
      PROVE  WakeupInv'
  <2> DEFINE d == AfterNextMessage(decision[r])
             m == NextMessage(decision[r])
  <2>1. PollFindsMessage(decision[r]) /\ signalled[r] = TRUE /\ Process(r, d, m, net)
    BY ZenonT(60), <1>2, <1>a, Zenon DEF PollNextMessage
  <2>2. /\ d \in DecisionType /\ d = [decision[r] EXCEPT !.queue = d.queue] /\ m \in Message
    BY ZenonT(60), <1>a, <2>1, NextMessageEffect, Zenon
  <2>3. decision[r].getQueue = TRUE
    BY ZenonT(60), <1>a, <2>1 DEF PollFindsMessage, DecisionType
  <2> HIDE DEF d, m
  <2>4. /\ d.phase = decision[r].phase /\ d.received = decision[r].received
        /\ d.batches = decision[r].batches /\ d.getQueue = TRUE
        /\ d.prepares = decision[r].prepares /\ d.commits = decision[r].commits
    BY <1>a, <2>2, <2>3 DEF DecisionType
  <2>5. CountsSenders(d)
    <3>1. LeadersIn(d) = LeadersIn(decision[r])
      BY <2>4 DEF LeadersIn
    <3>2. (HasVoted(d) <=> HasVoted(decision[r])) /\ (HasPrepared(d) <=> HasPrepared(decision[r]))
      BY <2>4 DEF HasVoted, HasPrepared
    <3>3. QED
      BY ZenonT(60), <1>a, <2>4, <3>1, <3>2, Zenon DEF CountsSenders
  <2>6. FlagOK(d)
    BY <2>4 DEF FlagOK
  <2>7. QED
    BY ZenonT(60), <1>0, <2>1, <2>2, <2>4, <2>5, <2>6, ProcessRouses, Zenon
<1>3. ASSUME NEW r \in Correct, PollRecv(r)
      PROVE  WakeupInv'
  <2> DEFINE e == AfterRecv(decision[r])
  <2>1. /\ decision' = [decision EXCEPT ![r] = e]
        /\ signalled' = [signalled EXCEPT ![r] = FALSE]
        /\ decision[r].phase # "Initialize" /\ ~ PollFindsMessage(decision[r])
    BY <1>3 DEF PollRecv, PollTriesPropose
  <2>2. e.phase = decision[r].phase /\ e.queue = decision[r].queue
    BY <1>a DEF AfterRecv, DecisionType
  <2> HIDE DEF e
  <2>3. Drained(decision[r])
    <3>1. CASE decision[r].getQueue = FALSE
      BY ZenonT(60), <1>a, <3>1, Zenon DEF FlagOK
    <3>2. CASE decision[r].getQueue = TRUE
      BY <2>1, <3>2 DEF PollFindsMessage, Drained
    <3>3. QED
      BY ZenonT(60), <1>a, <3>1, <3>2, Zenon DEF DecisionType
  <2>4. Drained(e) /\ e.phase # "Initialize"
    BY <2>1, <2>2, <2>3 DEF Drained
  <2>5. Rouses(r, e, FALSE)
    BY <2>1, <2>4 DEF Rouses, FlagOK
  <2>6. QED
    BY ZenonT(60), <1>0, <2>5, RousesPreserves, Zenon
<1>4. ASSUME NEW r \in Correct, Receive(r)
      PROVE  WakeupInv'
  <2>1. PICK p \in net : Process(r, decision[r], p.msg, net \ {p})
    BY <1>4 DEF Receive
  <2>2. p.msg \in Message
    BY <1>0 DEF SafetyInv, MessagesVouched, VouchedMessage
  <2>3. QED
    BY ZenonT(60), <1>0, <1>a, <2>1, <2>2, ProcessRouses, Zenon
<1>5. ASSUME NEW r \in Correct, ReceiveFromFaulty(r)
      PROVE  WakeupInv'
  <2>1. PICK m \in FaultyMessage : Process(r, decision[r], m, net)
    BY <1>5 DEF ReceiveFromFaulty
  <2>2. m \in Message
    BY MessageShape, ReplicaAssumption DEF FaultyMessage
  <2>3. QED
    BY ZenonT(60), <1>0, <1>a, <2>1, <2>2, ProcessRouses, Zenon
<1>6. ASSUME NEW r \in Correct, QueueOffContext(r)
      PROVE  WakeupInv'
  <2>1. PICK m : decision' = [decision EXCEPT ![r] = Enqueue(@, m)]
    BY ZenonT(60), <1>6, Zenon DEF QueueOffContext
  <2>2. signalled' = [signalled EXCEPT ![r] = TRUE]
    BY <1>6 DEF QueueOffContext
  <2>3. Enqueue(decision[r], m).getQueue = TRUE
    BY <1>a DEF Enqueue, DecisionType
  <2>4. decision' = [decision EXCEPT ![r] = Enqueue(decision[r], m)]
    BY <1>0, <2>1 DEF SafetyInv, TypeOK
  <2>5. Rouses(r, Enqueue(decision[r], m), TRUE)
    BY <2>2, <2>3, <2>4 DEF Rouses, FlagOK
  <2>6. QED
    BY ZenonT(60), <1>0, <2>5, RousesPreserves, Zenon
<1>7. ASSUME NEW r \in Correct, Propose(r)
      PROVE  WakeupInv'
  BY <1>0, <1>7 DEF Propose, WakeupInv, QueueFlag
<1>8. CASE UNCHANGED vars
  BY <1>0, <1>8 DEF vars, WakeupInv, QueueFlag
<1>9. QED
  BY <1>1, <1>2, <1>3, <1>4, <1>5, <1>6, <1>7, <1>8 DEF Next, Step

(***************************************************************************)
(* No message ever waits in the queue of an instance's current phase while *)
(* the instance is not signalled.                                          *)
(***************************************************************************)
THEOREM NoLostWakeupHolds == Spec => []NoLostWakeup
<1>1. Init => WakeupInv
  <2> SUFFICES ASSUME Init PROVE WakeupInv
    OBVIOUS
  <2>1. \A r \in Correct : /\ signalled[r] = TRUE
                           /\ decision[r].phase = "Initialize"
                           /\ decision[r].queue = EmptyQueue
    BY ZenonT(60) DEF Init, InitDecision
  <2>2. \A r \in Correct : FlagOK(decision[r])
    BY <2>1 DEF FlagOK, Drained, WorkingPhases, EmptyQueue, Kinds
  <2>3. QED
    BY <2>1, <2>2, SafetyInit DEF WakeupInv, QueueFlag
<1>2. WakeupInv => NoLostWakeup
  BY DEF WakeupInv, NoLostWakeup, Drained, SafetyInv, TypeOK
<1>3. QED
  BY <1>1, <1>2, WakeupStep, PTL DEF Spec
=============================================================================
