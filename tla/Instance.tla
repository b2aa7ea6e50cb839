------------------------------ MODULE Instance ------------------------------
(***************************************************************************)
(* One consensus instance in one view, run by all the replicas: every      *)
(* correct replica runs the state machine of module Decision, driven by    *)
(* the polling loop of the Consensus struct and by the messages of the     *)
(* network; every correct leader has a proposer that waits for the         *)
(* instance to be made available to it.  Faulty replicas send what they    *)
(* like to whom they like.                                                 *)
(***************************************************************************)
EXTENDS Decision

CONSTANTS
  Replica,      \* the quorum members of the view
  Faulty,       \* those of them that do not follow the protocol
  Leaders,      \* the leader set of the view (the code elects one leader)
  ViewSeq,      \* the sequence number of the view
  InstanceSeq,  \* the sequence number of the instance
  MaxFaulty,    \* bound on the messages faulty replicas get processed
  MaxOffContext \* bound on the messages that arrive out of context

VARIABLES
  decision,     \* decision[r]: the ConsensusDecision of the correct replica r
  signalled,    \* signalled[r]: is the instance in r's Signals?
  available,    \* leaders whose proposer may propose (the ProposerConsensusGuard)
  proposed,     \* proposed[l]: the batch the correct leader l proposed
  net,          \* messages of correct replicas in flight to correct replicas
  faultyMsgs,   \* messages of faulty replicas processed so far
  offContext    \* messages queued out of context so far

vars == <<decision, signalled, available, proposed, net, faultyMsgs, offContext>>

Correct == Replica \ Faulty

View == [seq |-> ViewSeq, leaders |-> Leaders]

Digest == [Leaders -> Batch]

\* Every two quorums share a correct replica.  It follows from n = 3f + 1 and
\* quorum = 2f + 1 with at most f faulty replicas.
ASSUME ReplicaAssumption ==
  /\ IsFiniteSet(Replica)
  /\ Faulty \subseteq Replica
  /\ Leaders \subseteq Replica /\ Leaders # {}
  /\ Quorum \in Nat \ {0}
  /\ 2 * Quorum > Cardinality(Replica) + Cardinality(Faulty)

ASSUME BatchAssumption == NoBatch \notin Batch /\ OutOfSlice \subseteq Batch

ASSUME BoundAssumption ==
  ViewSeq \in Nat /\ InstanceSeq \in Nat /\ MaxFaulty \in Nat /\ MaxOffContext \in Nat

-----------------------------------------------------------------------------
\* The messages addressed to this instance.  Those for other instances and
\* views are sorted out before they reach it (module Consensus).
Msg(kind, from, value) ==
  [kind |-> kind, from |-> from, view |-> ViewSeq, seq |-> InstanceSeq, value |-> value]

MessagesFrom(senders) ==
  {Msg("PrePrepare", s, b) : s \in senders, b \in Batch}
    \cup {Msg(k, s, v) : k \in {"Prepare", "Commit"}, s \in senders, v \in Digest}

Packets(msgs) == [to : Correct, msg : msgs]

FaultyMessage == MessagesFrom(Faulty)

-----------------------------------------------------------------------------
Init ==
  /\ decision = [r \in Correct |-> InitDecision(InstanceSeq, View, EmptyQueue)]
  /\ signalled = [r \in Correct |-> TRUE]
  /\ available = {}
  /\ proposed = [l \in Leaders \ Faulty |-> NoBatch]
  /\ net = {}
  /\ faultyMsgs = 0
  /\ offContext = 0

\* Replica r, its decision being d, processes message m; rest is what is then
\* left in the network.  A queued message and a completed phase signal the
\* instance; an ignored message and an error leave the decision alone.
Process(r, d, m, rest) ==
  \/ /\ Queues(d, m)
     /\ decision' = [decision EXCEPT ![r] = Enqueue(d, m)]
     /\ signalled' = [signalled EXCEPT ![r] = TRUE]
     /\ net' = rest
  \/ /\ Ignores(d, m, View) \/ Errs(d, m, View, r)
     /\ decision' = [decision EXCEPT ![r] = d]
     /\ signalled' = signalled
     /\ net' = rest
  \/ /\ Accepts(d, m, View, r)
     /\ decision' = [decision EXCEPT ![r] = AfterAccept(d, m, View)]
     /\ signalled' = [signalled EXCEPT ![r] = @ \/ VotesSent(d, m, View, r) # {}]
     /\ net' = rest \cup Packets(VotesSent(d, m, View, r))

PollTryPropose(r) ==
  /\ signalled[r]
  /\ PollTriesPropose(decision[r])
  /\ decision' = [decision EXCEPT ![r] = AfterTryPropose(@)]
  /\ available' = available \cup ({r} \cap Leaders)
  /\ UNCHANGED <<signalled, proposed, net, faultyMsgs, offContext>>

\* The message poll() returns is processed at once; the instance stays signalled.
PollNextMessage(r) ==
  /\ signalled[r]
  /\ PollFindsMessage(decision[r])
  /\ Process(r, AfterNextMessage(decision[r]), NextMessage(decision[r]), net)
  /\ UNCHANGED <<available, proposed, faultyMsgs, offContext>>

PollRecv(r) ==
  /\ signalled[r]
  /\ ~ PollTriesPropose(decision[r])
  /\ ~ PollFindsMessage(decision[r])
  /\ decision' = [decision EXCEPT ![r] = AfterRecv(@)]
  /\ signalled' = [signalled EXCEPT ![r] = FALSE]
  /\ UNCHANGED <<available, proposed, net, faultyMsgs, offContext>>

\* A message is only taken from the network once poll() has nothing left to do.
Receive(r) ==
  /\ ~ signalled[r]
  /\ \E p \in net : p.to = r /\ Process(r, decision[r], p.msg, net \ {p})
  /\ UNCHANGED <<available, proposed, faultyMsgs, offContext>>

ReceiveFromFaulty(r) ==
  /\ ~ signalled[r]
  /\ faultyMsgs < MaxFaulty
  /\ faultyMsgs' = faultyMsgs + 1
  /\ \E m \in FaultyMessage : Process(r, decision[r], m, net)
  /\ UNCHANGED <<available, proposed, offContext>>

\* While the replica does not run the ordering protocol (it is transferring
\* state, say) messages are put into the queue of the instance whatever its phase.
QueueOffContext(r) ==
  /\ offContext < MaxOffContext
  /\ offContext' = offContext + 1
  /\ \E p \in net :
       /\ p.to = r
       /\ decision' = [decision EXCEPT ![r] = Enqueue(@, p.msg)]
       /\ net' = net \ {p}
  /\ signalled' = [signalled EXCEPT ![r] = TRUE]
  /\ UNCHANGED <<available, proposed, faultyMsgs>>

\* Mutant of Propose: the authorisation is read but not consumed.
ProposeAgain(r) ==
  /\ r \in available
  /\ \E b \in Batch \ OutOfSlice :
       /\ proposed' = [proposed EXCEPT ![r] = b]
       /\ net' = net \cup Packets({Msg("PrePrepare", r, b)})
  /\ UNCHANGED <<decision, signalled, available, faultyMsgs, offContext>>

\* The proposer thread of leader r takes the authorisation and proposes.
Propose(r) ==
  /\ r \in available
  /\ available' = available \ {r}
  /\ \E b \in Batch \ OutOfSlice :
       /\ proposed' = [proposed EXCEPT ![r] = b]
       /\ net' = net \cup Packets({Msg("PrePrepare", r, b)})
  /\ UNCHANGED <<decision, signalled, faultyMsgs, offContext>>

Step(r) ==
  \/ PollTryPropose(r)
  \/ PollNextMessage(r)
  \/ PollRecv(r)
  \/ Receive(r)
  \/ ReceiveFromFaulty(r)
  \/ QueueOffContext(r)
  \/ Propose(r)

Next == \E r \in Correct : Step(r)

Spec == Init /\ [][Next]_vars

\* The replica thread keeps polling and receiving, the proposer thread keeps
\* running, and the channels between correct replicas deliver.  Nothing is
\* assumed of faulty replicas or of how often messages arrive out of context.
ReplicaThread(r) ==
  PollTryPropose(r) \/ PollNextMessage(r) \/ PollRecv(r) \/ Receive(r)

FairSpec ==
  Spec /\ \A r \in Correct : WF_vars(ReplicaThread(r)) /\ WF_vars(Propose(r))

-----------------------------------------------------------------------------
Message == MessagesFrom(Replica)

Packet == Packets(MessagesFrom(Correct))

DecisionType ==
  [seq : {InstanceSeq}, phase : Phases, received : Nat,
   batches : [Leaders -> Batch \cup {NoBatch}],
   prepares : SUBSET Replica, commits : SUBSET Replica,
   queue : [Kinds -> Seq(Message)], getQueue : BOOLEAN]

(***************************************************************************)
(* The type invariant: every correct replica holds a well-formed           *)
(* ConsensusDecision, and only messages of correct replicas are in flight. *)
(***************************************************************************)
TypeOK ==
  /\ decision \in [Correct -> DecisionType]
  /\ signalled \in [Correct -> BOOLEAN]
  /\ available \subseteq Leaders \ Faulty
  /\ proposed \in [Leaders \ Faulty -> Batch \cup {NoBatch}]
  /\ net \subseteq Packet
  /\ faultyMsgs \in 0..MaxFaulty
  /\ offContext \in 0..MaxOffContext

Decided(r) == decision[r].phase = "Decided"

\* r has seen a quorum of PREPAREs and has broadcast its COMMIT.
Prepared(r) == decision[r].phase \in {"Committing", "Decided"}

(***************************************************************************)
(* Agreement: two correct replicas in which the instance is Decided have   *)
(* decided the same digest, whatever a faulty leader proposes to whom.     *)
(***************************************************************************)
Agreement ==
  \A r, s \in Correct :
    Decided(r) /\ Decided(s) => InstanceDigest(decision[r]) = InstanceDigest(decision[s])

(***************************************************************************)
(* No two correct replicas complete the prepare phase of one view with     *)
(* different digests: what a COMMIT of a correct replica stands for is     *)
(* unique, which is what the view change relies on.                        *)
(***************************************************************************)
PreparedAgreement ==
  \A r, s \in Correct :
    Prepared(r) /\ Prepared(s) => InstanceDigest(decision[r]) = InstanceDigest(decision[s])

(***************************************************************************)
(* A decided instance carries a full proof: the batch of every leader and  *)
(* PREPAREs and COMMITs of a quorum of different replicas, so the received *)
(* counters of process_message never count a replica twice.                *)
(***************************************************************************)
DecidedHasProof ==
  \A r \in Correct : Decided(r) =>
    /\ InstanceDigest(decision[r]) \in Digest
    /\ Cardinality(decision[r].prepares) >= Quorum
    /\ Cardinality(decision[r].commits) >= Quorum

(***************************************************************************)
(* Validity: a batch a correct replica holds for a correct leader is the   *)
(* one batch that this leader's proposer broadcast.                        *)
(***************************************************************************)
Validity ==
  \A r \in Correct, l \in Leaders \ Faulty :
    decision[r].batches[l] \in {NoBatch, proposed[l]}

(***************************************************************************)
(* No lost wakeup: when the instance is not signalled, so that poll() will *)
(* not look at it, no message waits in the queue of its current phase and  *)
(* it is not waiting for its first poll.                                   *)
(***************************************************************************)
NoLostWakeup ==
  \A r \in Correct : ~ signalled[r] =>
    /\ decision[r].phase # "Initialize"
    /\ decision[r].phase \in WorkingPhases =>
         decision[r].queue[AwaitedKind(decision[r].phase)] = << >>

(***************************************************************************)
(* Termination: when the leaders are correct and the correct replicas make *)
(* a quorum, every correct replica decides, however the messages are       *)
(* reordered and whichever phase they find it in.                          *)
(***************************************************************************)
Termination == <>(\A r \in Correct : Decided(r))

\* The abstract instance: what each correct replica has decided.
Abstract == INSTANCE AtomicDecision WITH
  Participant <- Correct,
  Undecided   <- NoBatch,
  outcome     <- [r \in Correct |->
                    IF Decided(r) THEN InstanceDigest(decision[r]) ELSE NoBatch]

(***************************************************************************)
(* The instance implements AtomicDecision: a step of it either decides for *)
(* one replica, in agreement with every earlier decision, or decides       *)
(* nothing; a Decided instance never changes.                              *)
(***************************************************************************)
ImplementsAtomicDecision == Abstract!Spec
=============================================================================
